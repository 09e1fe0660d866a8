------------------------ MODULE CronLifecycleProofs ------------------------
(***************************************************************************)
(* For every number of starts and drains: a stop that nothing followed     *)
(* leaves no timer behind, the service is handed one start at a time, a    *)
(* paused scheduler without blockers is quiet and a resumed one wakes up.  *)
(*                                                                         *)
(* The argument: the call that runs startPromise is the one the proxy      *)
(* names as its owner (Owning), so the service's starts in progress are    *)
(* those of one call (Counted).  A call that joined finds a start of its   *)
(* own generation that ended well either started or outdated (Joins), so   *)
(* that it never becomes an owner beside another.  A stop reaches the      *)
(* service, or the service has not begun (Halting), and a handover, which  *)
(* stops only once, comes after the last start (Handing).                  *)
(***************************************************************************)
EXTENDS CronLifecycle, FiniteSetTheorems, TLAPS

\* Nothing has ever been started in the service.
Fresh == /\ svc.starts = 0 /\ ~svc.timer /\ ~svc.started
         /\ ~tick.waiting /\ ~tick.running

Owning ==
    /\ \A c \in Starter : call[c].pc \in Promised <=> loaded.owner = c
    /\ loaded.owner # None => loaded.phase \in {"starting", "stopped"}

Counted == svc.starts = IF \E c \in Starter : call[c].pc \in InService THEN 1 ELSE 0

Early ==
    /\ import # "done" \/ tidy \/ (\E d \in Drainer : drain[d] = "loading")
           => \A c \in Starter : call[c].pc \in {"idle", "loading"}
    /\ import # "done" => Fresh

Outdating ==
    \A c \in Starter : (stopped /\ call[c].pc # "idle") \/ call[c].pc = "cleanup"
                           => call[c].stale

Joins ==
    \A c \in Starter : call[c].pc = "joining" =>
        /\ call[c].ended = "no" => call[c].of # None /\ call[c].of = loaded.owner
        /\ call[c].ended = "no" /\ call[c].same /\ ~call[c].stale => ~call[call[c].of].stale
        /\ call[c].ended = "ok" /\ call[c].same /\ ~call[c].stale => loaded.phase = "started"

Halting ==
    /\ svc.stopped => ~svc.timer /\ ~svc.started
    /\ stopped => svc.stopped \/ Fresh

Handing ==
    /\ handed => stopped
    /\ handoff => handed /\ svc.stopped

TypeInv ==
    /\ import \in {"none", "pending", "done", "failed"}
    /\ stopped \in BOOLEAN /\ paused \in BOOLEAN /\ owed \in BOOLEAN
    /\ handed \in BOOLEAN /\ handoff \in BOOLEAN /\ tidy \in BOOLEAN
    /\ loaded \in Loaded
    /\ svc \in Service
    /\ call \in [Starter -> Call]
    /\ drain \in [Drainer -> {"idle", "loading", "draining"}]
    /\ tick \in Tick

IInv == /\ TypeInv /\ Owning /\ Counted /\ Early /\ Outdating /\ Joins
        /\ Halting /\ Handing

-----------------------------------------------------------------------------
(* What the operators of the model return.                                 *)

\* A stop of the service.
LEMMA SvcStopFacts ==
    ASSUME NEW s \in Service
    PROVE  /\ SvcStop(s) \in Service /\ SvcStop(s).starts = s.starts
           /\ SvcStop(s).stopped /\ ~SvcStop(s).timer /\ ~SvcStop(s).started
  BY DEF Service, SvcStop

\* A pause of the service.
LEMMA SvcPauseFacts ==
    ASSUME NEW s \in Service
    PROVE  /\ SvcPause(s) \in Service /\ SvcPause(s).starts = s.starts
           /\ SvcPause(s).stopped = s.stopped /\ SvcPause(s).started = s.started
           /\ ~SvcPause(s).timer
  BY DEF Service, SvcPause

\* A resume of the service arms a timer only of a scheduler that has started.
LEMMA SvcResumeFacts ==
    ASSUME NEW s \in Service
    PROVE  /\ SvcResume(s) \in Service /\ SvcResume(s).starts = s.starts
           /\ SvcResume(s).stopped = s.stopped /\ SvcResume(s).started = s.started
           /\ SvcResume(s).timer => s.timer \/ (s.started /\ ~s.stopped)
<1>1. /\ SvcResume(s) \in Service /\ SvcResume(s).starts = s.starts
      /\ SvcResume(s).stopped = s.stopped /\ SvcResume(s).started = s.started
  BY DEF Service, SvcResume
<1>2. SvcResume(s).timer => s.timer \/ (s.started /\ ~s.stopped)
  BY DEF Service, SvcResume
<1>q. QED BY <1>1, <1>2

\* The first part of a start of the service.
LEMMA SvcBeginFacts ==
    ASSUME NEW s \in Service
    PROVE  /\ SvcBegin(s) \in Service /\ SvcBegin(s).starts = s.starts + 1
           /\ ~SvcBegin(s).stopped
  BY DEF Service, SvcBegin

\* armTimer arms nothing in a service that was stopped.
LEMMA SvcArmFacts ==
    ASSUME NEW s \in Service
    PROVE  /\ SvcArm(s) \in Service /\ SvcArm(s).starts = s.starts
           /\ SvcArm(s).stopped = s.stopped /\ SvcArm(s).started = s.started
           /\ SvcArm(s).timer => ~s.stopped
<1>1. SvcArm(s) \in Service
  BY DEF Service, SvcArm
<1>2. /\ SvcArm(s).starts = s.starts
      /\ SvcArm(s).stopped = s.stopped /\ SvcArm(s).started = s.started
      /\ SvcArm(s).timer => ~s.stopped
  BY DEF Service, SvcArm
<1>q. QED BY <1>1, <1>2

\* A start of the service that throws.
LEMMA SvcThrowFacts ==
    ASSUME NEW s \in Service, s.starts = 1
    PROVE  /\ SvcThrow(s) \in Service /\ SvcThrow(s).starts = 0
           /\ SvcThrow(s).stopped = s.stopped /\ SvcThrow(s).started = s.started
           /\ SvcThrow(s).timer = s.timer
  BY DEF Service, SvcThrow

\* A start of the service that returns leaves a stopped service quiet.
LEMMA SvcReturnFacts ==
    ASSUME NEW s \in Service, s.starts = 1, s.stopped => ~s.timer /\ ~s.started
    PROVE  /\ SvcReturn(s) \in Service /\ SvcReturn(s).starts = 0
           /\ s.stopped => SvcReturn(s).stopped
           /\ SvcReturn(s).stopped => ~SvcReturn(s).timer /\ ~SvcReturn(s).started
<1>1. SvcReturn(s) \in Service
  <2>1. SvcThrow(s) \in Service
    BY SvcThrowFacts
  <2>2. CASE s.superseded
    BY <2>1, <2>2, SvcStopFacts DEF SvcReturn, SvcThrow
  <2>3. CASE ~s.superseded
    <3>1. SvcReturn(s) = [SvcThrow(s) EXCEPT !.started = ~SvcThrow(s).stopped]
      BY <2>3 DEF SvcReturn, SvcThrow
    <3>q. QED BY <3>1, <2>1 DEF Service
  <2>q. QED BY <2>2, <2>3
<1>2. /\ SvcReturn(s).starts = 0
      /\ s.stopped => SvcReturn(s).stopped
      /\ SvcReturn(s).stopped => ~SvcReturn(s).timer /\ ~SvcReturn(s).started
  BY DEF Service, SvcReturn, SvcStop
<1>q. QED BY <1>1, <1>2

\* A stop outdates every call that is under way, and changes nothing else of it
\* that later steps look at.
LEMMA OutdatedFacts ==
    ASSUME NEW f \in [Starter -> Call]
    PROVE  /\ Outdated(f) \in [Starter -> Call]
           /\ \A c \in Starter :
                /\ Outdated(f)[c].pc = f[c].pc /\ Outdated(f)[c].of = f[c].of
                /\ Outdated(f)[c].same = f[c].same /\ Outdated(f)[c].ended = f[c].ended
                /\ f[c].pc # "idle" => Outdated(f)[c].stale
<1>1. ASSUME NEW c \in Starter PROVE Outdated(f)[c] \in Call
  <2>1. CASE f[c].pc = "waiting"
    <3>1. Outdated(f)[c] = [f[c] EXCEPT !.stale = TRUE, !.released = TRUE]
      BY <2>1 DEF Outdated
    <3>q. QED BY <3>1 DEF Call
  <2>2. CASE f[c].pc # "waiting" /\ f[c].pc # "idle"
    <3>1. Outdated(f)[c] = [f[c] EXCEPT !.stale = TRUE, !.released = FALSE]
      BY <2>2 DEF Outdated
    <3>q. QED BY <3>1 DEF Call
  <2>3. CASE f[c].pc = "idle"
    BY <2>3 DEF Outdated
  <2>q. QED BY <2>1, <2>2, <2>3
<1>2. \A c \in Starter :
          /\ Outdated(f)[c].pc = f[c].pc /\ Outdated(f)[c].of = f[c].of
          /\ Outdated(f)[c].same = f[c].same /\ Outdated(f)[c].ended = f[c].ended
          /\ f[c].pc # "idle" => Outdated(f)[c].stale
  BY DEF Call, Outdated
<1>q. QED BY <1>1, <1>2 DEF Outdated

\* A resume only releases calls.
LEMMA ReleasedFacts ==
    ASSUME NEW f \in [Starter -> Call]
    PROVE  /\ Released(f) \in [Starter -> Call]
           /\ \A c \in Starter :
                /\ Released(f)[c].pc = f[c].pc /\ Released(f)[c].of = f[c].of
                /\ Released(f)[c].same = f[c].same /\ Released(f)[c].ended = f[c].ended
                /\ Released(f)[c].stale = f[c].stale
  BY DEF Call, Promised, Released

\* A call that has returned.
LEMMA IdleFacts == IdleCall \in Call /\ IdleCall.pc = "idle" /\ ~IdleCall.stale
  BY DEF IdleCall, Call, Promised

\* The end of startPromise reaches the calls that joined it, and no other.
LEMMA FinishedFacts ==
    ASSUME call \in [Starter -> Call], NEW c \in Starter, NEW result \in {"ok", "error"}
    PROVE  /\ Finished(c, result) \in [Starter -> Call]
           /\ Finished(c, result)[c].pc = "idle"
           /\ \A d \in Starter \ {c} :
                /\ Finished(c, result)[d].pc = call[d].pc
                /\ Finished(c, result)[d].of = call[d].of
                /\ Finished(c, result)[d].same = call[d].same
                /\ Finished(c, result)[d].stale = call[d].stale
                /\ Finished(c, result)[d].ended =
                      IF call[d].pc = "joining" /\ call[d].of = c /\ call[d].ended = "no"
                      THEN result ELSE call[d].ended
  BY IdleFacts DEF Call, Promised, Finished

\* A proxy that was stopped keeps the start it owns.
LEMMA HaltedFacts ==
    ASSUME NEW l \in Loaded
    PROVE  /\ Halted(l) \in Loaded /\ Halted(l).owner = l.owner
           /\ Halted(l).phase = "stopped"
  BY DEF Loaded, Phase, Halted

\* A start that settles is no longer the owner.
LEMMA DisownedFacts ==
    ASSUME NEW l \in Loaded, NEW c \in Starter
    PROVE  /\ Disowned(l, c) \in Loaded /\ Disowned(l, c).phase = l.phase
           /\ Disowned(l, c).owner = IF l.owner = c THEN None ELSE l.owner
  BY DEF Loaded, Disowned

\* Retiring a tick neither makes nor ends one.
LEMMA TickFacts ==
    ASSUME NEW t \in Tick
    PROVE  /\ Retired(t) \in Tick
           /\ Retired(t).waiting = t.waiting /\ Retired(t).running = t.running
           /\ Retired(t).refused = t.refused
  BY DEF Tick, Retired

\* stopResolvedCronOnce leaves a stopped service, also when a handover has
\* stopped it before.
LEMMA StopOnceFacts ==
    ASSUME NEW l \in Loaded, NEW s \in Service, NEW preserve \in BOOLEAN,
           handoff \in BOOLEAN, handoff => s.stopped,
           s.stopped => ~s.timer /\ ~s.started,
           tick \in Tick,
           StopOnce(preserve, l, s)
    PROVE  /\ svc' \in Service /\ svc'.starts = s.starts
           /\ svc'.stopped /\ ~svc'.timer /\ ~svc'.started
           /\ loaded' \in Loaded /\ loaded'.owner = l.owner
           /\ loaded'.phase \in {l.phase, "stopped"}
           /\ tick' \in Tick
           /\ tick'.waiting = tick.waiting /\ tick'.running = tick.running
           /\ handoff' \in BOOLEAN /\ (handoff' => handoff \/ preserve)
<1>1. CASE preserve /\ handoff
  BY <1>1 DEF StopOnce
<1>2. CASE ~(preserve /\ handoff)
  BY <1>2, HaltedFacts, SvcStopFacts, TickFacts DEF StopOnce
<1>q. QED BY <1>1, <1>2

-----------------------------------------------------------------------------
(* Three kinds of step of a call: it returns, it goes on as the owner of   *)
(* startPromise, or startPromise settles.                                  *)

Calls == Owning /\ Outdating /\ Joins

\* What the kinds of step have in common.
LEMMA CallUnchanged ==
    ASSUME IInv, UNCHANGED call, stopped' => stopped, loaded'.owner = loaded.owner,
           loaded'.phase = loaded.phase
    PROVE  Calls'
  BY DEF IInv, TypeInv, Calls, Owning, Outdating, Joins

\* A call that owns nothing returns.
LEMMA ReturnKeeps ==
    ASSUME IInv, NEW c \in Starter, call[c].pc \notin Promised, Return(c), UNCHANGED stopped
    PROVE  /\ call' \in [Starter -> Call] /\ Calls'
           /\ \A d \in Starter : call'[d].pc \in {call[d].pc, "idle"}
           /\ \A d \in Starter : call'[d].pc \in InService <=> call[d].pc \in InService
<1>1. /\ call' \in [Starter -> Call] /\ call'[c].pc = "idle"
      /\ \A d \in Starter \ {c} : call'[d] = call[d]
  BY IdleFacts DEF IInv, TypeInv, Return
<1>2. Owning'
  BY <1>1, CronAssumption DEF IInv, TypeInv, Owning, Return, Promised, Loaded
<1>3. Outdating'
  BY <1>1 DEF IInv, Outdating
<1>4. Joins'
  <2>1. \A d \in Starter : loaded.owner = d => d # c
    BY DEF IInv, Owning
  <2>q. QED BY <1>1, <2>1 DEF IInv, TypeInv, Joins, Return, Loaded
<1>q. QED BY <1>1, <1>2, <1>3, <1>4 DEF Calls, Promised, InService

\* The owner of startPromise goes on.
LEMMA OwnerKeeps ==
    ASSUME IInv, NEW c \in Starter, call[c].pc \in Promised,
           call' \in [Starter -> Call], \A d \in Starter \ {c} : call'[d] = call[d],
           call'[c].pc \in Promised, call'[c].stale = call[c].stale,
           call'[c].pc = "cleanup" => call[c].stale,
           loaded' \in Loaded, loaded'.owner = loaded.owner,
           loaded'.phase \in {loaded.phase, "stopped"}, UNCHANGED stopped
    PROVE  Calls'
<1>1. loaded.owner = c /\ loaded.phase \in {"starting", "stopped"}
  BY CronAssumption DEF IInv, Owning
<1>2. Owning'
  BY <1>1 DEF IInv, Owning
<1>3. Outdating'
  BY DEF IInv, Outdating, Promised
<1>4. Joins'
  BY <1>1 DEF IInv, TypeInv, Joins, Promised
<1>q. QED BY <1>2, <1>3, <1>4 DEF Calls

\* startPromise settles: a start of the current generation that ended well has
\* started the scheduler.
LEMMA FinishKeeps ==
    ASSUME IInv, NEW c \in Starter, call[c].pc \in Promised,
           NEW result \in {"ok", "error"}, call' = Finished(c, result),
           loaded' \in Loaded, loaded'.owner = None,
           result = "ok" => loaded'.phase = "started" \/ call[c].stale, UNCHANGED stopped
    PROVE  /\ call' \in [Starter -> Call] /\ Calls'
           /\ \A d \in Starter : call'[d].pc \in {call[d].pc, "idle"}
           /\ \A d \in Starter : call'[d].pc \notin InService
<1>1. loaded.owner = c /\ loaded.phase \in {"starting", "stopped"}
  BY CronAssumption DEF IInv, Owning
<1>2. call \in [Starter -> Call]
  BY DEF IInv, TypeInv
<1>3. /\ call' \in [Starter -> Call]
      /\ call'[c].pc = "idle"
      /\ \A d \in Starter \ {c} :
           /\ call'[d].pc = call[d].pc /\ call'[d].of = call[d].of
           /\ call'[d].same = call[d].same /\ call'[d].stale = call[d].stale
           /\ call'[d].ended = IF /\ call[d].pc = "joining" /\ call[d].of = c
                                  /\ call[d].ended = "no"
                               THEN result ELSE call[d].ended
  BY <1>2, FinishedFacts
<1>4. \A d \in Starter : call'[d].pc \notin Promised
  BY <1>1, <1>3 DEF IInv, Owning, Promised
<1>5. Owning'
  BY <1>4, CronAssumption DEF Owning
<1>6. Outdating'
  BY <1>3 DEF IInv, Outdating
<1>7. ASSUME NEW d \in Starter, call'[d].pc = "joining"
      PROVE  /\ call'[d].ended # "no"
             /\ call'[d].ended = "ok" /\ call'[d].same /\ ~call'[d].stale
                    => loaded'.phase = "started"
  <2>1. d # c /\ call[d].pc = "joining"
    BY <1>3, <1>7
  <2>2. CASE call[d].ended = "no"
    BY <2>1, <2>2, <1>1, <1>3 DEF IInv, Joins
  <2>3. CASE call[d].ended # "no"
    BY <2>1, <2>3, <1>1, <1>3 DEF IInv, Joins
  <2>q. QED BY <2>2, <2>3
<1>8. Joins'
  BY <1>7 DEF Joins
<1>q. QED BY <1>3, <1>4, <1>5, <1>6, <1>8 DEF Calls, Promised, InService

\* A call becomes the owner of a startPromise that nobody runs.
LEMMA OwnKeeps ==
    ASSUME IInv, NEW c \in Starter, call[c].pc \notin Promised, loaded.owner = None,
           loaded.phase # "started", ~startCancelled(c), Own(c), UNCHANGED stopped
    PROVE  /\ call' \in [Starter -> Call] /\ loaded' \in Loaded /\ Calls'
           /\ \A d \in Starter : call'[d].pc \in InService <=> call[d].pc \in InService
<1>1. /\ call' \in [Starter -> Call]
      /\ call'[c].pc = "waiting" /\ call'[c].stale = call[c].stale
      /\ \A d \in Starter \ {c} : call'[d] = call[d]
  <2>0. call \in [Starter -> Call]
    BY DEF IInv, TypeInv
  <2>1. PICK b \in BOOLEAN :
            call' = [call EXCEPT ![c] = [call[c] EXCEPT !.pc = "waiting", !.released = b]]
    <3>1. CASE paused
      BY <2>0, <3>1 DEF Own
    <3>2. CASE ~paused
      BY <2>0, <3>2 DEF Own
    <3>q. QED BY <3>1, <3>2
  <2> DEFINE w == [call[c] EXCEPT !.pc = "waiting", !.released = b]
  <2>2. w \in Call /\ w.pc = "waiting" /\ w.stale = call[c].stale
    BY <2>0 DEF Call, Promised
  <2>3. call' = [call EXCEPT ![c] = w]
    BY <2>1
  <2> HIDE DEF w
  <2>q. QED BY <2>0, <2>2, <2>3
<1>2. loaded' \in Loaded /\ loaded'.owner = c /\ loaded'.phase = "starting"
  BY DEF IInv, TypeInv, Own, Loaded, Phase
<1>3. Owning'
  BY <1>1, <1>2, CronAssumption DEF IInv, Owning, Promised
<1>4. Outdating'
  BY <1>1 DEF IInv, Outdating, startCancelled
<1>5. Joins'
  BY <1>1, <1>2 DEF IInv, Joins
<1>q. QED BY <1>1, <1>2, <1>3, <1>4, <1>5 DEF Calls, Promised, InService

\* A call joins the start that is under way.
LEMMA JoinKeeps ==
    ASSUME IInv, NEW c \in Starter, call[c].pc \notin Promised, loaded.owner # None,
           ~startCancelled(c), Join(c), UNCHANGED stopped
    PROVE  /\ call' \in [Starter -> Call] /\ Calls'
           /\ \A d \in Starter : call'[d].pc \in InService <=> call[d].pc \in InService
<1>1. loaded.owner \in Starter /\ loaded.owner # c
  BY DEF IInv, TypeInv, Owning, Loaded
<1>2. /\ call' \in [Starter -> Call]
      /\ call'[c].pc = "joining" /\ call'[c].stale = call[c].stale
      /\ call'[c].of = loaded.owner /\ call'[c].ended = "no"
      /\ call'[c].same => ~call[loaded.owner].stale
      /\ \A d \in Starter \ {c} : call'[d] = call[d]
  <2>0. call \in [Starter -> Call]
    BY DEF IInv, TypeInv
  <2>1. CASE call[loaded.owner].stale
    <3>1. call' = [call EXCEPT ![c] = [@ EXCEPT !.pc = "joining", !.of = loaded.owner,
                                                !.same = FALSE, !.ended = "no"]]
      BY <2>1 DEF Join
    <3>q. QED BY <2>0, <3>1, <1>1 DEF Call
  <2>2. CASE ~call[loaded.owner].stale
    <3>1. call' = [call EXCEPT ![c] = [@ EXCEPT !.pc = "joining", !.of = loaded.owner,
                                                !.same = TRUE, !.ended = "no"]]
      BY <2>2 DEF Join
    <3>q. QED BY <2>0, <3>1, <2>2, <1>1 DEF Call
  <2>q. QED BY <2>1, <2>2
<1>3. Owning'
  BY <1>1, <1>2 DEF IInv, Owning, Join, Promised
<1>4. Outdating'
  BY <1>2 DEF IInv, Outdating, startCancelled
<1>5. Joins'
  BY <1>1, <1>2 DEF IInv, Joins, Join
<1>q. QED BY <1>2, <1>3, <1>4, <1>5 DEF Calls, Promised, InService

-----------------------------------------------------------------------------
(* Every action preserves the invariant.                                   *)

\* The timer fires, and a tick is admitted or refused, and ends.
LEMMA StepTick ==
    ASSUME IInv, TickFires \/ TickAdmitted \/ TickRefused \/ TickEnds PROVE IInv'
<1>1. /\ UNCHANGED <<import, stopped, paused, owed, handed, handoff, tidy, loaded, call, drain>>
      /\ svc' \in Service /\ svc'.starts = svc.starts
      /\ svc'.stopped = svc.stopped /\ svc'.started = svc.started
      /\ svc'.stopped => ~svc'.timer
      /\ tick' \in Tick
      /\ Fresh => Fresh'
  <2>0. /\ svc \in Service
        /\ svc.stopped => ~svc.timer
        /\ tick \in Tick
    BY DEF IInv, TypeInv, Halting
  <2>1. CASE TickFires
    BY <2>0, <2>1 DEF TickFires, proxy, Fresh, Service, Tick
  <2>2. CASE TickAdmitted
    <3>1. CASE ~tick.retired /\ ~svc.stopped /\ ~svc.paused
      <4>1. /\ svc' = SvcArm(svc)
            /\ tick' = [tick EXCEPT !.waiting = FALSE, !.retired = FALSE, !.running = TRUE]
        BY <2>2, <3>1 DEF TickAdmitted
      <4>2. tick' \in Tick /\ ~Fresh
        BY <2>0, <2>2, <4>1 DEF TickAdmitted, Tick, Fresh
      <4>3. /\ svc' \in Service /\ svc'.starts = svc.starts
            /\ svc'.stopped = svc.stopped /\ svc'.started = svc.started
            /\ svc'.stopped => ~svc'.timer
        BY <2>0, <4>1, SvcArmFacts
      <4>q. QED BY <2>2, <4>2, <4>3 DEF TickAdmitted, proxy
    <3>2. CASE ~(~tick.retired /\ ~svc.stopped /\ ~svc.paused)
      <4>1. /\ svc' = svc
            /\ tick' = [tick EXCEPT !.waiting = FALSE, !.retired = FALSE, !.running = FALSE]
        BY <2>2, <3>2 DEF TickAdmitted
      <4>q. QED BY <2>0, <2>2, <4>1 DEF TickAdmitted, proxy, Fresh, Tick
    <3>q. QED BY <3>1, <3>2
  <2>3. CASE TickEnds
    BY <2>0, <2>3, SvcArmFacts DEF TickEnds, proxy, Fresh, Tick
  <2>4. CASE TickRefused
    BY <2>0, <2>4 DEF TickRefused, proxy, Fresh, Tick
  <2>q. QED BY <2>1, <2>2, <2>3, <2>4
<1>2. TypeInv'
  BY <1>1 DEF IInv, TypeInv
<1>3. Calls'
  BY <1>1, CallUnchanged
<1>4. Counted' /\ Early' /\ Halting' /\ Handing'
  BY <1>1 DEF IInv, Counted, Early, Halting, Handing, Fresh
<1>q. QED BY <1>2, <1>3, <1>4 DEF IInv, Calls

\* A call of start.
LEMMA StepStart ==
    ASSUME IInv, NEW c \in Starter, Start(c) PROVE IInv'
<1>1. /\ call' \in [Starter -> Call] /\ call'[c].pc = "loading" /\ call[c].pc = "idle"
      /\ \A d \in Starter \ {c} : call'[d] = call[d]
  BY DEF IInv, TypeInv, Start, IdleCall, Call, Promised
<1>2. /\ stopped' = FALSE /\ ~handed /\ import' \in {"none", "pending", "done", "failed"}
      /\ import' # "done" => import # "done"
      /\ UNCHANGED <<paused, owed, handed, handoff, tidy, loaded, svc, drain, tick>>
  BY DEF IInv, TypeInv, Start
<1>3. TypeInv'
  BY <1>1, <1>2 DEF IInv, TypeInv
<1>4. Owning' /\ Counted'
  BY <1>1, <1>2 DEF IInv, Owning, Counted, Promised, InService
<1>5. Early' /\ Halting' /\ Handing'
  BY <1>1, <1>2 DEF IInv, Early, Halting, Handing, Fresh
<1>6. Outdating'
  BY <1>1, <1>2 DEF IInv, Outdating
<1>7. Joins'
  <2>1. \A d \in Starter : loaded.owner = d => d # c
    BY <1>1 DEF IInv, Owning, Promised
  <2>q. QED BY <1>1, <1>2, <2>1 DEF IInv, TypeInv, Joins, Loaded
<1>q. QED BY <1>3, <1>4, <1>5, <1>6, <1>7 DEF IInv

\* The import begins, and settles.
LEMMA StepImport ==
    ASSUME IInv, Use \/ \E ok \in BOOLEAN : Import(ok) PROVE IInv'
<1>1. /\ UNCHANGED <<stopped, paused, owed, handed, handoff, tidy, call, drain, tick>>
      /\ import' \in {"none", "pending", "done", "failed"}
      /\ import' # "done" => import # "done"
      /\ import # "done"
      /\ loaded' \in Loaded /\ loaded'.owner = loaded.owner /\ loaded'.phase = loaded.phase
      /\ svc' \in Service /\ svc'.starts = svc.starts
      /\ svc'.stopped = svc.stopped /\ svc'.started = svc.started
      /\ svc'.timer => svc.timer
  <2>1. CASE Use
    BY <2>1 DEF IInv, TypeInv, Use, proxy
  <2>2. CASE \E ok \in BOOLEAN : Import(ok)
    <3>0. PICK ok \in BOOLEAN : Import(ok)
      BY <2>2
    <3>1. loaded' \in Loaded /\ loaded'.owner = loaded.owner /\ loaded'.phase = loaded.phase
      <4>1. CASE ok /\ paused
        <5>1. loaded' = [loaded EXCEPT !.held = TRUE]
          BY <3>0, <4>1 DEF Import
        <5>q. QED BY <5>1 DEF IInv, TypeInv, Loaded
      <4>2. CASE ~(ok /\ paused)
        <5>1. loaded' = [loaded EXCEPT !.held = FALSE]
          BY <3>0, <4>2 DEF Import
        <5>q. QED BY <5>1 DEF IInv, TypeInv, Loaded
      <4>q. QED BY <4>1, <4>2
    <3>2. /\ svc' \in Service /\ svc'.starts = svc.starts
          /\ svc'.stopped = svc.stopped /\ svc'.started = svc.started
          /\ svc'.timer => svc.timer
      BY <3>0, SvcPauseFacts DEF IInv, TypeInv, Import
    <3>q. QED BY <3>0, <3>1, <3>2 DEF Import, proxy
  <2>q. QED BY <2>1, <2>2
<1>2. TypeInv'
  BY <1>1 DEF IInv, TypeInv
<1>3. Calls'
  BY <1>1, CallUnchanged
<1>4. Counted' /\ Early' /\ Halting' /\ Handing'
  BY <1>1 DEF IInv, Counted, Early, Halting, Handing, Fresh
<1>q. QED BY <1>2, <1>3, <1>4 DEF IInv, Calls

\* A call goes on when the import has settled, or the start that it joined.
LEMMA StepWaited ==
    ASSUME IInv, NEW c \in Starter, StartLoaded(c) \/ Joined(c) PROVE IInv'
<1>1. /\ UNCHANGED <<import, stopped, paused, owed, handed, handoff, tidy, svc, drain, tick>>
      /\ call[c].pc \notin Promised /\ call[c].pc # "idle"
  BY DEF StartLoaded, Joined, proxy, Promised
<1>2. /\ call' \in [Starter -> Call] /\ loaded' \in Loaded /\ Calls'
      /\ \A d \in Starter : call'[d].pc \in InService <=> call[d].pc \in InService
      /\ \/ import = "done" /\ ~tidy /\ \A d \in Drainer : drain[d] # "loading"
         \/ \A d \in Starter : call'[d].pc \in {call[d].pc, "idle"}
  <2>1. CASE Return(c)
    BY <1>1, <2>1, ReturnKeeps DEF IInv, TypeInv, Return
  <2>2. CASE StartLoaded(c) /\ ~Return(c)
    <3>1. /\ import = "done" /\ ~tidy /\ \A d \in Drainer : drain[d] # "loading"
          /\ ~startCancelled(c) /\ loaded.phase # "started"
          /\ IF loaded.owner # None THEN Join(c) ELSE Own(c)
      BY <2>2 DEF StartLoaded, Imported
    <3>2. CASE loaded.owner # None
      BY <1>1, <3>1, <3>2, JoinKeeps DEF IInv, TypeInv, Join
    <3>3. CASE loaded.owner = None
      BY <1>1, <3>1, <3>3, OwnKeeps
    <3>q. QED BY <3>2, <3>3
  <2>3. CASE Joined(c) /\ ~Return(c)
    <3>1. /\ call[c].pc = "joining" /\ call[c].ended # "no"
          /\ ~(call[c].ended = "error" /\ call[c].same)
          /\ ~startCancelled(c) /\ loaded.phase # "started"
      BY <2>3 DEF Joined
    <3>2. call[c].ended \in {"ok", "error"} /\ call[c].same \in BOOLEAN /\ ~call[c].stale
      BY <3>1 DEF IInv, TypeInv, Call, startCancelled
    <3>3. ~call[c].same
      BY <3>1, <3>2 DEF IInv, Joins
    <3>4. /\ UNCHANGED loaded
          /\ call' = [call EXCEPT ![c] = [IdleCall EXCEPT !.pc = "loading"]]
      BY <2>3, <3>1, <3>3 DEF Joined
    <3>5. /\ call' \in [Starter -> Call] /\ call'[c].pc = "loading" /\ call[c].pc = "joining"
          /\ \A d \in Starter \ {c} : call'[d] = call[d]
      BY <3>1, <3>4 DEF IInv, TypeInv, IdleCall, Call, Promised
    <3>6. Owning'
      BY <3>4, <3>5 DEF IInv, Owning, Promised
    <3>7. Outdating'
      BY <1>1, <3>1, <3>5 DEF IInv, Outdating, startCancelled
    <3>8. Joins'
      <4>1. \A d \in Starter : loaded.owner = d => d # c
        BY <3>5 DEF IInv, Owning, Promised
      <4>q. QED BY <3>4, <3>5, <4>1 DEF IInv, TypeInv, Joins, Loaded
    <3>9. import = "done" /\ ~tidy /\ \A d \in Drainer : drain[d] # "loading"
      BY <3>5 DEF IInv, TypeInv, Early
    <3>q. QED BY <3>4, <3>5, <3>6, <3>7, <3>8, <3>9 DEF IInv, TypeInv, Calls, InService
  <2>q. QED BY <2>1, <2>2, <2>3
<1>3. TypeInv'
  BY <1>1, <1>2 DEF IInv, TypeInv
<1>4. Counted' /\ Early' /\ Halting' /\ Handing'
  BY <1>1, <1>2 DEF IInv, Counted, Early, Halting, Handing, Fresh
<1>q. QED BY <1>2, <1>3, <1>4 DEF IInv, Calls

\* waitForSchedulingResume is over.
LEMMA StepProceed ==
    ASSUME IInv, NEW c \in Starter, Proceed(c) PROVE IInv'
<1>1. /\ UNCHANGED <<import, stopped, paused, owed, handed, handoff, tidy, drain, tick>>
      /\ call[c].pc = "waiting" /\ loaded.owner = c /\ loaded \in Loaded
      /\ call \in [Starter -> Call] /\ svc \in Service
      /\ import = "done" /\ ~tidy /\ \A d \in Drainer : drain[d] # "loading"
      /\ \A d \in Starter : call[d].pc \notin InService
  BY DEF IInv, TypeInv, Proceed, proxy, Owning, Early, Promised, InService
<1>2. CASE startCancelled(c)
  <2>1. /\ loaded' \in Loaded /\ loaded'.owner = None /\ loaded'.phase = "stopped"
        /\ call' = Finished(c, "ok") /\ UNCHANGED svc
    BY <1>1, <1>2, DisownedFacts DEF Proceed, Loaded, Phase
  <2>2. call[c].stale
    BY <1>1, <1>2 DEF IInv, Outdating, startCancelled
  <2>3. /\ call' \in [Starter -> Call] /\ Calls'
        /\ \A d \in Starter : call'[d].pc \in {call[d].pc, "idle"}
        /\ \A d \in Starter : call'[d].pc \notin InService
    BY <1>1, <2>1, <2>2, FinishKeeps DEF Promised
  <2>4. TypeInv'
    BY <1>1, <2>1, <2>3 DEF IInv, TypeInv
  <2>5. Counted' /\ Early' /\ Halting' /\ Handing'
    BY <1>1, <2>1, <2>3 DEF IInv, Counted, Early, Halting, Handing, Fresh
  <2>q. QED BY <2>3, <2>4, <2>5 DEF IInv, Calls
<1>3. CASE ~startCancelled(c)
  <2>1. /\ loaded' \in Loaded /\ loaded'.owner = c /\ loaded'.phase = loaded.phase
    BY <1>1, <1>3 DEF Proceed, Loaded
  <2>2. /\ call' \in [Starter -> Call] /\ call'[c].pc = "repair"
        /\ call'[c].stale = call[c].stale
        /\ \A d \in Starter \ {c} : call'[d] = call[d]
    <3>1. call' = [call EXCEPT ![c] = [@ EXCEPT !.pc = "repair", !.released = FALSE]]
      BY <1>3 DEF Proceed
    <3>2. call \in [Starter -> Call]
      BY <1>1
    <3>q. QED BY <3>1, <3>2 DEF Call, Promised
  <2>3. PICK s \in Service : s.starts = svc.starts /\ svc' = SvcBegin(s)
    BY <1>1, <1>3, SvcResumeFacts DEF Proceed
  <2>4. svc' \in Service /\ svc'.starts = svc.starts + 1 /\ ~svc'.stopped
    BY <2>3, SvcBeginFacts
  <2>5. ~stopped /\ ~handed /\ ~handoff
    BY <1>3 DEF IInv, TypeInv, Handing, startCancelled
  <2>6. Calls'
    BY <1>1, <2>1, <2>2, OwnerKeeps DEF Promised
  <2>7. TypeInv'
    BY <1>1, <2>1, <2>2, <2>4 DEF IInv, TypeInv
  <2>8. Counted'
    BY <1>1, <2>2, <2>4 DEF IInv, Counted, InService
  <2>9. Early' /\ Halting' /\ Handing'
    BY <1>1, <2>4, <2>5 DEF Early, Halting, Handing
  <2>q. QED BY <2>6, <2>7, <2>8, <2>9 DEF IInv, Calls
<1>q. QED BY <1>2, <1>3

\* The start that the proxy awaits has returned.
LEMMA ReturnedKeeps ==
    ASSUME IInv, NEW c \in Starter, call[c].pc \in Promised,
           NEW r \in Service, r.starts = 0, svc.stopped => r.stopped,
           r.stopped => ~r.timer /\ ~r.started, Returned(c, r),
           UNCHANGED <<import, stopped, paused, owed, handed, tidy, drain>>
    PROVE  IInv'
<1> DEFINE l == [loaded EXCEPT !.inFlight = FALSE, !.up = TRUE]
<1>1. /\ loaded.owner = c /\ loaded \in Loaded /\ call \in [Starter -> Call]
      /\ handed \in BOOLEAN /\ handoff \in BOOLEAN /\ tick \in Tick
      /\ import = "done" /\ ~tidy /\ \A d \in Drainer : drain[d] # "loading"
  BY DEF IInv, TypeInv, Owning, Early, Promised
<1>2. \A d \in Starter \ {c} : call[d].pc \notin InService
  BY <1>1 DEF IInv, Owning, Promised, InService
<1>3. l \in Loaded /\ l.owner = c /\ l.phase = loaded.phase
  BY <1>1 DEF Loaded
<1> HIDE DEF l
<1>5. /\ loaded' \in Loaded /\ loaded'.owner = c
      /\ loaded'.phase \in {loaded.phase, "stopped"}
      /\ svc' \in Service /\ svc'.starts = 0
      /\ svc'.stopped => ~svc'.timer /\ ~svc'.started
      /\ stopped => svc'.stopped
      /\ tick' \in Tick
      /\ handoff' \in BOOLEAN
      /\ handoff' => handed /\ svc'.stopped
      /\ call' \in [Starter -> Call]
      /\ call'[c].pc \in {"cleanup", "reconcile"} /\ call'[c].stale = call[c].stale
      /\ call'[c].pc = "cleanup" => call[c].stale
      /\ \A d \in Starter \ {c} : call'[d] = call[d]
  <2>1. CASE startCancelled(c)
    <3>1. /\ StopOnce(handed, l, r)
          /\ call' = [call EXCEPT ![c] = [@ EXCEPT !.pc = "cleanup"]]
      BY <2>1 DEF Returned, l
    <3>2. handoff => handed /\ r.stopped
      BY DEF IInv, Handing
    <3>3. /\ svc' \in Service /\ svc'.starts = 0
          /\ svc'.stopped /\ ~svc'.timer /\ ~svc'.started
          /\ loaded' \in Loaded /\ loaded'.owner = c
          /\ loaded'.phase \in {loaded.phase, "stopped"}
          /\ tick' \in Tick
          /\ handoff' \in BOOLEAN /\ (handoff' => handoff \/ handed)
      BY <1>1, <1>3, <3>1, <3>2, StopOnceFacts
    <3>4. /\ call' \in [Starter -> Call] /\ call'[c].pc = "cleanup"
          /\ call'[c].stale = call[c].stale
          /\ \A d \in Starter \ {c} : call'[d] = call[d]
      BY <1>1, <3>1 DEF Call, Promised
    <3>5. call[c].stale
      BY <2>1 DEF IInv, Outdating, startCancelled, Promised
    <3>q. QED BY <3>2, <3>3, <3>4, <3>5
  <2>2. CASE ~startCancelled(c)
    <3>1. /\ loaded' = [l EXCEPT !.held = @ \/ paused]
          /\ svc' = IF paused THEN SvcPause(r) ELSE r
          /\ call' = [call EXCEPT ![c] = [@ EXCEPT !.pc = "reconcile"]]
          /\ UNCHANGED <<handoff, tick>>
      BY <2>2 DEF Returned, l
    <3>2. ~stopped /\ ~handoff
      BY <2>2 DEF IInv, TypeInv, Handing, startCancelled
    <3>3. loaded' \in Loaded /\ loaded'.owner = c /\ loaded'.phase = loaded.phase
      <4>1. CASE l.held \/ paused
        <5>1. loaded' = [l EXCEPT !.held = TRUE]
          BY <3>1, <4>1
        <5>q. QED BY <5>1, <1>3 DEF Loaded
      <4>2. CASE ~(l.held \/ paused)
        <5>1. loaded' = [l EXCEPT !.held = FALSE]
          BY <3>1, <4>2
        <5>q. QED BY <5>1, <1>3 DEF Loaded
      <4>q. QED BY <4>1, <4>2
    <3>4. /\ svc' \in Service /\ svc'.starts = 0
          /\ svc'.stopped => ~svc'.timer /\ ~svc'.started
      BY <3>1, SvcPauseFacts
    <3>5. /\ call' \in [Starter -> Call] /\ call'[c].pc = "reconcile"
          /\ call'[c].stale = call[c].stale
          /\ \A d \in Starter \ {c} : call'[d] = call[d]
      BY <1>1, <3>1 DEF Call, Promised
    <3>q. QED BY <1>1, <3>1, <3>2, <3>3, <3>4, <3>5
  <2>q. QED BY <2>1, <2>2
<1>6. Calls'
  BY <1>1, <1>5, OwnerKeeps DEF Promised
<1>7. TypeInv'
  BY <1>5 DEF IInv, TypeInv
<1>8. Counted'
  BY <1>2, <1>5 DEF Counted, InService
<1>9. Early' /\ Halting' /\ Handing'
  BY <1>1, <1>5 DEF IInv, Early, Halting, Handing
<1>q. QED BY <1>6, <1>7, <1>8, <1>9 DEF IInv, Calls

\* The start that the proxy awaits has thrown.
LEMMA ThrewKeeps ==
    ASSUME IInv, NEW c \in Starter, call[c].pc \in Promised,
           NEW r \in Service, r.starts = 0, r.stopped = svc.stopped,
           r.started = svc.started, r.timer = svc.timer, Threw(c, r),
           UNCHANGED <<import, stopped, paused, owed, handed, tidy, drain>>
    PROVE  IInv'
<1>1. /\ loaded.owner = c /\ loaded \in Loaded
      /\ import = "done" /\ ~tidy /\ \A d \in Drainer : drain[d] # "loading"
  BY DEF IInv, TypeInv, Owning, Early, Promised
<1>2. svc' = r
  BY DEF Threw
<1>3. loaded' \in Loaded /\ loaded'.owner = None
  BY <1>1, DisownedFacts DEF Threw, Loaded, Phase
<1>4. /\ call' \in [Starter -> Call] /\ Calls'
      /\ \A d \in Starter : call'[d].pc \in {call[d].pc, "idle"}
      /\ \A d \in Starter : call'[d].pc \notin InService
  BY <1>3, FinishKeeps DEF Threw
<1>5. TypeInv'
  BY <1>2, <1>3, <1>4 DEF IInv, TypeInv, Threw
<1>6. Counted' /\ Early' /\ Halting' /\ Handing'
  BY <1>1, <1>2, <1>4 DEF IInv, Counted, Early, Halting, Handing, Fresh, Threw
<1>q. QED BY <1>4, <1>5, <1>6 DEF IInv, Calls

\* A start that is under way goes on to its next part.
LEMMA GoesOn ==
    ASSUME IInv, NEW c \in Starter, call[c].pc \in InService,
           NEW pc \in {"catchup", "tail"}, call' = [call EXCEPT ![c] = [@ EXCEPT !.pc = pc]],
           svc' \in Service, svc'.starts = (IF pc = "tail" THEN 0 ELSE 1),
           svc.stopped => svc'.stopped, svc'.stopped => ~svc'.timer /\ ~svc'.started,
           UNCHANGED <<import, stopped, paused, owed, handed, tidy, loaded, drain, handoff, tick>>
    PROVE  IInv'
<1>1. /\ call' \in [Starter -> Call] /\ call'[c].pc = pc
      /\ call'[c].stale = call[c].stale
      /\ \A d \in Starter \ {c} : call'[d] = call[d]
  BY DEF IInv, TypeInv, Call, Promised
<1>2. /\ import = "done" /\ ~tidy /\ \A d \in Drainer : drain[d] # "loading"
      /\ \A d \in Starter \ {c} : call[d].pc \notin InService
  BY DEF IInv, Early, Owning, Promised, InService
<1>3. svc.starts = 1
  BY DEF IInv, Counted
<1>4. Calls'
  BY <1>1, OwnerKeeps DEF IInv, TypeInv, Promised, InService
<1>5. TypeInv'
  BY <1>1 DEF IInv, TypeInv
<1>6. Counted'
  BY <1>1, <1>2 DEF Counted, InService
<1>7. Early' /\ Halting' /\ Handing'
  BY <1>2, <1>3 DEF IInv, Early, Halting, Handing, Fresh
<1>q. QED BY <1>4, <1>5, <1>6, <1>7 DEF IInv, Calls

\* The two locked parts of the service's start.
LEMMA StepService ==
    ASSUME IInv, NEW c \in Starter, NEW ok \in BOOLEAN, Repair(c, ok) \/ CatchUp(c, ok)
    PROVE  IInv'
<1>1. /\ call[c].pc \in InService /\ svc \in Service
      /\ UNCHANGED <<import, stopped, paused, owed, handed, tidy, drain>>
  BY DEF IInv, TypeInv, Repair, CatchUp, InService
<1>2. svc.starts = 1 /\ (svc.stopped => ~svc.timer /\ ~svc.started)
  BY <1>1 DEF IInv, Halting, Counted
<1>3. CASE Threw(c, SvcThrow(svc))
  BY <1>1, <1>2, <1>3, SvcThrowFacts, ThrewKeeps DEF Promised, InService
<1>4. CASE Returned(c, SvcReturn(svc))
  BY <1>1, <1>2, <1>4, SvcReturnFacts, ReturnedKeeps DEF Promised, InService
<1>5. CASE /\ call' = [call EXCEPT ![c] = [@ EXCEPT !.pc = "catchup"]]
           /\ UNCHANGED <<loaded, svc, handoff, tick>>
  BY <1>1, <1>2, <1>5, GoesOn
<1>6. CASE /\ call' = [call EXCEPT ![c] = [@ EXCEPT !.pc = "tail"]]
           /\ svc' = SvcReturn(IF svc.stopped THEN svc ELSE SvcArm(svc))
           /\ UNCHANGED <<loaded, handoff, tick>>
  <2> DEFINE s == IF svc.stopped THEN svc ELSE SvcArm(svc)
  <2>1. /\ s \in Service /\ s.starts = 1 /\ s.stopped = svc.stopped
        /\ s.stopped => ~s.timer /\ ~s.started
    BY <1>1, <1>2, SvcArmFacts
  <2>2. svc' = SvcReturn(s)
    BY <1>6
  <2> HIDE DEF s
  <2>3. /\ svc' \in Service /\ svc'.starts = 0
        /\ svc.stopped => svc'.stopped
        /\ svc'.stopped => ~svc'.timer /\ ~svc'.started
    BY <2>1, <2>2, SvcReturnFacts
  <2>q. QED BY <1>1, <1>6, <2>3, GoesOn
<1>q. QED BY <1>3, <1>4, <1>5, <1>6 DEF Repair, CatchUp

\* The tail of the start, after the service's own.
LEMMA StepTail ==
    ASSUME IInv, NEW c \in Starter, NEW ok \in BOOLEAN, Tail(c, ok) PROVE IInv'
<1>1. /\ call[c].pc = "tail" /\ call[c].pc \in Promised /\ svc \in Service
      /\ UNCHANGED <<import, stopped, paused, owed, handed, tidy, drain>>
  BY DEF IInv, TypeInv, Tail, Promised
<1>2. svc.starts = 0 /\ (svc.stopped => ~svc.timer /\ ~svc.started)
  BY <1>1 DEF IInv, Halting, Counted, Owning, Promised, InService
<1>3. CASE Returned(c, svc)
  BY <1>1, <1>2, <1>3, ReturnedKeeps
<1>4. CASE Threw(c, svc)
  BY <1>1, <1>2, <1>4, ThrewKeeps
<1>q. QED BY <1>3, <1>4 DEF Tail

\* The watchers are reconciled.
LEMMA StepReconciled ==
    ASSUME IInv, NEW c \in Starter, NEW ok \in BOOLEAN, Reconciled(c, ok) PROVE IInv'
<1>1. /\ UNCHANGED <<import, stopped, paused, owed, handed, tidy, drain>>
      /\ call[c].pc = "reconcile" /\ loaded.owner = c /\ loaded \in Loaded
      /\ call \in [Starter -> Call] /\ svc \in Service
      /\ handed \in BOOLEAN /\ handoff \in BOOLEAN
      /\ tick \in Tick
      /\ import = "done" /\ ~tidy /\ \A d \in Drainer : drain[d] # "loading"
      /\ \A d \in Starter : call[d].pc \notin InService
  BY DEF IInv, TypeInv, Reconciled, Owning, Early, Promised, InService
<1>2. CASE ~ok \/ ~startCancelled(c)
  <2>1. /\ loaded' = [Disowned(loaded, c) EXCEPT
                          !.phase = IF startCancelled(c) THEN "stopped" ELSE "started"]
        /\ call' = Finished(c, IF ok THEN "ok" ELSE "error")
        /\ UNCHANGED <<svc, handoff, tick>>
    BY <1>2 DEF Reconciled
  <2>2. /\ loaded' \in Loaded /\ loaded'.owner = None
        /\ ok => loaded'.phase = "started"
    BY <1>1, <1>2, <2>1, DisownedFacts DEF Loaded, Phase
  <2>3. /\ call' \in [Starter -> Call] /\ Calls'
        /\ \A d \in Starter : call'[d].pc \in {call[d].pc, "idle"}
        /\ \A d \in Starter : call'[d].pc \notin InService
    BY <1>1, <2>1, <2>2, FinishKeeps DEF Promised
  <2>4. TypeInv'
    BY <1>1, <2>1, <2>2, <2>3 DEF IInv, TypeInv
  <2>5. Counted' /\ Early' /\ Halting' /\ Handing'
    BY <1>1, <2>1, <2>3 DEF IInv, Counted, Early, Halting, Handing, Fresh
  <2>q. QED BY <2>3, <2>4, <2>5 DEF IInv, Calls
<1>3. CASE ok /\ startCancelled(c)
  <2>1. /\ StopOnce(handed, loaded, svc)
        /\ call' = [call EXCEPT ![c] = [@ EXCEPT !.pc = "cleanup"]]
    BY <1>3 DEF Reconciled
  <2>2. /\ handoff => handed /\ svc.stopped
        /\ svc.stopped => ~svc.timer /\ ~svc.started
    BY DEF IInv, Handing, Halting
  <2>3. /\ svc' \in Service /\ svc'.starts = svc.starts
        /\ svc'.stopped /\ ~svc'.timer /\ ~svc'.started
        /\ loaded' \in Loaded /\ loaded'.owner = loaded.owner
        /\ loaded'.phase \in {loaded.phase, "stopped"}
        /\ tick' \in Tick
        /\ handoff' \in BOOLEAN /\ (handoff' => handoff \/ handed)
    BY <1>1, <2>1, <2>2, StopOnceFacts
  <2>4. /\ call' \in [Starter -> Call] /\ call'[c].pc = "cleanup"
        /\ call'[c].stale = call[c].stale
        /\ \A d \in Starter \ {c} : call'[d] = call[d]
    BY <1>1, <2>1 DEF Call, Promised
  <2>5. call[c].stale
    BY <1>1, <1>3 DEF IInv, Outdating, startCancelled
  <2>6. Calls'
    BY <1>1, <2>3, <2>4, <2>5, OwnerKeeps DEF Promised
  <2>7. TypeInv'
    BY <1>1, <2>3, <2>4 DEF IInv, TypeInv
  <2>8. Counted'
    BY <1>1, <2>3, <2>4 DEF IInv, Counted, InService
  <2>9. Early' /\ Halting' /\ Handing'
    BY <1>1, <2>2, <2>3 DEF IInv, Early, Halting, Handing
  <2>q. QED BY <2>6, <2>7, <2>8, <2>9 DEF IInv, Calls
<1>q. QED BY <1>2, <1>3

\* The stop of a start that was outdated has ended.
LEMMA StepCleanedUp ==
    ASSUME IInv, NEW c \in Starter, NEW ok \in BOOLEAN, CleanedUp(c, ok) PROVE IInv'
<1>1. /\ UNCHANGED <<import, stopped, paused, owed, handed, handoff, tidy, svc, drain, tick>>
      /\ call[c].pc = "cleanup" /\ loaded.owner = c /\ loaded \in Loaded
      /\ import = "done" /\ ~tidy /\ \A d \in Drainer : drain[d] # "loading"
      /\ \A d \in Starter : call[d].pc \notin InService
      /\ call[c].stale
  BY DEF IInv, TypeInv, CleanedUp, proxy, Owning, Early, Outdating, Promised, InService
<1>2. loaded' \in Loaded /\ loaded'.owner = None
  BY <1>1, DisownedFacts DEF CleanedUp
<1>3. /\ call' \in [Starter -> Call] /\ Calls'
      /\ \A d \in Starter : call'[d].pc \in {call[d].pc, "idle"}
      /\ \A d \in Starter : call'[d].pc \notin InService
  BY <1>1, <1>2, FinishKeeps DEF CleanedUp, Promised
<1>4. TypeInv'
  BY <1>1, <1>2, <1>3 DEF IInv, TypeInv
<1>5. Counted' /\ Early' /\ Halting' /\ Handing'
  BY <1>1, <1>3 DEF IInv, Counted, Early, Halting, Handing, Fresh
<1>q. QED BY <1>3, <1>4, <1>5 DEF IInv, Calls

-----------------------------------------------------------------------------
(* Stops, drains, pauses and resumes.                                      *)

\* A stop outdates every call; what it does to the proxy and to the service
\* beyond that is the caller's.
LEMMA OutdateKeeps ==
    ASSUME IInv, call' = Outdated(call),
           loaded' \in Loaded, loaded'.owner = loaded.owner,
           loaded'.phase \in {loaded.phase, "stopped"}
    PROVE  /\ call' \in [Starter -> Call] /\ Calls'
           /\ \A c \in Starter : call'[c].pc = call[c].pc
<1>1. /\ call' \in [Starter -> Call]
      /\ \A c \in Starter :
           /\ call'[c].pc = call[c].pc /\ call'[c].of = call[c].of
           /\ call'[c].same = call[c].same /\ call'[c].ended = call[c].ended
           /\ call[c].pc # "idle" => call'[c].stale
  BY OutdatedFacts DEF IInv, TypeInv
<1>2. Owning'
  BY <1>1 DEF IInv, Owning
<1>3. Outdating'
  BY <1>1 DEF Outdating
<1>4. Joins'
  BY <1>1 DEF IInv, Joins
<1>q. QED BY <1>1, <1>2, <1>3, <1>4 DEF Calls

\* A stop without a drain.
LEMMA StepStop ==
    ASSUME IInv, Stop PROVE IInv'
<1>1. /\ UNCHANGED <<import, paused, owed, handed, handoff, drain>>
      /\ call' = Outdated(call) /\ stopped' = TRUE
      /\ tidy' \in BOOLEAN
      /\ tidy' => import # "done"
  BY DEF Stop
<1>2. /\ loaded' \in Loaded /\ loaded'.owner = loaded.owner
      /\ loaded'.phase \in {loaded.phase, "stopped"}
      /\ svc' \in Service /\ svc'.starts = svc.starts
      /\ tick' \in Tick
      /\ IF import = "done" THEN svc'.stopped /\ ~svc'.timer /\ ~svc'.started
                            ELSE UNCHANGED <<svc, tick>>
  <2>0. /\ loaded \in Loaded /\ svc \in Service
        /\ tick \in Tick
    BY DEF IInv, TypeInv
  <2>1. CASE import = "done"
    BY <2>0, <2>1, HaltedFacts, SvcStopFacts, TickFacts DEF Stop
  <2>2. CASE import # "done"
    BY <2>0, <2>2 DEF Stop
  <2>q. QED BY <2>1, <2>2
<1>3. /\ call' \in [Starter -> Call] /\ Calls'
      /\ \A c \in Starter : call'[c].pc = call[c].pc
  BY <1>1, <1>2, OutdateKeeps
<1>4. TypeInv'
  BY <1>1, <1>2, <1>3 DEF IInv, TypeInv
<1>5. Counted'
  BY <1>2, <1>3 DEF IInv, Counted
<1>6. Early' /\ Halting' /\ Handing'
  BY <1>1, <1>2, <1>3 DEF IInv, Early, Halting, Handing, Fresh
<1>q. QED BY <1>3, <1>4, <1>5, <1>6 DEF IInv, Calls

\* The import has settled after a stop that met it.
LEMMA StepTidy ==
    ASSUME IInv, Tidy PROVE IInv'
<1>1. /\ UNCHANGED <<import, stopped, paused, owed, handed, handoff, call, drain>>
      /\ tidy /\ tidy' = FALSE
  BY DEF Tidy, proxy
<1>2. \A c \in Starter : call[c].pc \in {"idle", "loading"}
  BY <1>1 DEF IInv, Early
<1>3. /\ loaded' \in Loaded /\ loaded'.owner = loaded.owner
      /\ loaded'.phase \in {loaded.phase, "stopped"}
      /\ svc' \in Service /\ svc'.starts = svc.starts
      /\ tick' \in Tick
      /\ \/ import = "done" /\ svc'.stopped /\ ~svc'.timer /\ ~svc'.started
         \/ UNCHANGED <<svc, tick>>
  <2>0. /\ loaded \in Loaded /\ svc \in Service
        /\ tick \in Tick
    BY DEF IInv, TypeInv
  <2>1. CASE import = "done" /\ stopped
    BY <2>0, <2>1, HaltedFacts, SvcStopFacts, TickFacts DEF Tidy
  <2>2. CASE ~(import = "done" /\ stopped)
    BY <2>0, <2>2 DEF Tidy
  <2>q. QED BY <2>1, <2>2
<1>4. Owning' /\ Outdating' /\ Joins'
  BY <1>1, <1>2, <1>3 DEF IInv, Owning, Outdating, Joins
<1>5. TypeInv'
  BY <1>1, <1>3 DEF IInv, TypeInv
<1>6. Counted' /\ Early' /\ Halting' /\ Handing'
  BY <1>1, <1>2, <1>3 DEF IInv, Counted, Early, Halting, Handing, Fresh
<1>q. QED BY <1>4, <1>5, <1>6 DEF IInv

\* A stop with a drain, the handover of a reload included.
LEMMA StepStopAndDrain ==
    ASSUME IInv, NEW d \in Drainer, NEW preserve \in BOOLEAN, StopAndDrain(d, preserve)
    PROVE  IInv'
<1>1. /\ UNCHANGED <<import, paused, owed, tidy>>
      /\ call' = Outdated(call) /\ stopped' = TRUE
      /\ handed' \in BOOLEAN
      /\ handed => handed'
      /\ drain' \in [Drainer -> {"idle", "loading", "draining"}]
      /\ import = "done" => \A e \in Drainer : drain'[e] = "loading" => drain[e] = "loading"
  BY DEF IInv, TypeInv, StopAndDrain
<1>2. /\ loaded' \in Loaded /\ loaded'.owner = loaded.owner
      /\ loaded'.phase \in {loaded.phase, "stopped"}
      /\ svc' \in Service /\ svc'.starts = svc.starts
      /\ tick' \in Tick
      /\ handoff' \in BOOLEAN
      /\ handoff' => handed' /\ svc'.stopped
      /\ svc'.stopped => ~svc'.timer /\ ~svc'.started
      /\ IF import = "done" THEN svc'.stopped ELSE UNCHANGED <<svc, tick>>
  <2>0. /\ loaded \in Loaded /\ svc \in Service /\ handoff \in BOOLEAN
        /\ tick \in Tick
        /\ handoff => handed /\ svc.stopped
        /\ svc.stopped => ~svc.timer /\ ~svc.started
    BY DEF IInv, TypeInv, Handing, Halting
  <2>1. CASE import = "done"
    <3>1. StopOnce(handed', loaded, svc)
      BY <2>1 DEF StopAndDrain
    <3>2. /\ svc' \in Service /\ svc'.starts = svc.starts
          /\ svc'.stopped /\ ~svc'.timer /\ ~svc'.started
          /\ loaded' \in Loaded /\ loaded'.owner = loaded.owner
          /\ loaded'.phase \in {loaded.phase, "stopped"}
          /\ tick' \in Tick
          /\ handoff' \in BOOLEAN /\ (handoff' => handoff \/ handed')
      BY <1>1, <2>0, <3>1, StopOnceFacts
    <3>q. QED BY <1>1, <2>0, <2>1, <3>2
  <2>2. CASE import # "done"
    BY <1>1, <2>0, <2>2 DEF StopAndDrain
  <2>q. QED BY <2>1, <2>2
<1>3. /\ call' \in [Starter -> Call] /\ Calls'
      /\ \A c \in Starter : call'[c].pc = call[c].pc
  BY <1>1, <1>2, OutdateKeeps
<1>4. TypeInv'
  BY <1>1, <1>2, <1>3 DEF IInv, TypeInv
<1>5. Counted'
  BY <1>2, <1>3 DEF IInv, Counted
<1>6. Early'
  BY <1>1, <1>2, <1>3 DEF IInv, Early, Fresh
<1>7. Halting' /\ Handing'
  BY <1>1, <1>2 DEF IInv, Early, Halting, Handing, Fresh
<1>q. QED BY <1>3, <1>4, <1>5, <1>6, <1>7 DEF IInv, Calls

\* The import has settled for a drain, or a drain has ended.
LEMMA StepDrain ==
    ASSUME IInv, NEW d \in Drainer, DrainLoaded(d) \/ Drained(d) PROVE IInv'
<1>1. /\ UNCHANGED <<import, stopped, paused, owed, handed, tidy, call>>
      /\ drain' \in [Drainer -> {"idle", "loading", "draining"}]
      /\ \A e \in Drainer : drain'[e] = "loading" => drain[e] = "loading"
  BY DEF IInv, TypeInv, DrainLoaded, Drained, proxy
<1>2. CASE UNCHANGED <<loaded, svc, tick, handoff>>
  <2>1. Calls'
    BY <1>1, <1>2, CallUnchanged
  <2>2. TypeInv'
    BY <1>1, <1>2 DEF IInv, TypeInv
  <2>3. Counted' /\ Early' /\ Halting' /\ Handing'
    BY <1>1, <1>2 DEF IInv, Counted, Early, Halting, Handing, Fresh
  <2>q. QED BY <2>1, <2>2, <2>3 DEF IInv, Calls
<1>3. CASE drain[d] = "loading" /\ import = "done" /\ StopOnce(handed, loaded, svc)
  <2>0. /\ loaded \in Loaded /\ svc \in Service /\ handed \in BOOLEAN /\ handoff \in BOOLEAN
        /\ tick \in Tick
        /\ handoff => handed /\ svc.stopped
        /\ svc.stopped => ~svc.timer /\ ~svc.started
    BY DEF IInv, TypeInv, Handing, Halting
  <2>1. /\ svc' \in Service /\ svc'.starts = svc.starts
        /\ svc'.stopped /\ ~svc'.timer /\ ~svc'.started
        /\ loaded' \in Loaded /\ loaded'.owner = loaded.owner
        /\ loaded'.phase \in {loaded.phase, "stopped"}
        /\ tick' \in Tick
        /\ handoff' \in BOOLEAN /\ (handoff' => handoff \/ handed)
    BY <1>3, <2>0, StopOnceFacts
  <2>2. \A c \in Starter : call[c].pc \in {"idle", "loading"}
    BY <1>3 DEF IInv, Early
  <2>3. Owning' /\ Outdating' /\ Joins'
    BY <1>1, <2>1, <2>2 DEF IInv, Owning, Outdating, Joins
  <2>4. TypeInv'
    BY <1>1, <2>1 DEF IInv, TypeInv
  <2>5. Counted' /\ Early' /\ Halting' /\ Handing'
    BY <1>1, <1>3, <2>0, <2>1, <2>2 DEF IInv, Counted, Early, Halting, Handing
  <2>q. QED BY <2>3, <2>4, <2>5 DEF IInv
<1>q. QED BY <1>2, <1>3 DEF DrainLoaded, Drained, proxy

\* The suspend coordinator pauses, resumes, or does both.
LEMMA StepPause ==
    ASSUME IInv, PauseScheduling \/ PauseAnew \/ \E ok \in BOOLEAN : ResumeScheduling(ok)
    PROVE  IInv'
<1>0. /\ call \in [Starter -> Call] /\ svc \in Service /\ loaded \in Loaded
      /\ svc.stopped => ~svc.timer /\ ~svc.started
  BY DEF IInv, TypeInv, Halting
<1>1. /\ UNCHANGED <<import, stopped, handed, handoff, tidy, drain, tick>>
      /\ paused' \in BOOLEAN /\ owed' \in BOOLEAN
  BY DEF IInv, TypeInv, PauseScheduling, PauseAnew, ResumeScheduling, proxy
<1>2. /\ call' \in [Starter -> Call]
      /\ \A c \in Starter :
           /\ call'[c].pc = call[c].pc /\ call'[c].of = call[c].of
           /\ call'[c].same = call[c].same /\ call'[c].ended = call[c].ended
           /\ call'[c].stale = call[c].stale
  BY <1>0, ReleasedFacts DEF PauseScheduling, PauseAnew, ResumeScheduling
<1>3. /\ svc' \in Service /\ svc'.starts = svc.starts
      /\ svc'.stopped = svc.stopped /\ svc'.started = svc.started
      /\ svc'.timer => svc.timer \/ (svc.started /\ ~svc.stopped)
  BY <1>0, SvcPauseFacts, SvcResumeFacts DEF PauseScheduling, PauseAnew, ResumeScheduling
<1>4. loaded' \in Loaded /\ loaded'.owner = loaded.owner /\ loaded'.phase = loaded.phase
  <2>1. \E held \in BOOLEAN : loaded' = [loaded EXCEPT !.held = held]
    BY <1>0 DEF PauseScheduling, PauseAnew, ResumeScheduling, Loaded
  <2>q. QED BY <1>0, <2>1 DEF Loaded
<1>5. Owning' /\ Outdating' /\ Joins'
  BY <1>1, <1>2, <1>4 DEF IInv, TypeInv, Owning, Outdating, Joins, Loaded
<1>6. TypeInv'
  BY <1>1, <1>2, <1>3, <1>4 DEF IInv, TypeInv
<1>7. Counted' /\ Early' /\ Halting' /\ Handing'
  BY <1>0, <1>1, <1>2, <1>3 DEF IInv, Counted, Early, Halting, Handing, Fresh
<1>q. QED BY <1>5, <1>6, <1>7 DEF IInv

-----------------------------------------------------------------------------
(* Pause and resume.  A second invariant, on top of IInv, says who is       *)
(* going to arm the timer of a scheduler that runs.                        *)

\* The scheduler runs: its start has come to the tail and the watchers, or to
\* its end.
Up == \/ loaded.phase = "started"
      \/ \E c \in Starter : call[c].pc \in {"tail", "reconcile"} /\ ~call[c].stale

\* What the proxy holds paused is paused, and nothing else is.
Pausing ==
    /\ svc.paused => ~svc.timer /\ loaded.held
    /\ loaded.held => import = "done"
    /\ paused /\ loaded.held => svc.paused
    /\ paused /\ (loaded.phase = "started" \/ \E c \in Starter : call[c].pc = "reconcile")
           => loaded.held

\* A start that a stop outdated is in a stopped service.
Stopping ==
    /\ loaded.phase = "stopped" => svc.stopped
    /\ \A c \in Starter : call[c].pc \in Promised =>
          IF call[c].stale THEN svc.stopped ELSE loaded.phase = "starting"

\* The coordinator will resume what is paused under a start, and can.
Serving ==
    \A c \in Starter : call[c].pc \in InService /\ ~call[c].stale =>
        /\ ~svc.stopped /\ ~svc.superseded /\ loaded.inFlight
        /\ svc.paused => paused \/ owed

Arming ==
    Up => /\ svc.started /\ ~svc.stopped /\ (loaded.up \/ loaded.inFlight)
          /\ svc.paused => paused \/ owed
          /\ \/ svc.paused \/ svc.timer \/ (tick.waiting /\ ~tick.retired)
             \/ tick.running \/ tick.refused

RunInv == Pausing /\ Stopping /\ Serving /\ Arming

\* What the operations of the service do to a pause.
LEMMA SvcPausedFacts ==
    ASSUME NEW s \in Service
    PROVE  /\ SvcStop(s).paused = s.paused
           /\ SvcPause(s).paused /\ SvcPause(s).superseded = s.superseded
           /\ ~SvcResume(s).paused /\ SvcResume(s).superseded = s.superseded
           /\ s.paused => SvcResume(s).timer = (s.started /\ ~s.stopped)
           /\ ~s.paused => SvcResume(s) = s
           /\ SvcBegin(s).paused = s.paused /\ SvcBegin(s).timer = s.timer
           /\ ~SvcBegin(s).superseded
           /\ SvcArm(s).paused = s.paused /\ SvcArm(s).superseded = s.superseded
           /\ SvcArm(s).timer = (~s.stopped /\ ~s.paused)
           /\ SvcThrow(s).paused = s.paused
<1>1. SvcStop(s).paused = s.paused
  BY DEF Service, SvcStop
<1>2. SvcPause(s).paused /\ SvcPause(s).superseded = s.superseded
  BY DEF Service, SvcPause
<1>3. ASSUME s.paused
      PROVE  /\ ~SvcResume(s).paused /\ SvcResume(s).superseded = s.superseded
             /\ SvcResume(s).timer = (s.started /\ ~s.stopped)
  BY <1>3 DEF Service, SvcResume
<1>4. ~s.paused => SvcResume(s) = s
  BY DEF SvcResume
<1>5. /\ SvcBegin(s).paused = s.paused /\ SvcBegin(s).timer = s.timer
      /\ ~SvcBegin(s).superseded
  BY DEF SvcBegin
<1>6. /\ SvcArm(s).paused = s.paused /\ SvcArm(s).superseded = s.superseded
      /\ SvcArm(s).timer = (~s.stopped /\ ~s.paused)
  BY DEF Service, SvcArm
<1>7. SvcThrow(s).paused = s.paused
  BY DEF Service, SvcThrow
<1>q. QED BY <1>1, <1>2, <1>3, <1>4, <1>5, <1>6, <1>7

\* A start that returns to a service nobody stopped has started it.
LEMMA SvcReturnedFacts ==
    ASSUME NEW s \in Service
    PROVE  /\ SvcReturn(s).paused = s.paused
           /\ ~s.superseded /\ ~s.stopped =>
                 /\ SvcReturn(s).started /\ ~SvcReturn(s).stopped
                 /\ SvcReturn(s).timer = s.timer
  BY DEF Service, SvcReturn, SvcStop

\* The service was stopped, and every start under way is outdated.
LEMMA HaltKeeps ==
    ASSUME IInv, RunInv, svc'.stopped, ~svc'.timer, svc'.paused = svc.paused,
           loaded'.held = loaded.held, loaded'.phase # "started",
           \A c \in Starter : call'[c].pc \in Promised => call'[c].stale,
           \A c \in Starter : call'[c].pc = "reconcile" => call[c].pc = "reconcile",
           UNCHANGED <<import, paused>>
    PROVE  RunInv'
<1>1. Pausing'
  BY DEF RunInv, Pausing
<1>2. Stopping' /\ Serving'
  BY DEF Stopping, Serving, Promised, InService
<1>3. Arming'
  BY DEF Arming, Up, Promised
<1>q. QED BY <1>1, <1>2, <1>3 DEF RunInv

\* A handover that has stopped the service before stops it no more.
LEMMA StopOnceKeeps ==
    ASSUME IInv, NEW l \in Loaded, NEW s \in Service, NEW preserve \in BOOLEAN,
           handoff => s.stopped, s.stopped => ~s.timer /\ ~s.started,
           handoff => l.phase # "started", StopOnce(preserve, l, s)
    PROVE  /\ svc'.stopped /\ ~svc'.timer /\ svc'.paused = s.paused
           /\ loaded'.held = l.held /\ loaded'.phase # "started"
<1>1. CASE preserve /\ handoff
  BY <1>1 DEF StopOnce
<1>2. CASE ~(preserve /\ handoff)
  <2>1. loaded' = Halted(l) /\ svc' = SvcStop(s)
    BY <1>2 DEF StopOnce
  <2>2. Halted(l).held = l.held /\ Halted(l).phase = "stopped"
    BY DEF Halted, Loaded
  <2>q. QED BY <2>1, <2>2, SvcStopFacts, SvcPausedFacts
<1>q. QED BY <1>1, <1>2

\* startPromise has settled.
LEMMA EndKeeps ==
    ASSUME IInv, RunInv, NEW c \in Starter, call[c].pc \in Promised,
           NEW result \in {"ok", "error"}, call' = Finished(c, result),
           loaded'.held = loaded.held,
           loaded'.phase = "stopped" => svc.stopped,
           loaded'.phase = "started" =>
               /\ call[c].pc = "reconcile" /\ ~call[c].stale
               /\ loaded'.up = loaded.up /\ loaded'.inFlight = loaded.inFlight,
           svc'.paused = svc.paused, svc'.timer = svc.timer, svc'.stopped = svc.stopped,
           svc'.started = svc.started, UNCHANGED <<import, paused, owed, tick>>
    PROVE  RunInv'
<1>1. \A d \in Starter : call'[d].pc \notin Promised
  <2>1. loaded.owner = c /\ call \in [Starter -> Call]
    BY CronAssumption DEF IInv, TypeInv, Owning
  <2>2. call'[c].pc = "idle" /\ \A d \in Starter \ {c} : call'[d].pc = call[d].pc
    BY <2>1, FinishedFacts
  <2>q. QED BY <2>1, <2>2 DEF IInv, Owning, Promised
<1>2. Pausing'
  BY <1>1 DEF RunInv, Pausing, Promised
<1>3. Stopping' /\ Serving'
  BY <1>1 DEF Stopping, Serving, Promised, InService
<1>4. Arming'
  BY <1>1 DEF RunInv, Arming, Up, Promised
<1>q. QED BY <1>2, <1>3, <1>4 DEF RunInv

\* A tick hands the timer on until it is armed again.
LEMMA RunTick ==
    ASSUME IInv, RunInv, TickFires \/ TickAdmitted \/ TickRefused \/ TickEnds PROVE RunInv'
<1>0. /\ svc \in Service
      /\ tick \in Tick
      /\ UNCHANGED <<import, paused, owed, loaded, call>>
  BY DEF IInv, TypeInv, TickFires, TickAdmitted, TickRefused, TickEnds, proxy
<1>1. /\ svc'.paused = svc.paused /\ svc'.stopped = svc.stopped /\ svc'.started = svc.started
      /\ svc'.superseded = svc.superseded
      /\ svc.paused /\ ~svc.timer => ~svc'.timer
      /\ ~svc.stopped /\ ~svc.paused
            /\ \/ svc.timer \/ (tick.waiting /\ ~tick.retired)
               \/ tick.running \/ tick.refused
         => \/ svc'.timer \/ (tick'.waiting /\ ~tick'.retired)
            \/ tick'.running \/ tick'.refused
  <2>1. CASE TickFires
    BY <1>0, <2>1 DEF TickFires, Service, Tick
  <2>2. CASE TickAdmitted
    <3>1. CASE ~tick.retired /\ ~svc.stopped /\ ~svc.paused
      <4>1. svc' = SvcArm(svc)
        BY <2>2, <3>1 DEF TickAdmitted
      <4>q. QED BY <1>0, <4>1, SvcArmFacts, SvcPausedFacts
    <3>2. CASE ~(~tick.retired /\ ~svc.stopped /\ ~svc.paused)
      <4>1. svc' = svc /\ ~tick.running /\ ~tick.refused
        BY <2>2, <3>2 DEF TickAdmitted
      <4>q. QED BY <3>2, <4>1
    <3>q. QED BY <3>1, <3>2
  <2>3. CASE TickEnds
    BY <1>0, <2>3, SvcArmFacts, SvcPausedFacts DEF TickEnds
  <2>4. CASE TickRefused
    BY <1>0, <2>4 DEF TickRefused, Tick
  <2>q. QED BY <2>1, <2>2, <2>3, <2>4
<1>2. Pausing' /\ Stopping' /\ Serving'
  BY <1>0, <1>1 DEF RunInv, Pausing, Stopping, Serving
<1>3. Arming'
  BY <1>0, <1>1 DEF RunInv, Arming, Up
<1>q. QED BY <1>2, <1>3 DEF RunInv

\* A call that is not the owner comes, waits, or goes.
LEMMA OthersKeep ==
    ASSUME IInv, RunInv,
           \A d \in Starter : call'[d].pc \in Promised =>
               call'[d].pc = call[d].pc /\ call'[d].stale = call[d].stale,
           import' # "done" => import # "done",
           UNCHANGED <<paused, owed, loaded, svc, tick>>
    PROVE  RunInv'
<1>1. Pausing' /\ Stopping'
  BY DEF RunInv, Pausing, Stopping, Promised
<1>2. Serving' /\ Arming'
  BY DEF RunInv, Serving, Arming, Up, Promised, InService
<1>q. QED BY <1>1, <1>2 DEF RunInv

\* A start that has just been called owns nothing yet and leaves the service alone.
LEMMA RunStart ==
    ASSUME IInv, RunInv, NEW c \in Starter, Start(c) PROVE RunInv'
<1>1. /\ call'[c].pc = "loading" /\ \A d \in Starter \ {c} : call'[d] = call[d]
      /\ import' # "done" => import # "done"
      /\ UNCHANGED <<paused, owed, loaded, svc, tick>>
  BY DEF IInv, TypeInv, Start, IdleCall
<1>q. QED BY <1>1, OthersKeep DEF Promised

\* The import brings a service that is paused if the proxy is.
LEMMA RunImport ==
    ASSUME IInv, RunInv, Use \/ \E ok \in BOOLEAN : Import(ok) PROVE RunInv'
<1>1. CASE Use
  BY <1>1, OthersKeep DEF Use, proxy
<1>2. ASSUME NEW ok \in BOOLEAN, Import(ok) PROVE RunInv'
  <2>1. /\ import = "pending" /\ import' = IF ok THEN "done" ELSE "failed"
        /\ loaded \in Loaded /\ svc \in Service /\ paused \in BOOLEAN
        /\ UNCHANGED <<paused, owed, call, tick>>
        /\ ~svc.timer /\ ~svc.started /\ ~loaded.held /\ ~svc.paused
        /\ \A c \in Starter : call[c].pc \in {"idle", "loading"}
    BY <1>2 DEF IInv, TypeInv, Import, proxy, Early, Fresh, RunInv, Pausing
  <2>2. loaded'.held = (ok /\ paused) /\ loaded'.phase = loaded.phase
    <3>1. (ok /\ paused) \in BOOLEAN
      OBVIOUS
    <3>q. QED BY <1>2, <2>1, <3>1 DEF Import, Loaded
  <2>3. (svc'.paused <=> ok /\ paused) /\ ~svc'.timer /\ svc'.stopped = svc.stopped
    BY <1>2, <2>1, SvcPauseFacts, SvcPausedFacts DEF Import
  <2>4. Pausing' /\ Stopping' /\ Serving' /\ Arming'
    <3>1. loaded.phase # "started"
      BY <2>1 DEF RunInv, Arming, Up
    <3>q. QED BY <2>1, <2>2, <2>3, <3>1
              DEF RunInv, Pausing, Stopping, Serving, Arming, Up, Promised, InService
  <2>q. QED BY <2>4 DEF RunInv
<1>q. QED BY <1>1, <1>2

\* A call becomes the owner of startPromise, or waits on.
LEMMA RunWaited ==
    ASSUME IInv, RunInv, NEW c \in Starter, StartLoaded(c) \/ Joined(c) PROVE RunInv'
<1>1. /\ UNCHANGED <<import, paused, owed, svc, tick>>
      /\ call[c].pc \notin Promised /\ call \in [Starter -> Call] /\ loaded \in Loaded
  BY DEF IInv, TypeInv, StartLoaded, Joined, proxy, Promised
<1>2. CASE Own(c) /\ loaded.owner = None /\ loaded.phase # "started" /\ ~startCancelled(c)
  <2>1. /\ call'[c].pc = "waiting" /\ call'[c].stale = call[c].stale
        /\ \A d \in Starter \ {c} : call'[d] = call[d]
    BY <1>1, <1>2 DEF Own, Call
  <2>2. loaded'.phase = "starting" /\ loaded'.held = loaded.held
    BY <1>1, <1>2 DEF Own, Loaded
  <2>3. ~call[c].stale /\ \A d \in Starter \ {c} : call'[d].pc \notin Promised
    BY <1>2, <2>1, CronAssumption DEF startCancelled, IInv, Owning
  <2>4. Pausing'
    BY <1>1, <2>1, <2>2, <2>3 DEF RunInv, Pausing, Promised
  <2>5. Stopping' /\ Serving' /\ Arming'
    BY <2>1, <2>2, <2>3 DEF Stopping, Serving, Arming, Up, Promised, InService
  <2>q. QED BY <2>4, <2>5 DEF RunInv
<1>3. ASSUME NEW f, f.pc \notin Promised, call' = [call EXCEPT ![c] = f], UNCHANGED loaded
      PROVE  RunInv'
  <2>1. call'[c] = f /\ \A d \in Starter \ {c} : call'[d] = call[d]
    BY <1>1, <1>3
  <2>q. QED BY <1>1, <1>3, <2>1, OthersKeep
<1>4. CASE Return(c)
  BY <1>3, <1>4, IdleFacts DEF Return, Promised
<1>5. CASE Join(c)
  <2> DEFINE f == [call[c] EXCEPT !.pc = "joining", !.of = loaded.owner,
                                  !.same = ~call[loaded.owner].stale, !.ended = "no"]
  <2>1. f.pc = "joining"
    BY <1>1 DEF Call
  <2>2. call' = [call EXCEPT ![c] = f] /\ UNCHANGED loaded
    BY <1>5 DEF Join
  <2> HIDE DEF f
  <2>q. QED BY <1>3, <2>1, <2>2 DEF Promised
<1>6. CASE /\ call' = [call EXCEPT ![c] = [IdleCall EXCEPT !.pc = "loading"]]
           /\ UNCHANGED loaded
  <2>1. [IdleCall EXCEPT !.pc = "loading"].pc = "loading"
    BY DEF IdleCall
  <2>q. QED BY <1>3, <1>6, <2>1 DEF Promised
<1>7. CASE StartLoaded(c)
  BY <1>2, <1>4, <1>5, <1>7 DEF StartLoaded
<1>8. CASE Joined(c)
  <2>1. ~(Return(c)) /\ call[c].same => FALSE
    <3> SUFFICES ASSUME ~Return(c), call[c].same PROVE FALSE
      OBVIOUS
    <3>1. /\ call[c].pc = "joining" /\ call[c].ended \in {"ok", "error"}
          /\ call[c].ended # "error" /\ ~startCancelled(c) /\ loaded.phase # "started"
      BY <1>1, <1>8 DEF Joined, Call
    <3>q. QED BY <3>1 DEF IInv, Joins, startCancelled
  <2>q. QED BY <1>4, <1>6, <1>8, <2>1 DEF Joined
<1>q. QED BY <1>7, <1>8

\* The service begins with its pause taken off.
LEMMA RunProceed ==
    ASSUME IInv, RunInv, NEW c \in Starter, Proceed(c) PROVE RunInv'
<1>1. /\ UNCHANGED <<import, paused, owed, tick>>
      /\ call[c].pc = "waiting" /\ loaded.owner = c /\ loaded \in Loaded
      /\ call \in [Starter -> Call] /\ svc \in Service
      /\ \A d \in Starter \ {c} : call[d].pc \notin Promised
  BY DEF IInv, TypeInv, Proceed, proxy, Owning, Promised
<1>2. CASE startCancelled(c)
  <2>1. call[c].stale
    BY <1>1, <1>2 DEF IInv, Outdating, startCancelled
  <2>2. /\ loaded' = [Disowned(loaded, c) EXCEPT !.phase = "stopped"]
        /\ call' = Finished(c, "ok") /\ UNCHANGED svc
    BY <1>2 DEF Proceed
  <2>3. loaded'.held = loaded.held /\ loaded'.phase = "stopped"
    BY <1>1, <2>2 DEF Disowned, Loaded
  <2>4. svc.stopped
    BY <1>1, <2>1 DEF RunInv, Stopping, Promised
  <2>q. QED BY <1>1, <2>2, <2>3, <2>4, EndKeeps DEF Promised
<1>3. CASE ~startCancelled(c)
  <2>1. /\ loaded' = [loaded EXCEPT !.held = FALSE, !.inFlight = TRUE]
        /\ svc' = SvcBegin(IF loaded.held THEN SvcResume(svc) ELSE svc)
        /\ call' = [call EXCEPT ![c] = [@ EXCEPT !.pc = "repair", !.released = FALSE]]
    BY <1>3 DEF Proceed
  <2>2. ~loaded'.held /\ loaded'.inFlight /\ loaded'.phase = loaded.phase
    BY <1>1, <2>1 DEF Loaded
  <2>3. /\ call'[c].pc = "repair" /\ call'[c].stale = call[c].stale
        /\ \A d \in Starter \ {c} : call'[d] = call[d]
    BY <1>1, <2>1 DEF Call
  <2>4. ~call[c].stale /\ loaded.phase = "starting"
    BY <1>1, <1>3 DEF startCancelled, RunInv, Stopping, Promised
  <2>5. ~svc'.paused /\ ~svc'.stopped /\ ~svc'.superseded
    <3>1. CASE loaded.held
      BY <1>1, <2>1, <3>1, SvcResumeFacts, SvcBeginFacts, SvcPausedFacts
    <3>2. CASE ~loaded.held
      <4>1. ~svc.paused
        BY <3>2 DEF RunInv, Pausing
      <4>q. QED BY <1>1, <2>1, <3>2, <4>1, SvcBeginFacts, SvcPausedFacts
    <3>q. QED BY <3>1, <3>2
  <2>6. Pausing' /\ Stopping'
    BY <1>1, <2>2, <2>3, <2>4, <2>5 DEF Pausing, Stopping, Promised
  <2>7. Serving' /\ Arming'
    BY <1>1, <2>2, <2>3, <2>4, <2>5 DEF Serving, Arming, Up, Promised, InService
  <2>q. QED BY <2>6, <2>7 DEF RunInv
<1>q. QED BY <1>2, <1>3

\* A start that returns is up, with a timer or under a pause.
LEMMA RunReturned ==
    ASSUME IInv, RunInv, NEW c \in Starter, call[c].pc \in Promised,
           NEW r \in Service, r.paused = svc.paused, svc.stopped => r.stopped,
           r.stopped => ~r.timer /\ ~r.started, r.paused => ~r.timer,
           ~startCancelled(c) =>
               /\ r.started /\ ~r.stopped /\ (r.paused => paused \/ owed)
               /\ \/ r.paused \/ r.timer \/ (tick.waiting /\ ~tick.retired)
                  \/ tick.running \/ tick.refused,
           Returned(c, r),
           UNCHANGED <<import, stopped, paused, owed, handed, tidy, drain>>
    PROVE  RunInv'
<1> DEFINE l == [loaded EXCEPT !.inFlight = FALSE, !.up = TRUE]
<1>1. /\ loaded.owner = c /\ loaded \in Loaded /\ call \in [Starter -> Call]
      /\ handed \in BOOLEAN /\ paused \in BOOLEAN /\ import = "done" /\ c # None
      /\ \A d \in Starter \ {c} : call[d].pc \notin Promised
  BY CronAssumption DEF IInv, TypeInv, Owning, Early, Promised
<1>3. l \in Loaded /\ l.up /\ l.held = loaded.held /\ l.phase = loaded.phase
  BY <1>1 DEF Loaded
<1> HIDE DEF l
<1>5. CASE startCancelled(c)
  <2>1. /\ StopOnce(handed, l, r)
        /\ call' = [call EXCEPT ![c] = [@ EXCEPT !.pc = "cleanup"]]
    BY <1>5 DEF Returned, l
  <2>2. call[c].stale
    BY <1>5 DEF IInv, Outdating, startCancelled, Promised
  <2>3. /\ call'[c].pc = "cleanup" /\ call'[c].stale
        /\ \A d \in Starter \ {c} : call'[d] = call[d]
    BY <1>1, <2>1, <2>2 DEF Call
  <2>4. (handoff => r.stopped) /\ l.phase # "started"
    BY <1>1, <1>3 DEF IInv, Handing, Owning
  <2>5. /\ svc'.stopped /\ ~svc'.timer /\ svc'.paused = r.paused
        /\ loaded'.held = l.held /\ loaded'.phase # "started"
    BY <1>1, <1>3, <2>1, <2>4, StopOnceKeeps
  <2>q. QED BY <1>1, <1>3, <2>3, <2>5, HaltKeeps
<1>6. CASE ~startCancelled(c)
  <2>1. /\ loaded' = [l EXCEPT !.held = @ \/ paused]
        /\ svc' = IF paused THEN SvcPause(r) ELSE r
        /\ call' = [call EXCEPT ![c] = [@ EXCEPT !.pc = "reconcile"]]
        /\ UNCHANGED tick
    BY <1>6 DEF Returned, l
  <2>2. ~call[c].stale
    BY <1>6 DEF startCancelled
  <2>3. /\ call'[c].pc = "reconcile" /\ ~call'[c].stale
        /\ \A d \in Starter \ {c} : call'[d] = call[d]
    BY <1>1, <2>1, <2>2 DEF Call
  <2>4. loaded'.held = (l.held \/ paused) /\ loaded'.up /\ loaded'.phase = loaded.phase
    <3>1. (l.held \/ paused) \in BOOLEAN
      OBVIOUS
    <3>q. QED BY <1>3, <2>1, <3>1 DEF Loaded
  <2>5. /\ (svc'.paused <=> paused \/ svc.paused) /\ svc'.started /\ ~svc'.stopped
        /\ svc'.paused => ~svc'.timer
        /\ svc'.paused => paused \/ owed
        /\ \/ svc'.paused \/ svc'.timer \/ (tick.waiting /\ ~tick.retired)
           \/ tick.running \/ tick.refused
    <3>1. svc.paused \in BOOLEAN
      BY DEF IInv, TypeInv, Service
    <3>2. CASE paused
      BY <1>6, <2>1, <3>2, SvcPauseFacts, SvcPausedFacts
    <3>3. CASE ~paused
      BY <1>6, <2>1, <3>1, <3>3
    <3>q. QED BY <3>2, <3>3
  <2>6. loaded.phase = "starting"
    BY <2>2 DEF RunInv, Stopping
  <2>7. Pausing'
    BY <1>1, <1>3, <2>3, <2>4, <2>5, <2>6 DEF RunInv, Pausing
  <2>8. Stopping' /\ Serving'
    BY <1>1, <2>3, <2>4, <2>6 DEF Stopping, Serving, Promised, InService
  <2>9. Arming'
    BY <2>1, <2>4, <2>5 DEF Arming
  <2>q. QED BY <2>7, <2>8, <2>9 DEF RunInv
<1>q. QED BY <1>5, <1>6

\* A start that throws leaves nobody who waits for a timer.
LEMMA RunThrew ==
    ASSUME IInv, RunInv, NEW c \in Starter, call[c].pc \in Promised,
           NEW r, r.paused = svc.paused, r.timer = svc.timer, r.stopped = svc.stopped,
           r.started = svc.started, Threw(c, r),
           UNCHANGED <<import, stopped, paused, owed, handed, tidy, drain>>
    PROVE  RunInv'
<1>1. /\ loaded'.held = loaded.held
      /\ loaded'.phase = IF startCancelled(c) THEN "stopped" ELSE "idle"
  BY DEF IInv, TypeInv, Threw, Disowned, Loaded
<1>2. startCancelled(c) => svc.stopped
  BY DEF IInv, Outdating, startCancelled, RunInv, Stopping, Promised
<1>3. call' = Finished(c, "error") /\ svc' = r /\ UNCHANGED tick
  BY DEF Threw
<1>q. QED BY <1>1, <1>2, <1>3, EndKeeps

\* The two locked parts of the service's start.
LEMMA RunService ==
    ASSUME IInv, RunInv, NEW c \in Starter, NEW ok \in BOOLEAN, Repair(c, ok) \/ CatchUp(c, ok)
    PROVE  RunInv'
<1>1. /\ call[c].pc \in InService /\ call[c].pc \in Promised
      /\ svc \in Service /\ loaded \in Loaded /\ call \in [Starter -> Call]
      /\ UNCHANGED <<import, stopped, paused, owed, handed, tidy, drain>>
      /\ svc.stopped => ~svc.timer /\ ~svc.started
      /\ svc.paused => ~svc.timer
      /\ \A d \in Starter \ {c} : call[d].pc \notin Promised
  BY DEF IInv, TypeInv, Repair, CatchUp, Promised, InService, Halting, RunInv, Pausing, Owning
<1>2. svc.starts = 1
  BY <1>1 DEF IInv, Counted
<1>3. ~call[c].stale => /\ ~svc.stopped /\ ~svc.superseded /\ loaded.inFlight
                        /\ svc.paused => paused \/ owed
  BY <1>1 DEF RunInv, Serving
<1>4. CASE Threw(c, SvcThrow(svc))
  BY <1>1, <1>2, <1>4, SvcThrowFacts, SvcPausedFacts, RunThrew
<1>5. CASE Returned(c, SvcReturn(svc)) /\ (svc.stopped \/ svc.superseded)
  <2> DEFINE r == SvcReturn(svc)
  <2>1. /\ r \in Service /\ r.paused = svc.paused
        /\ svc.stopped => r.stopped
        /\ r.stopped => ~r.timer /\ ~r.started
    BY <1>1, <1>2, SvcReturnFacts, SvcReturnedFacts
  <2>2. r.paused => ~r.timer
    BY <1>1 DEF Service, SvcReturn, SvcStop
  <2>3. startCancelled(c)
    BY <1>3, <1>5 DEF startCancelled
  <2>4. Returned(c, r)
    BY <1>5
  <2> HIDE DEF r
  <2>q. QED BY <1>1, <2>1, <2>2, <2>3, <2>4, RunReturned
<1>6. CASE /\ call' = [call EXCEPT ![c] = [@ EXCEPT !.pc = "catchup"]]
           /\ UNCHANGED <<loaded, svc, handoff, tick>>
  <2>1. /\ call'[c].pc = "catchup" /\ call'[c].stale = call[c].stale
        /\ \A d \in Starter \ {c} : call'[d] = call[d]
    BY <1>1, <1>6 DEF Call
  <2>2. Pausing' /\ Stopping'
    BY <1>1, <1>6, <2>1 DEF RunInv, Pausing, Stopping, Promised
  <2>3. Serving' /\ Arming'
    BY <1>1, <1>6, <2>1 DEF RunInv, Serving, Arming, Up, InService
  <2>q. QED BY <2>2, <2>3 DEF RunInv
<1>7. CASE /\ ~svc.superseded
           /\ call' = [call EXCEPT ![c] = [@ EXCEPT !.pc = "tail"]]
           /\ svc' = SvcReturn(IF svc.stopped THEN svc ELSE SvcArm(svc))
           /\ UNCHANGED <<loaded, handoff, tick>>
  <2>1. /\ call'[c].pc = "tail" /\ call'[c].stale = call[c].stale
        /\ \A d \in Starter \ {c} : call'[d] = call[d]
    BY <1>1, <1>7 DEF Call
  <2>2. /\ svc'.paused = svc.paused /\ (svc.stopped => svc'.stopped)
        /\ svc'.paused => ~svc'.timer
        /\ ~svc.stopped => /\ svc'.started /\ ~svc'.stopped
                           /\ svc'.paused \/ svc'.timer
    <3>1. CASE svc.stopped
      BY <1>1, <1>2, <1>7, <3>1 DEF SvcReturn, Service
    <3>2. CASE ~svc.stopped
      <4>1. svc' = SvcReturn(SvcArm(svc))
        BY <1>7, <3>2
      <4>2. /\ SvcArm(svc) \in Service /\ SvcArm(svc).paused = svc.paused
            /\ ~SvcArm(svc).superseded /\ ~SvcArm(svc).stopped
            /\ SvcArm(svc).timer = ~svc.paused
        BY <1>1, <1>7, <3>2, SvcArmFacts, SvcPausedFacts
      <4>3. /\ svc'.paused = SvcArm(svc).paused /\ svc'.timer = SvcArm(svc).timer
            /\ svc'.started /\ ~svc'.stopped
        BY <4>1, <4>2, SvcReturnedFacts
      <4>4. svc.paused \in BOOLEAN
        BY <1>1 DEF Service
      <4>q. QED BY <3>2, <4>2, <4>3, <4>4
    <3>q. QED BY <3>1, <3>2
  <2>3. loaded.phase # "started" /\ (~call[c].stale => loaded.phase = "starting")
    BY <1>1, CronAssumption DEF IInv, Owning, RunInv, Stopping
  <2>4. Pausing'
    BY <1>1, <1>7, <2>1, <2>2, <2>3 DEF RunInv, Pausing, Promised
  <2>5. Stopping' /\ Serving'
    BY <1>1, <1>7, <2>1, <2>2 DEF RunInv, Stopping, Serving, Promised, InService
  <2>6. Arming'
    BY <1>1, <1>3, <1>7, <2>1, <2>2, <2>3 DEF Arming, Up, Promised
  <2>q. QED BY <2>4, <2>5, <2>6 DEF RunInv
<1>q. QED BY <1>4, <1>5, <1>6, <1>7 DEF Repair, CatchUp

\* The tail of the start returns to the proxy, or throws, under a service that
\* has armed its timer or is paused.
LEMMA RunTail ==
    ASSUME IInv, RunInv, NEW c \in Starter, NEW ok \in BOOLEAN, Tail(c, ok) PROVE RunInv'
<1>1. /\ call[c].pc = "tail" /\ call[c].pc \in Promised /\ svc \in Service
      /\ UNCHANGED <<import, stopped, paused, owed, handed, tidy, drain>>
      /\ svc.stopped => ~svc.timer /\ ~svc.started
      /\ svc.paused => ~svc.timer
  BY DEF IInv, TypeInv, Tail, Promised, Halting, RunInv, Pausing
<1>2. ~startCancelled(c) => Up
  BY <1>1 DEF startCancelled, Up
<1>3. ~startCancelled(c) =>
          /\ svc.started /\ ~svc.stopped /\ (svc.paused => paused \/ owed)
          /\ \/ svc.paused \/ svc.timer \/ (tick.waiting /\ ~tick.retired)
             \/ tick.running \/ tick.refused
  BY <1>2 DEF RunInv, Arming
<1>4. CASE Returned(c, svc)
  BY <1>1, <1>3, <1>4, RunReturned
<1>5. CASE Threw(c, svc)
  BY <1>1, <1>5, RunThrew
<1>q. QED BY <1>4, <1>5 DEF Tail

\* The watchers are reconciled, and the stop of an outdated start has ended.
LEMMA RunReconciled ==
    ASSUME IInv, RunInv, NEW c \in Starter, NEW ok \in BOOLEAN,
           Reconciled(c, ok) \/ CleanedUp(c, ok)
    PROVE  RunInv'
<1>1. /\ UNCHANGED <<import, stopped, paused, owed, handed, tidy, drain>>
      /\ call[c].pc \in {"reconcile", "cleanup"} /\ loaded.owner = c /\ loaded \in Loaded
      /\ call \in [Starter -> Call] /\ svc \in Service /\ handed \in BOOLEAN
      /\ loaded.phase \in {"starting", "stopped"} /\ c # None
      /\ \A d \in Starter \ {c} : call[d].pc \notin Promised
  BY CronAssumption DEF IInv, TypeInv, Reconciled, CleanedUp, Owning, Promised, proxy
<1>2. startCancelled(c) => call[c].stale /\ svc.stopped
  BY <1>1 DEF IInv, Outdating, startCancelled, RunInv, Stopping, Promised
<1>3. CASE CleanedUp(c, ok)
  <2>1. loaded'.held = loaded.held /\ loaded'.phase = loaded.phase
    BY <1>1, <1>3 DEF CleanedUp, Disowned, Loaded
  <2>2. loaded.phase = "stopped" => svc.stopped
    BY DEF RunInv, Stopping
  <2>3. UNCHANGED <<svc, tick>> /\ \E result \in {"ok", "error"} : call' = Finished(c, result)
    BY <1>3 DEF CleanedUp
  <2>q. QED BY <1>1, <2>1, <2>2, <2>3, EndKeeps DEF Promised
<1>4. CASE Reconciled(c, ok) /\ (~ok \/ ~startCancelled(c))
  <2>1. /\ loaded' = [Disowned(loaded, c) EXCEPT
                          !.phase = IF startCancelled(c) THEN "stopped" ELSE "started"]
        /\ \E result \in {"ok", "error"} : call' = Finished(c, result)
        /\ UNCHANGED <<svc, handoff, tick>> /\ call[c].pc = "reconcile"
    BY <1>4 DEF Reconciled
  <2>2. /\ loaded'.held = loaded.held /\ loaded'.up = loaded.up
        /\ loaded'.inFlight = loaded.inFlight
        /\ loaded'.phase = IF startCancelled(c) THEN "stopped" ELSE "started"
    BY <1>1, <2>1 DEF Disowned, Loaded
  <2>3. loaded'.phase = "started" => ~call[c].stale
    BY <2>2 DEF startCancelled
  <2>q. QED BY <1>1, <1>2, <2>1, <2>2, <2>3, EndKeeps DEF Promised
<1>5. CASE Reconciled(c, ok) /\ ok /\ startCancelled(c)
  <2>1. /\ StopOnce(handed, loaded, svc)
        /\ call' = [call EXCEPT ![c] = [@ EXCEPT !.pc = "cleanup"]]
    BY <1>5 DEF Reconciled
  <2>2. /\ call'[c].pc = "cleanup" /\ call'[c].stale
        /\ \A d \in Starter \ {c} : call'[d] = call[d]
    BY <1>1, <1>2, <1>5, <2>1 DEF Call
  <2>3. svc.stopped => ~svc.timer /\ ~svc.started
    BY DEF IInv, Halting
  <2>4. /\ svc'.stopped /\ ~svc'.timer /\ svc'.paused = svc.paused
        /\ loaded'.held = loaded.held /\ loaded'.phase # "started"
    BY <1>1, <1>2, <1>5, <2>1, <2>3, StopOnceKeeps
  <2>q. QED BY <1>1, <2>2, <2>4, HaltKeeps
<1>q. QED BY <1>3, <1>4, <1>5

\* A stop or a drain reaches the service, or there is none to reach.
LEMMA RunStop ==
    ASSUME IInv, RunInv,
           \/ Stop \/ Tidy
           \/ \E d \in Drainer : \/ DrainLoaded(d) \/ Drained(d)
                                 \/ \E preserve \in BOOLEAN : StopAndDrain(d, preserve)
    PROVE  RunInv'
<1>1. /\ UNCHANGED <<import, paused, owed>> /\ call' \in {call, Outdated(call)}
      /\ call \in [Starter -> Call] /\ loaded \in Loaded /\ svc \in Service
      /\ handed' \in BOOLEAN
  BY DEF IInv, TypeInv, Stop, Tidy, DrainLoaded, Drained, StopAndDrain, proxy
<1>2. /\ \A c \in Starter : call'[c].pc = call[c].pc
      /\ call' = Outdated(call) => \A c \in Starter : call[c].pc # "idle" => call'[c].stale
  BY <1>1, OutdatedFacts
<1>3. CASE UNCHANGED <<loaded, svc, tick>> /\ (call' = call \/ import # "done")
  <2>1. import # "done" => \A c \in Starter : call[c].pc \notin Promised
    BY DEF IInv, Early, Promised
  <2>q. QED BY <1>1, <1>2, <1>3, <2>1, OthersKeep
<1>4. ASSUME \/ loaded' = Halted(loaded) /\ svc' = SvcStop(svc)
             \/ StopOnce(handed', loaded, svc),
             call' = Outdated(call) \/ \A c \in Starter : call[c].pc \notin Promised
      PROVE  RunInv'
  <2>1. /\ handoff => svc.stopped
        /\ svc.stopped => ~svc.timer /\ ~svc.started
        /\ handoff => loaded.phase # "started"
    BY DEF IInv, Handing, Halting, RunInv, Arming, Up
  <2>2. /\ svc'.stopped /\ ~svc'.timer /\ svc'.paused = svc.paused
        /\ loaded'.held = loaded.held /\ loaded'.phase # "started"
    <3>1. CASE loaded' = Halted(loaded) /\ svc' = SvcStop(svc)
      <4>1. Halted(loaded).held = loaded.held /\ Halted(loaded).phase = "stopped"
        BY <1>1 DEF Halted, Loaded
      <4>q. QED BY <1>1, <3>1, <4>1, SvcStopFacts, SvcPausedFacts
    <3>2. CASE StopOnce(handed', loaded, svc)
      BY <1>1, <2>1, <3>2, StopOnceKeeps
    <3>q. QED BY <1>4, <3>1, <3>2
  <2>3. \A c \in Starter : call'[c].pc \in Promised => call'[c].stale
    BY <1>2, <1>4 DEF Promised
  <2>q. QED BY <1>1, <1>2, <2>2, <2>3, HaltKeeps
<1>5. CASE Stop
  BY <1>3, <1>4, <1>5 DEF Stop
<1>6. CASE Tidy
  <2>1. \A c \in Starter : call[c].pc \notin Promised
    BY <1>6 DEF Tidy, IInv, Early, Promised
  <2>q. QED BY <1>3, <1>4, <1>6, <2>1 DEF Tidy
<1>7. ASSUME NEW d \in Drainer, DrainLoaded(d) PROVE RunInv'
  <2>1. \A c \in Starter : call[c].pc \notin Promised
    BY <1>7 DEF DrainLoaded, IInv, Early, Promised
  <2>q. QED BY <1>3, <1>4, <1>7, <2>1 DEF DrainLoaded
<1>8. ASSUME NEW d \in Drainer, Drained(d) PROVE RunInv'
  BY <1>3, <1>8 DEF Drained
<1>9. ASSUME NEW d \in Drainer, NEW preserve \in BOOLEAN, StopAndDrain(d, preserve)
      PROVE  RunInv'
  BY <1>3, <1>4, <1>9 DEF StopAndDrain
<1>q. QED BY <1>5, <1>6, <1>7, <1>8, <1>9

\* A resume that returns takes the pause off whatever runs, and arms it.
LEMMA RunPause ==
    ASSUME IInv, RunInv,
           PauseScheduling \/ PauseAnew \/ \E ok \in BOOLEAN : ResumeScheduling(ok)
    PROVE  RunInv'
<1>0. /\ call \in [Starter -> Call] /\ svc \in Service /\ loaded \in Loaded
      /\ paused \in BOOLEAN /\ owed \in BOOLEAN
      /\ UNCHANGED <<import, tick>>
  BY DEF IInv, TypeInv, PauseScheduling, PauseAnew, ResumeScheduling, proxy
<1>1. \A c \in Starter : call'[c].pc = call[c].pc /\ call'[c].stale = call[c].stale
  BY <1>0, ReleasedFacts DEF PauseScheduling, PauseAnew, ResumeScheduling
<1>2. CASE PauseScheduling \/ PauseAnew
  <2>1. /\ paused' = TRUE
        /\ loaded' = [loaded EXCEPT !.held = @ \/ import = "done"]
        /\ svc' = IF import = "done" THEN SvcPause(svc) ELSE svc
    BY <1>0, <1>2 DEF PauseScheduling, PauseAnew, proxy
  <2>2. /\ loaded'.held = (loaded.held \/ import = "done") /\ loaded'.phase = loaded.phase
        /\ loaded'.up = loaded.up /\ loaded'.inFlight = loaded.inFlight
    <3>1. (loaded.held \/ import = "done") \in BOOLEAN
      OBVIOUS
    <3>q. QED BY <1>0, <2>1, <3>1 DEF Loaded
  <2>3. CASE import = "done"
    <3>1. /\ svc'.paused /\ ~svc'.timer /\ svc'.stopped = svc.stopped
          /\ svc'.started = svc.started /\ svc'.superseded = svc.superseded
      BY <1>0, <2>1, <2>3, SvcPauseFacts, SvcPausedFacts
    <3>2. Pausing' /\ Stopping'
      BY <1>0, <1>1, <2>1, <2>2, <2>3, <3>1 DEF RunInv, Pausing, Stopping
    <3>3. Serving' /\ Arming'
      BY <1>0, <1>1, <2>1, <2>2, <3>1 DEF RunInv, Serving, Arming, Up
    <3>q. QED BY <3>2, <3>3 DEF RunInv
  <2>4. CASE import # "done"
    <3>1. /\ ~loaded'.held /\ ~svc.paused /\ svc' = svc /\ ~svc.started
          /\ \A c \in Starter : call[c].pc \notin Promised
      BY <2>1, <2>2, <2>4 DEF RunInv, Pausing, IInv, Early, Fresh, Promised
    <3>2. loaded.phase # "started"
      BY <3>1 DEF RunInv, Arming, Up
    <3>3. Pausing' /\ Stopping'
      BY <1>1, <2>2, <3>1, <3>2 DEF RunInv, Pausing, Stopping, Promised
    <3>4. Serving' /\ Arming'
      BY <1>1, <2>2, <3>1, <3>2 DEF Serving, Arming, Up, Promised, InService
    <3>q. QED BY <3>3, <3>4 DEF RunInv
  <2>q. QED BY <2>3, <2>4
<1>3. ASSUME NEW ok \in BOOLEAN, ResumeScheduling(ok) PROVE RunInv'
  <2>1. /\ ~paused' /\ owed' = ~ok
        /\ svc' = IF ok /\ Resumable THEN SvcResume(svc) ELSE svc
        /\ loaded' = IF ok /\ Resumable THEN [loaded EXCEPT !.held = FALSE] ELSE loaded
    BY <1>3 DEF ResumeScheduling
  <2>2. CASE ok /\ Resumable
    <3>1. /\ ~loaded'.held /\ loaded'.phase = loaded.phase
          /\ loaded'.up = loaded.up /\ loaded'.inFlight = loaded.inFlight
      BY <1>0, <2>1, <2>2 DEF Loaded
    <3>2. /\ ~svc'.paused /\ svc'.stopped = svc.stopped /\ svc'.started = svc.started
          /\ svc'.superseded = svc.superseded
          /\ svc.paused => svc'.timer = (svc.started /\ ~svc.stopped)
          /\ ~svc.paused => svc'.timer = svc.timer
      BY <1>0, <2>1, <2>2, SvcResumeFacts, SvcPausedFacts
    <3>3. Pausing' /\ Stopping' /\ Serving'
      BY <1>1, <2>1, <3>1, <3>2 DEF RunInv, Pausing, Stopping, Serving
    <3>4. Arming'
      BY <1>0, <1>1, <3>1, <3>2 DEF RunInv, Arming, Up
    <3>q. QED BY <3>3, <3>4 DEF RunInv
  <2>3. CASE ~(ok /\ Resumable)
    <3>1. svc' = svc /\ loaded' = loaded
      BY <2>1, <2>3
    <3>2. svc.paused /\ (loaded.up \/ loaded.inFlight) => owed'
      BY <2>1, <2>3 DEF RunInv, Pausing, Resumable
    <3>3. Pausing' /\ Stopping'
      BY <1>0, <1>1, <2>1, <3>1 DEF RunInv, Pausing, Stopping
    <3>4. Serving' /\ Arming'
      BY <1>0, <1>1, <3>1, <3>2 DEF RunInv, Serving, Arming, Up
    <3>q. QED BY <3>3, <3>4 DEF RunInv
  <2>q. QED BY <2>2, <2>3
<1>q. QED BY <1>2, <1>3

-----------------------------------------------------------------------------
\* The inductive invariant of the lazy proxy and the service behind it.
THEOREM CronInvariant == Spec => []IInv
<1>1. Init => IInv
  <2>1. ASSUME Init PROVE TypeInv /\ Owning /\ Counted
    BY <2>1, CronAssumption, IdleFacts
       DEF Init, TypeInv, Owning, Counted, Loaded, Tick, Service, Phase, Promised, InService
  <2>2. ASSUME Init PROVE Early /\ Outdating /\ Joins /\ Halting /\ Handing
    BY <2>2, IdleFacts DEF Init, Early, Outdating, Joins, Halting, Handing, Fresh
  <2>q. QED BY <2>1, <2>2 DEF IInv
<1>2. IInv /\ [Next]_vars => IInv'
  <2> SUFFICES ASSUME IInv, [Next]_vars PROVE IInv'
    OBVIOUS
  <2>1. CASE \E c \in Starter : Start(c)
    BY <2>1, StepStart
  <2>2. CASE \E c \in Starter : StartLoaded(c) \/ Joined(c)
    BY <2>2, StepWaited
  <2>3. CASE \E c \in Starter : Proceed(c)
    BY <2>3, StepProceed
  <2>4. CASE \E c \in Starter, ok \in BOOLEAN : Repair(c, ok) \/ CatchUp(c, ok)
    BY <2>4, StepService
  <2>15. CASE \E c \in Starter, ok \in BOOLEAN : Tail(c, ok)
    BY <2>15, StepTail
  <2>5. CASE \E c \in Starter, ok \in BOOLEAN : Reconciled(c, ok)
    BY <2>5, StepReconciled
  <2>6. CASE \E c \in Starter, ok \in BOOLEAN : CleanedUp(c, ok)
    BY <2>6, StepCleanedUp
  <2>7. CASE \E d \in Drainer, preserve \in BOOLEAN : StopAndDrain(d, preserve)
    BY <2>7, StepStopAndDrain
  <2>8. CASE \E d \in Drainer : DrainLoaded(d) \/ Drained(d)
    BY <2>8, StepDrain
  <2>9. CASE Use \/ \E ok \in BOOLEAN : Import(ok)
    BY <2>9, StepImport
  <2>10. CASE PauseScheduling \/ PauseAnew \/ \E ok \in BOOLEAN : ResumeScheduling(ok)
    BY <2>10, StepPause
  <2>11. CASE Stop
    BY <2>11, StepStop
  <2>12. CASE Tidy
    BY <2>12, StepTidy
  <2>13. CASE TickFires \/ TickAdmitted \/ TickRefused \/ TickEnds
    BY <2>13, StepTick
  <2>14. CASE UNCHANGED vars
    <3>1. UNCHANGED <<import, stopped, paused, owed, handed, handoff, tidy, loaded, svc,
                      call, drain, tick>>
      BY <2>14 DEF vars, proxy
    <3>2. Calls'
      BY <3>1, CallUnchanged
    <3>3. TypeInv'
      BY <3>1 DEF IInv, TypeInv
    <3>4. Counted' /\ Early' /\ Halting' /\ Handing'
      BY <3>1 DEF IInv, Counted, Early, Halting, Handing, Fresh
    <3>q. QED BY <3>2, <3>3, <3>4 DEF IInv, Calls
  <2>q. QED
    BY <2>1, <2>2, <2>3, <2>4, <2>5, <2>6, <2>7, <2>8, <2>9, <2>10, <2>11, <2>12, <2>13, <2>14,
       <2>15
       DEF Next, Step
<1>q. QED BY <1>1, <1>2, PTL DEF Spec

\* The types of the proxy's, the service's and the calls' state, and that the
\* starts in progress are never more than the calls.
THEOREM TypeCorrect == Spec => []TypeOK
<1>1. IInv => TypeOK
  <2> SUFFICES ASSUME IInv PROVE TypeOK
    OBVIOUS
  <2>1. svc.starts <= Cardinality(Starter)
    <3>1. Cardinality(Starter) \in Nat /\ (Cardinality(Starter) = 0 <=> Starter = {})
      BY CronAssumption, FS_CardinalityType, FS_EmptySet
    <3>q. QED BY <3>1 DEF IInv, Counted
  <2>2. {stopped, paused, owed, handed, handoff, tidy} \subseteq BOOLEAN
    BY Zenon DEF IInv, TypeInv
  <2>q. QED BY <2>1, <2>2 DEF IInv, TypeInv, TypeOK
<1>q. QED BY <1>1, CronInvariant, PTL

\* A stop that nothing followed leaves no timer and no started scheduler, with
\* every number of overlapping starts and drains.
THEOREM StopIsFinal == Spec => []StoppedIsQuiet
<1>1. IInv => StoppedIsQuiet
  BY DEF IInv, Halting, Fresh, StoppedIsQuiet
<1>q. QED BY <1>1, CronInvariant, PTL

\* The service is handed one start at a time, with every number of overlapping
\* starts and drains.
THEOREM StartsAreSerial == Spec => []OneStart
<1>1. IInv => OneStart
  BY DEF IInv, Counted, OneStart
<1>q. QED BY <1>1, CronInvariant, PTL

\* The second inductive invariant: the service is paused exactly as the proxy
\* holds it, an outdated start is in a stopped service, and a scheduler that runs
\* is paused by somebody who will resume it, or is about to wake up.
THEOREM RunInvariant == Spec => []RunInv
<1>1. Init => RunInv
  <2> SUFFICES ASSUME Init PROVE RunInv
    OBVIOUS
  <2>1. \A c \in Starter : call[c].pc = "idle"
    BY IdleFacts DEF Init
  <2>2. ~svc.paused /\ ~loaded.held /\ loaded.phase = "idle"
    BY DEF Init
  <2>q. QED BY <2>1, <2>2
            DEF RunInv, Pausing, Stopping, Serving, Arming, Up, Promised, InService
<1>2. IInv /\ RunInv /\ [Next]_vars => RunInv'
  <2> SUFFICES ASSUME IInv, RunInv, [Next]_vars PROVE RunInv'
    OBVIOUS
  <2>1. CASE UNCHANGED vars
    BY <2>1, OthersKeep DEF vars, proxy
  <2>q. QED BY <2>1, RunTick, RunStart, RunImport, RunWaited, RunProceed, RunService,
               RunTail, RunReconciled, RunStop, RunPause DEF Next, Step
<1>q. QED BY <1>1, <1>2, CronInvariant, PTL DEF Spec

\* PausedIsQuiet: under a pause without blockers, as a prepared suspension
\* requires, no timer is armed and no start is in the service (pauseScheduling
\* and getSuspensionBlockerCount of the proxy).
THEOREM PauseIsQuiet == Spec => []PausedIsQuiet
<1>1. IInv /\ RunInv => PausedIsQuiet
  <2> SUFFICES ASSUME IInv, RunInv, paused, Blockers = 0, loaded.phase = "idle" => loaded.held
               PROVE  ~svc.timer /\ \A c \in Starter : call[c].pc \notin InService
    BY DEF PausedIsQuiet
  <2> DEFINE R == {c \in Starter : call[c].pc = "reconcile"}
             own == svc.starts + Cardinality(R)
  <2>1. Cardinality(R) \in Nat /\ svc.starts \in Nat
    <3>1. IsFiniteSet(R)
      BY CronAssumption, FS_Subset
    <3>q. QED BY <3>1, FS_CardinalityType DEF IInv, TypeInv, Service
  <2>2. Blockers = IF loaded.phase = "starting" /\ own = 0 THEN 1 ELSE own
    BY DEF Blockers
  <2> HIDE DEF R
  <2>3. svc.starts = 0 /\ loaded.phase # "starting"
    BY <2>1, <2>2
  <2>4. \A c \in Starter : call[c].pc \notin InService
    BY <2>3 DEF IInv, Counted
  <2>5. ~svc.timer
    <3>1. loaded.phase \in {"idle", "started", "stopped"}
      BY <2>3 DEF IInv, TypeInv, Loaded, Phase
    <3>2. CASE loaded.phase = "stopped"
      BY <3>2 DEF RunInv, Stopping, IInv, Halting
    <3>3. CASE loaded.phase \in {"idle", "started"}
      BY <3>3 DEF RunInv, Pausing
    <3>q. QED BY <3>1, <3>2, <3>3
  <2>q. QED BY <2>4, <2>5
<1>q. QED BY <1>1, CronInvariant, RunInvariant, PTL

\* ResumedIsArmed: every interleaving of pause, resume and start ends with a
\* timer that is armed or a tick that will arm it (resumeScheduling, armTimer).
THEOREM ResumeArms == Spec => []ResumedIsArmed
<1>1. RunInv => ResumedIsArmed
  BY DEF RunInv, Arming, Up, ResumedIsArmed
<1>q. QED BY <1>1, RunInvariant, PTL
=============================================================================
