------------------------- MODULE SuspendLeasesProofs -------------------------
(***************************************************************************)
(* Proofs about the admission gate, for any number of chains, roots and    *)
(* generations and for holders that use any lease they ever had.           *)
(***************************************************************************)
EXTENDS SuspendLeases, WorkAdmissionProofs

\* The strengthening of HolderAgrees: the phase, the callback and the current
\* generation go together.
LeaseInv ==
    /\ adm.guarded <=> adm.phase # "accepting"
    /\ adm.phase # "accepting" => adm.suspendGen \in Generation
    /\ HolderAgrees

GateType == /\ AdmType
            /\ leases \in [Generation -> Held \cup {"none", "over"}]

GateInv == GateType /\ LeaseInv /\ NoStrandedWaiter /\ DrainSupersedes

-----------------------------------------------------------------------------
\* Root work touches the gate only by parking a chain behind a closure that can be lifted.
LEMMA WorkKeepsGate ==
    ASSUME GateInv, WorkStep, UNCHANGED <<leases, signals>>
    PROVE  GateInv'
<1>1. \/ adm' = adm
      \/ \E c \in Chain : /\ adm' = [adm EXCEPT !.waiters = @ \cup {c}]
                          /\ Closed(adm) /\ ~adm.draining
  BY WorkAtGate DEF GateInv, GateType
<1>2. CASE adm' = adm
  BY <1>2 DEF GateInv, GateType, AdmType, Admission, LeaseInv, HolderAgrees, NoStrandedWaiter,
              DrainSupersedes, Closed
<1>3. ASSUME NEW c \in Chain, adm' = [adm EXCEPT !.waiters = @ \cup {c}],
             Closed(adm), ~adm.draining
      PROVE  GateInv'
  BY <1>3 DEF GateInv, GateType, AdmType, Admission, LeaseInv, HolderAgrees, NoStrandedWaiter,
              DrainSupersedes, Closed
<1> QED BY <1>1, <1>2, <1>3

-----------------------------------------------------------------------------
(* The gate's own steps.                                                   *)

\* The gate begins open, without lease, fence or waiter.
LEMMA GateInit == Init => GateInv
<1> SUFFICES ASSUME Init PROVE GateInv
  OBVIOUS
<1>1. adm = [draining |-> FALSE, signal |-> FALSE, signalGen |-> 0, phase |-> "accepting",
             suspendGen |-> 0, guarded |-> FALSE, waiters |-> {}]
  BY DEF Init, AdmInit
<1>2. leases = [g \in Generation |-> "none"]
  BY DEF Init
<1>3. AdmType
  BY <1>1 DEF AdmType, Admission, Phases
<1>4. GateType
  BY <1>2, <1>3 DEF GateType
<1>5. LeaseInv /\ NoStrandedWaiter /\ DrainSupersedes
  BY <1>1, <1>2 DEF LeaseInv, HolderAgrees, NoStrandedWaiter, DrainSupersedes, Held
<1> QED BY <1>4, <1>5 DEF GateInv

\* tryBegin hands out a new generation, and only while the gate is open.
LEMMA TryBeginKeeps == GateInv /\ TryBegin => GateInv'
<1> SUFFICES ASSUME GateInv, TryBegin PROVE GateInv'
  OBVIOUS
<1>0. PICK n \in Nat, m \in Nat : n = adm.suspendGen + 1 /\ m = adm.signalGen + 1
  BY DEF GateInv, GateType, AdmType, Admission
<1>1. /\ adm' = [adm EXCEPT !.phase = "preparing", !.suspendGen = n, !.guarded = TRUE]
      /\ ~Closed(adm) /\ adm.suspendGen < MaxGeneration
      /\ leases' = [leases EXCEPT ![n] = "preparing"]
  BY <1>0 DEF TryBegin, CanSuspend, Suspend, GateInv, GateType, AdmType, Admission
<1>2. n \in Generation
  BY <1>0, <1>1, AdmissionAssumption DEF GateInv, GateType, AdmType, Admission, Generation
<1>3. adm.waiters = {} /\ ~adm.draining /\ adm.phase = "accepting"
  BY <1>1 DEF GateInv, NoStrandedWaiter, Closed
<1>4. AdmType'
  BY <1>1 DEF GateInv, GateType, AdmType, Admission, Phases
<1>5. GateType'
  BY <1>1, <1>2, <1>4 DEF GateInv, GateType, Held
<1>6. LeaseInv' /\ NoStrandedWaiter' /\ DrainSupersedes'
  BY <1>1, <1>2, <1>3 DEF GateInv, GateType, AdmType, Admission, LeaseInv, HolderAgrees,
     NoStrandedWaiter, DrainSupersedes, Closed, Held
<1> QED BY <1>5, <1>6 DEF GateInv

\* A method of a lease acts for the holder of the current generation only; for the others
\* it does nothing.
LEMMA UseKeeps ==
    ASSUME NEW g \in Generation, NEW froms \in SUBSET Held,
           NEW to \in {"accepting", "draining", "prepared"},
           GateInv, Use(g, froms, to)
    PROVE  GateInv'
<1>1. CASE UNCHANGED <<adm, leases>>
  BY <1>1 DEF GateInv, GateType, AdmType, Admission, LeaseInv, HolderAgrees, NoStrandedWaiter,
              DrainSupersedes, Closed
<1>2. CASE /\ \E from \in froms : CanMove(adm, g, from)
           /\ adm' = Move(adm, to)
           /\ leases' = [leases EXCEPT ![g] = IF to = "accepting" THEN "over" ELSE to]
  <2>1. adm.suspendGen = g /\ adm.phase # "accepting" /\ ~adm.draining
    BY <1>2 DEF CanMove, Held, GateInv, DrainSupersedes
  <2>2. CASE to = "accepting"
    <3>1. /\ adm' = [adm EXCEPT !.phase = "accepting", !.guarded = FALSE, !.waiters = {}]
          /\ leases' = [leases EXCEPT ![g] = "over"]
      BY <1>2, <2>2 DEF Move, ResolveWaiters, GateInv, GateType, AdmType, Admission
    <3> QED BY <2>1, <3>1 DEF GateInv, GateType, AdmType, Admission, LeaseInv, HolderAgrees,
               NoStrandedWaiter, DrainSupersedes, Closed, Held, Phases
  <2>3. CASE to # "accepting"
    <3>1. /\ adm' = [adm EXCEPT !.phase = to] /\ leases' = [leases EXCEPT ![g] = to]
      BY <1>2, <2>3 DEF Move
    <3> QED BY <2>1, <2>3, <3>1 DEF GateInv, GateType, AdmType, Admission, LeaseInv, HolderAgrees,
               NoStrandedWaiter, DrainSupersedes, Closed, Held, Phases
  <2> QED BY <2>2, <2>3
<1> QED BY <1>1, <1>2 DEF Use

\* The drain ends the suspension and the fence, tells their holders, and wakes all who wait.
LEMMA MarkDrainingKeeps == GateInv /\ MarkDraining => GateInv'
<1> SUFFICES ASSUME GateInv, MarkDraining PROVE GateInv'
  OBVIOUS
<1>0. PICK n \in Nat, m \in Nat : n = adm.suspendGen + 1 /\ m = adm.signalGen + 1
  BY DEF GateInv, GateType, AdmType, Admission
<1>1. CASE adm.phase # "accepting"
  <2>1. /\ adm' = [adm EXCEPT !.signal = FALSE, !.signalGen = m, !.draining = TRUE,
                              !.waiters = {}, !.phase = "accepting", !.guarded = FALSE,
                              !.suspendGen = n]
        /\ leases' = [leases EXCEPT ![adm.suspendGen] = "over"]
    BY <1>0, <1>1 DEF MarkDraining, Drain, Invalidate, ResolveWaiters, ToldInvalid,
       GateInv, GateType, AdmType, Admission, LeaseInv
  <2>2. AdmType'
    BY <1>1, <2>1 DEF GateInv, GateType, AdmType, Admission, Phases
  <2>3. GateType'
    BY <2>1, <2>2 DEF GateInv, GateType, Held
  <2>4. LeaseInv' /\ NoStrandedWaiter' /\ DrainSupersedes'
    BY <1>1, <2>1 DEF GateInv, GateType, AdmType, Admission, LeaseInv, HolderAgrees,
       NoStrandedWaiter, DrainSupersedes, Closed, Held
  <2> QED BY <2>3, <2>4 DEF GateInv
<1>2. CASE adm.phase = "accepting"
  <2>1. /\ adm' = [adm EXCEPT !.signal = FALSE, !.signalGen = m, !.draining = TRUE,
                              !.waiters = {}]
        /\ leases' = leases
    BY <1>0, <1>2 DEF MarkDraining, Drain, ResolveWaiters, GateInv, GateType, AdmType, Admission
  <2>2. AdmType'
    BY <1>2, <2>1 DEF GateInv, GateType, AdmType, Admission, Phases
  <2>3. GateType'
    BY <2>1, <2>2 DEF GateInv, GateType, Held
  <2>4. LeaseInv' /\ NoStrandedWaiter' /\ DrainSupersedes'
    BY <1>2, <2>1 DEF GateInv, GateType, AdmType, Admission, LeaseInv, HolderAgrees,
       NoStrandedWaiter, DrainSupersedes, Closed, Held
  <2> QED BY <2>3, <2>4 DEF GateInv
<1> QED BY <1>1, <1>2

\* Raising, rolling back and forcing open the fence leave the lease of a suspension alone.
LEMMA FenceKeeps ==
    GateInv /\ (RaiseFence \/ ForceFenceOpen \/ \E g \in Generation : RollbackFence(g))
      => GateInv'
<1>1. GateInv /\ RaiseFence => GateInv'
  <2> SUFFICES ASSUME GateInv, RaiseFence PROVE GateInv'
    OBVIOUS
  <2>0. PICK m \in Nat : m = adm.signalGen + 1
    BY DEF GateInv, GateType, AdmType, Admission
  <2>1. /\ adm' = [adm EXCEPT !.signal = TRUE, !.signalGen = m]
        /\ ~adm.draining /\ leases' = leases
    BY <2>0 DEF RaiseFence, BeginSignal, CanBeginSignal
  <2>2. AdmType'
    BY <2>1 DEF GateInv, GateType, AdmType, Admission, Phases
  <2>3. GateType'
    BY <2>1, <2>2 DEF GateInv, GateType, Held
  <2>4. LeaseInv' /\ NoStrandedWaiter' /\ DrainSupersedes'
    BY <2>1 DEF GateInv, GateType, AdmType, Admission, LeaseInv, HolderAgrees,
       NoStrandedWaiter, DrainSupersedes, Closed, Held
  <2> QED BY <2>3, <2>4 DEF GateInv
<1>2. ASSUME GateInv, adm' = ClearFence(adm), CanClearFence(adm), leases' = leases
      PROVE  GateInv'
  <2>0. PICK m \in Nat : m = adm.signalGen + 1
    BY <1>2 DEF GateInv, GateType, AdmType, Admission
  <2>1. /\ adm' = [adm EXCEPT !.signal = FALSE, !.signalGen = m, !.waiters = {}]
        /\ ~adm.draining
    BY <1>2, <2>0 DEF ClearFence, CanClearFence, ResolveWaiters, GateInv, GateType, AdmType, Admission
  <2>2. AdmType'
    BY <1>2, <2>1 DEF GateInv, GateType, AdmType, Admission, Phases
  <2>3. GateType'
    BY <1>2, <2>1, <2>2 DEF GateInv, GateType, Held
  <2>4. LeaseInv' /\ NoStrandedWaiter' /\ DrainSupersedes'
    BY <1>2, <2>1 DEF GateInv, GateType, AdmType, Admission, LeaseInv, HolderAgrees,
       NoStrandedWaiter, DrainSupersedes, Closed, Held
  <2> QED BY <2>3, <2>4 DEF GateInv
<1> QED BY <1>1, <1>2 DEF ForceFenceOpen, RollbackFence

\* reset retires the lease and the fence, and wakes all who wait, without handing out a lease.
LEMMA ResetKeeps == GateInv /\ Reset => GateInv'
<1> SUFFICES ASSUME GateInv, Reset PROVE GateInv'
  OBVIOUS
<1>0. PICK n \in Nat, m \in Nat : n = adm.suspendGen + 1 /\ m = adm.signalGen + 1
  BY DEF GateInv, GateType, AdmType, Admission
<1>1. CASE adm.phase # "accepting"
  <2>1. /\ adm' = [adm EXCEPT !.draining = FALSE, !.signal = FALSE, !.signalGen = m,
                              !.waiters = {}, !.phase = "accepting", !.guarded = FALSE,
                              !.suspendGen = n]
        /\ leases' = [leases EXCEPT ![adm.suspendGen] = "over"]
    BY <1>0, <1>1 DEF Reset, Reopen, Invalidate, ResolveWaiters, ToldInvalid,
       GateInv, GateType, AdmType, Admission, LeaseInv
  <2>2. AdmType'
    BY <1>1, <2>1 DEF GateInv, GateType, AdmType, Admission, Phases
  <2>3. GateType'
    BY <2>1, <2>2 DEF GateInv, GateType, Held
  <2>4. LeaseInv' /\ NoStrandedWaiter' /\ DrainSupersedes'
    BY <1>1, <2>1 DEF GateInv, GateType, AdmType, Admission, LeaseInv, HolderAgrees,
       NoStrandedWaiter, DrainSupersedes, Closed, Held
  <2> QED BY <2>3, <2>4 DEF GateInv
<1>2. CASE adm.phase = "accepting"
  <2>1. /\ adm' = [adm EXCEPT !.draining = FALSE, !.signal = FALSE, !.signalGen = m,
                              !.waiters = {}, !.guarded = FALSE, !.suspendGen = n]
        /\ leases' = leases
    BY <1>0, <1>2 DEF Reset, Reopen, ResolveWaiters, GateInv, GateType, AdmType, Admission
  <2>2. AdmType'
    BY <1>2, <2>1 DEF GateInv, GateType, AdmType, Admission, Phases
  <2>3. GateType'
    BY <2>1, <2>2 DEF GateInv, GateType, Held
  <2>4. LeaseInv' /\ NoStrandedWaiter' /\ DrainSupersedes'
    BY <1>2, <2>1 DEF GateInv, GateType, AdmType, Admission, LeaseInv, HolderAgrees,
       NoStrandedWaiter, DrainSupersedes, Closed, Held
  <2> QED BY <2>3, <2>4 DEF GateInv
<1> QED BY <1>1, <1>2

\* The gate's invariant holds of every behaviour.
THEOREM GateInvariant == Spec => []GateInv
<1>1. Init => GateInv
  BY GateInit
<1>2. GateInv /\ [Next]_vars => GateInv'
  <2> SUFFICES ASSUME GateInv, [Next]_vars PROVE GateInv'
    OBVIOUS
  <2>1. CASE WorkStep /\ UNCHANGED <<leases, signals>>
    BY <2>1, WorkKeepsGate
  <2>2. CASE TryBegin
    BY <2>2, TryBeginKeeps
  <2>3. CASE MarkDraining
    BY <2>3, MarkDrainingKeeps
  <2>4. CASE RaiseFence \/ ForceFenceOpen \/ \E g \in Generation : RollbackFence(g)
    BY <2>4, FenceKeeps
  <2>5. CASE Reset
    BY <2>5, ResetKeeps
  <2>6. ASSUME NEW g \in Generation,
               StartDraining(g) \/ Commit(g) \/ Rollback(g) \/ GiveBack(g)
        PROVE  GateInv'
    <3>1. CASE StartDraining(g)
      BY <3>1, UseKeeps DEF StartDraining, Held
    <3>2. CASE Commit(g)
      BY <3>2, UseKeeps DEF Commit, Held
    <3>3. CASE Rollback(g)
      BY <3>3, UseKeeps DEF Rollback, Held
    <3>4. CASE GiveBack(g)
      BY <3>4, UseKeeps DEF GiveBack, Held
    <3> QED BY <2>6, <3>1, <3>2, <3>3, <3>4
  <2>7. CASE UNCHANGED vars
    BY <2>7 DEF vars, GateInv, GateType, AdmType, Admission, LeaseInv, HolderAgrees,
       NoStrandedWaiter, DrainSupersedes, Closed
  <2> QED BY <2>1, <2>2, <2>3, <2>4, <2>5, <2>6, <2>7 DEF Next, GateStep
<1> QED BY <1>1, <1>2, PTL DEF Spec

\* The holder of a suspend lease is never deceived about it (the transition
\* closure of tryBeginGatewaySuspendAdmission and its callback).
THEOREM HoldersAgree == Spec => []HolderAgrees
<1>1. GateInv => HolderAgrees
  BY DEF GateInv, LeaseInv
<1> QED BY <1>1, GateInvariant, PTL

\* No transition of the gate leaves a parked chain behind
\* (resolveSuspendOpenWaiters).
THEOREM NobodyStranded == Spec => []NoStrandedWaiter
<1>1. GateInv => NoStrandedWaiter
  BY DEF GateInv
<1> QED BY <1>1, GateInvariant, PTL

\* The one-way drain takes over whatever closed the gate
\* (markGatewayRestartDraining).
THEOREM DrainTakesOver == Spec => []DrainSupersedes
<1>1. GateInv => DrainSupersedes
  BY DEF GateInv
<1> QED BY <1>1, GateInvariant, PTL

-----------------------------------------------------------------------------
(* The counts of root work.                                                *)

\* The invariant of root work holds of every behaviour.
THEOREM WorkInvariant == Spec => []WorkInv
<1>1. WorkInv /\ [Next]_vars => WorkInv'
  <2> SUFFICES ASSUME WorkInv, [Next]_vars PROVE WorkInv'
    OBVIOUS
  <2>1. CASE WorkStep
    BY <2>1, WorkStepCounts
  <2>2. CASE Reset
    BY <2>2, RetireCounts DEF Reset
  <2>3. CASE UNCHANGED workVars
    BY <2>3, WorkStands
  <2> QED BY <2>1, <2>2, <2>3
          DEF Next, GateStep, TryBegin, StartDraining, Commit, Rollback, GiveBack, Use,
              MarkDraining, RaiseFence, RollbackFence, ForceFenceOpen, vars, workVars
<1>2. Init => WorkInv
  BY WorkInitCounts DEF Init
<1> QED BY <1>1, <1>2, PTL DEF Spec

\* A root is active exactly while a handle of it is unused, for any number of
\* chains, roots and scopes (createGatewayRootWorkRelease, reset).
THEOREM WorkIsCounted == Spec => []ReferencesCounted
<1>1. WorkInv => ReferencesCounted
  BY DEF WorkInv
<1> QED BY <1>1, WorkInvariant, PTL

\* The gate, the work and the leases are well typed in every reachable state.
THEOREM TypeCorrect == Spec => []TypeOK
<1> DEFINE Signals == signals \in SUBSET Generation
<1>1. Init => Signals
  BY DEF Init
<1>2. GateInv /\ Signals /\ [Next]_vars => Signals'
  <2> SUFFICES ASSUME GateInv, Signals, [Next]_vars PROVE Signals'
    OBVIOUS
  <2>1. CASE RaiseFence
    <3>1. adm.signalGen \in Nat /\ adm.signalGen < MaxGeneration /\ adm \in Admission
      BY <2>1 DEF RaiseFence, GateInv, GateType, AdmType, Admission
    <3>2. adm'.signalGen = adm.signalGen + 1
      BY <2>1, <3>1 DEF RaiseFence, BeginSignal, Admission
    <3>3. adm'.signalGen \in Generation
      BY <3>1, <3>2, AdmissionAssumption DEF Generation
    <3> QED BY <2>1, <3>3 DEF RaiseFence
  <2>2. CASE UNCHANGED signals
    BY <2>2
  <2> QED BY <2>1, <2>2
          DEF Next, GateStep, TryBegin, StartDraining, Commit, Rollback, GiveBack, Use,
              MarkDraining, Reset, RollbackFence, ForceFenceOpen, vars
<1>3. Spec => []Signals
  BY <1>1, <1>2, GateInvariant, PTL DEF Spec
<1>4. GateInv /\ WorkInv /\ Signals => TypeOK
  BY DEF GateInv, GateType, WorkInv, TypeOK
<1> QED BY <1>3, <1>4, GateInvariant, WorkInvariant, PTL
=============================================================================
