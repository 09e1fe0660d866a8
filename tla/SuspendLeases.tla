---------------------------- MODULE SuspendLeases ----------------------------
(***************************************************************************)
(* The admission gate under holders that may call any method of any lease  *)
(* they ever got, in any order: the suspend leases of                      *)
(* tryBeginGatewaySuspendAdmission and the restart-signal leases of        *)
(* beginGatewayRestartSignalAdmission (gateway-work-admission.ts 193-246,  *)
(* 450-512).  A lease is named by its generation.                          *)
(***************************************************************************)
EXTENDS WorkAdmission

VARIABLES leases,   \* what the holder of each suspend lease was last told
          signals   \* the generations of the restart-signal leases given out

vars == <<adm, workVars, leases, signals>>

Generation == 1 .. MaxGeneration
Held == {"preparing", "draining", "prepared"}

Init == /\ AdmInit /\ WorkInit
        /\ leases = [g \in Generation |-> "none"]
        /\ signals = {}

\* The suspendInvalidated callback, when one is registered.
ToldInvalid == IF adm.guarded THEN [leases EXCEPT ![adm.suspendGen] = "over"] ELSE leases

TryBegin ==
    /\ adm.suspendGen < MaxGeneration /\ CanSuspend(adm)
    /\ adm' = Suspend(adm)
    /\ leases' = [leases EXCEPT ![adm'.suspendGen] = "preparing"]
    /\ UNCHANGED <<workVars, signals>>

\* One method of lease g: it tries its transitions in order, and returns false
\* when the gate is in none of their first phases or past generation g.
Use(g, froms, to) ==
    /\ leases[g] # "none"
    /\ IF \E from \in froms : CanMove(adm, g, from)
       THEN /\ adm' = Move(adm, to)
            /\ leases' = [leases EXCEPT ![g] = IF to = "accepting" THEN "over" ELSE to]
       ELSE UNCHANGED <<adm, leases>>
    /\ UNCHANGED <<workVars, signals>>

StartDraining(g) == Use(g, {"preparing"}, "draining")
Commit(g)        == Use(g, {"preparing", "draining"}, "prepared")
Rollback(g)      == Use(g, {"preparing"}, "accepting")
GiveBack(g)      == Use(g, {"draining", "prepared"}, "accepting")

MarkDraining ==
    /\ ~adm.draining /\ adm.signalGen < MaxGeneration
    /\ adm.phase # "accepting" => adm.suspendGen < MaxGeneration
    /\ adm' = Drain(adm)
    /\ leases' = IF adm.phase # "accepting" THEN ToldInvalid ELSE leases
    /\ UNCHANGED <<workVars, signals>>

RaiseFence ==
    /\ adm.signalGen < MaxGeneration /\ CanBeginSignal(adm)
    /\ adm' = BeginSignal(adm)
    /\ signals' = signals \cup {adm'.signalGen}
    /\ UNCHANGED <<workVars, leases>>

\* rollback() of the signal lease g.
RollbackFence(g) ==
    /\ g \in signals /\ adm.signalGen < MaxGeneration
    /\ adm.signal /\ adm.signalGen = g
    /\ CanClearFence(adm) /\ adm' = ClearFence(adm)
    /\ UNCHANGED <<workVars, leases, signals>>

\* rollbackGatewayRestartSignalFence, which needs no lease.
ForceFenceOpen ==
    /\ adm.signalGen < MaxGeneration /\ CanClearFence(adm)
    /\ adm' = ClearFence(adm)
    /\ UNCHANGED <<workVars, leases, signals>>

Reset ==
    /\ adm.signalGen < MaxGeneration /\ adm.suspendGen < MaxGeneration
    /\ RetireRoots
    /\ adm' = Reopen(adm)
    /\ leases' = IF adm.phase # "accepting" THEN ToldInvalid ELSE leases
    /\ UNCHANGED signals

GateStep ==
    \/ TryBegin \/ MarkDraining \/ RaiseFence \/ ForceFenceOpen \/ Reset
    \/ \E g \in Generation : \/ StartDraining(g) \/ Commit(g) \/ Rollback(g) \/ GiveBack(g)
                             \/ RollbackFence(g)

Next == GateStep \/ (WorkStep /\ UNCHANGED <<leases, signals>>)

Spec == Init /\ [][Next]_vars

-----------------------------------------------------------------------------
TypeOK ==
    /\ AdmType /\ WorkType
    /\ leases \in [Generation -> Held \cup {"none", "over"}]
    /\ signals \in SUBSET Generation

\* What a holder was told about its own lease is what the gate does: exactly
\* the holder of the current generation holds a phase, it is the phase it last
\* reached, and it is told when that ends.  A stale lease that still moved the
\* gate, or a restart that took it without the callback, breaks this.
HolderAgrees ==
    \A g \in Generation :
        /\ leases[g] \in Held <=> adm.phase # "accepting" /\ adm.suspendGen = g
        /\ leases[g] \in Held => leases[g] = adm.phase /\ adm.guarded
=============================================================================
