---------------------------- MODULE WorkAdmission ----------------------------
(***************************************************************************)
(* The process-wide admission gate of the gateway, as written in           *)
(* src/src/process/gateway-work-admission.ts: root work (requests, timer   *)
(* ticks, detached work) is counted, and new roots are refused or parked   *)
(* while a restart signal is pending, a restart drains, or the host holds  *)
(* a suspension.                                                           *)
(*                                                                         *)
(* JavaScript runs every function of that file to completion, so one call  *)
(* is one step.  What interleaves are the async chains: a chain that finds *)
(* the gate closed parks a resolver and tries again in a later microtask,  *)
(* when the gate may have closed a second time.                            *)
(*                                                                         *)
(* This module has the gate, the roots, the chains and the continuation    *)
(* scopes.  SuspendLeases adds holders that call their lease at will,      *)
(* GatewaySuspend the coordinator that the RPC methods use.                *)
(***************************************************************************)
EXTENDS Naturals, FiniteSets

CONSTANTS Chain,          \* async chains
          Root,           \* GatewayRootWorkAdmission records, each made once
          Scope,          \* continuation scopes
          Kind,           \* the ways of entering that the chains use
          MaxGeneration,  \* bound on the two generation counters
          NoRoot          \* the empty AsyncLocalStorage store

\* The exported ways of starting root work.
Entrances == {"request", "startup", "restart", "whenOpen",
              "independent", "continuation", "readmission"}

ASSUME AdmissionAssumption ==
    /\ NoRoot \notin Root
    /\ IsFiniteSet(Chain) /\ IsFiniteSet(Scope) /\ Chain \cap Scope = {}
    /\ Kind \subseteq Entrances
    /\ MaxGeneration \in Nat

VARIABLES adm,     \* restartDraining, restartSignalPending, the suspend phase,
                   \* both generations and suspendOpenWaiters
          roots,   \* the root records; origin is history, the root that a line
                   \* of continuations began with
          active,  \* activeRootWork
          chains,  \* what each chain is doing, its store and its lease
          scopes   \* continuation scopes

workVars == <<roots, active, chains, scopes>>

Phases == {"accepting", "preparing", "draining", "prepared"}
Fresh == [references |-> 0, released |-> FALSE, retired |-> FALSE, origin |-> NoRoot]

AdmInit == adm = [draining |-> FALSE, signal |-> FALSE, signalGen |-> 0,
                  phase |-> "accepting", suspendGen |-> 0,
                  guarded |-> FALSE, waiters |-> {}]
WorkInit ==
    /\ roots = [r \in Root |-> Fresh]
    /\ active = {}
    /\ chains = [c \in Chain |-> [pc |-> "idle", kind |-> "request", store |-> NoRoot,
                                  lease |-> NoRoot]]
    /\ scopes = [s \in Scope |-> [root |-> NoRoot, retained |-> FALSE, released |-> FALSE]]

-----------------------------------------------------------------------------
(* The gate, as functions from one admission state to the next.            *)

Closed(a) == a.draining \/ a.signal \/ a.phase # "accepting"

ResolveWaiters(a) == [a EXCEPT !.waiters = {}]

\* invalidateSuspendAdmission; the caller runs the owner's callback after it.
Invalidate(a) ==
    ResolveWaiters([a EXCEPT !.phase = "accepting", !.guarded = FALSE, !.suspendGen = @ + 1])

\* Fault: nobody is woken when the fence goes.
ClearFenceSilently(a) == [a EXCEPT !.signal = FALSE, !.signalGen = @ + 1]

CanClearFence(a) == a.signal /\ ~a.draining
ClearFence(a) == ResolveWaiters([a EXCEPT !.signal = FALSE, !.signalGen = @ + 1])

\* markGatewayRestartDraining: drain supersedes the fence and the suspension.
Drain(a) ==
    LET d == ResolveWaiters([a EXCEPT !.signal = FALSE, !.signalGen = @ + 1,
                                      !.draining = TRUE])
    IN  IF a.phase # "accepting" THEN Invalidate(d) ELSE d

\* Fault: the fence is raised behind a drain.
CanBeginSignalDraining(a) == ~a.signal

CanBeginSignal(a) == ~a.draining /\ ~a.signal
BeginSignal(a) == [a EXCEPT !.signal = TRUE, !.signalGen = @ + 1]

CanSuspend(a) == ~Closed(a)
Suspend(a) == [a EXCEPT !.phase = "preparing", !.suspendGen = @ + 1, !.guarded = TRUE]

\* Fault: a lease moves the phase whatever its generation.
CanMoveAnyGeneration(a, g, from) == a.phase = from

\* The transition closure of a suspend lease of generation g.
CanMove(a, g, from) == a.suspendGen = g /\ a.phase = from
Move(a, to) ==
    IF to = "accepting"
    THEN ResolveWaiters([a EXCEPT !.phase = to, !.guarded = FALSE])
    ELSE [a EXCEPT !.phase = to]

\* resetGatewayWorkAdmission, the part that concerns the gate.
Reopen(a) ==
    LET r == [a EXCEPT !.draining = FALSE, !.signal = FALSE, !.signalGen = @ + 1]
    IN  IF a.phase # "accepting" THEN Invalidate(r)
        ELSE ResolveWaiters([r EXCEPT !.suspendGen = @ + 1, !.guarded = FALSE])

-----------------------------------------------------------------------------
(* Root work.                                                              *)

Made == active \cup {r \in Root : roots[r].released}
Live(r) == IF r = NoRoot THEN FALSE ELSE ~roots[r].released
Retired(r) == IF r = NoRoot THEN FALSE ELSE roots[r].retired

\* Fault: the handle does not look whether its root was released meanwhile.
ReleasedAnyway(f, r) ==
    [f EXCEPT ![r].references = @ - 1, ![r].released = (f[r].references = 1)]

\* A release handle of root r is used for the first time.
Released(f, r) ==
    IF f[r].released THEN f
    ELSE [f EXCEPT ![r].references = @ - 1, ![r].released = (f[r].references = 1)]

Release(r) ==
    /\ roots' = Released(roots, r)
    /\ active' = IF roots'[r].released THEN active \ {r} ELSE active

\* Fault: the prepared restart does not ask for an idle gateway.
AdmitsAnyRestart(k, store) ==
    CASE k = "startup"      -> (adm.draining \/ adm.signal) /\ adm.phase = "accepting"
      [] k = "restart"      -> \/ ~Closed(adm)
                               \/ ~adm.draining /\ ~adm.signal /\ adm.phase = "prepared"
      [] k = "continuation" -> Live(store) \/ ~Closed(adm)
      [] OTHER              -> ~Closed(adm)

\* Whether the gate lets an attempt of kind k create a root of its own.
Admits(k, store) ==
    CASE k = "startup"      -> /\ adm.draining \/ adm.signal
                               /\ adm.phase = "accepting"
      [] k = "restart"      -> \/ ~Closed(adm)
                               \/ /\ ~adm.draining /\ ~adm.signal
                                  /\ adm.phase = "prepared" /\ active = {}
      [] k = "continuation" -> Live(store) \/ ~Closed(adm)
      [] OTHER              -> ~Closed(adm)

\* The chain joins the root of its own chain instead of making one.
Joins(k, store) ==
    \/ k \in {"request", "restart", "whenOpen"} /\ Live(store)
    \/ k = "readmission" /\ ~Retired(store)

\* whenOpen and the independent loop, which the last two kinds fall back to,
\* park; the others are answered at once.
Parks(k) == k \in {"whenOpen", "independent", "continuation", "readmission"}

\* The loops test the drain before anything else, a reserved continuation and
\* work that keeps its root never reach them.
FailsDraining(k, store) ==
    /\ adm.draining
    /\ \/ k \in {"whenOpen", "independent"}
       \/ k = "continuation" /\ ~Live(store)
       \/ k = "readmission" /\ ~Joins(k, store)

\* A parked chain goes on in the loop it parked in.
LoopOf(k) == IF k = "whenOpen" THEN "whenOpen" ELSE "independent"

Attempt(c, k, store) ==
    LET now(pc, current, lease) ==
            chains' = [chains EXCEPT ![c] = [pc |-> pc, kind |-> k, store |-> current,
                                             lease |-> lease]]
    IN  \/ /\ FailsDraining(k, store)
           /\ now("refused", store, NoRoot)
           /\ UNCHANGED <<adm, roots, active>>
        \/ /\ ~FailsDraining(k, store) /\ Joins(k, store)
           /\ now("running", store, NoRoot)
           /\ UNCHANGED <<adm, roots, active>>
        \/ /\ ~FailsDraining(k, store) /\ ~Joins(k, store) /\ Admits(k, store)
           /\ \E r \in Root \ Made :
                /\ roots' = [roots EXCEPT ![r].references = 1,
                       ![r].origin = IF k = "continuation" /\ Live(store)
                                     THEN roots[store].origin ELSE r]
                /\ active' = active \cup {r}
                /\ now("running", r, r)
           /\ UNCHANGED adm
        \/ /\ ~FailsDraining(k, store) /\ ~Joins(k, store) /\ ~Admits(k, store)
           /\ IF Parks(k)
              THEN /\ chains' = [chains EXCEPT ![c] =
                          [pc |-> "waiting", kind |-> LoopOf(k), store |-> store,
                           lease |-> NoRoot]]
                   /\ adm' = [adm EXCEPT !.waiters = @ \cup {c}]
              ELSE now("refused", store, NoRoot) /\ UNCHANGED adm
           /\ UNCHANGED <<roots, active>>

\* A chain starts: from outside, or with the store of a chain that may be over.
Call(c, k, store) ==
    /\ chains[c].pc = "idle" /\ store \in {NoRoot} \cup Made
    /\ Attempt(c, k, store)
    /\ UNCHANGED scopes

\* The continuation of a resolved waiter runs and goes round its loop.
Retry(c) ==
    /\ chains[c].pc = "waiting" /\ c \notin adm.waiters
    /\ Attempt(c, chains[c].kind, chains[c].store)
    /\ UNCHANGED scopes

\* The chain's work is over: release() in its finally.
Finish(c) ==
    /\ chains[c].pc = "running"
    /\ chains' = [chains EXCEPT ![c].pc = "done"]
    /\ IF chains[c].lease = NoRoot THEN UNCHANGED <<roots, active>>
       ELSE Release(chains[c].lease)
    /\ UNCHANGED <<adm, scopes>>

\* A running chain captures (or retains) the root it runs under.
Capture(c, s, retain) ==
    LET current == chains[c].store
    IN  /\ chains[c].pc = "running" /\ scopes[s].root = NoRoot
        /\ Live(current) /\ current \in active
        /\ scopes' = [scopes EXCEPT ![s] = [root |-> current, retained |-> retain,
                                            released |-> FALSE]]
        /\ roots' = IF retain THEN [roots EXCEPT ![current].references = @ + 1] ELSE roots
        /\ UNCHANGED <<adm, active, chains>>

\* Fault: every release() of a retained scope counts.
ReleaseScopeEachTime(s) ==
    /\ scopes[s].root # NoRoot
    /\ scopes' = [scopes EXCEPT ![s].released = TRUE]
    /\ IF scopes[s].retained THEN Release(scopes[s].root) ELSE UNCHANGED <<roots, active>>
    /\ UNCHANGED <<adm, chains>>

\* release() of a scope, which may be called again.
ReleaseScope(s) ==
    /\ scopes[s].root # NoRoot
    /\ scopes' = [scopes EXCEPT ![s].released = TRUE]
    /\ IF scopes[s].retained /\ ~scopes[s].released
       THEN Release(scopes[s].root)
       ELSE UNCHANGED <<roots, active>>
    /\ UNCHANGED <<adm, chains>>

\* A chain enters a scope: it borrows a reference for the whole callback.
RunScope(c, s) ==
    LET r == scopes[s].root
        enters == ~scopes[s].released /\ ~roots[r].released /\ r \in active
    IN  /\ chains[c].pc = "idle" /\ r # NoRoot
        /\ chains' = [chains EXCEPT ![c] =
               IF enters THEN [@ EXCEPT !.pc = "running", !.store = r, !.lease = r]
               ELSE [@ EXCEPT !.pc = "refused"]]
        /\ roots' = IF enters THEN [roots EXCEPT ![r].references = @ + 1] ELSE roots
        /\ UNCHANGED <<adm, active, scopes>>

\* resetGatewayWorkAdmission, the part that concerns the roots.
RetireRoots ==
    /\ roots' = [r \in Root |->
           IF r \in active
           THEN [roots[r] EXCEPT !.references = 0, !.released = TRUE, !.retired = TRUE]
           ELSE roots[r]]
    /\ active' = {}
    /\ UNCHANGED <<chains, scopes>>

WorkStep ==
    \/ \E c \in Chain :
         \/ \E k \in Kind, store \in {NoRoot} \cup Root : Call(c, k, store)
         \/ Retry(c)
         \/ Finish(c)
         \/ \E s \in Scope : RunScope(c, s) \/ \E retain \in BOOLEAN : Capture(c, s, retain)
    \/ \E s \in Scope : ReleaseScope(s)

-----------------------------------------------------------------------------
(* What the gate and the roots promise, whoever holds the suspension.      *)

Admission == [draining : BOOLEAN, signal : BOOLEAN, signalGen : Nat,
              phase : Phases, suspendGen : Nat, guarded : BOOLEAN,
              waiters : SUBSET Chain]
AdmType == adm \in Admission

WorkType ==
    /\ roots \in [Root -> [references : Nat, released : BOOLEAN, retired : BOOLEAN,
                           origin : Root \cup {NoRoot}]]
    /\ active \in SUBSET Root
    /\ chains \in [Chain -> [pc : {"idle", "waiting", "running", "refused", "done"},
                             kind : Entrances, store : Root \cup {NoRoot},
                             lease : Root \cup {NoRoot}]]
    /\ scopes \in [Scope -> [root : Root \cup {NoRoot}, retained : BOOLEAN,
                             released : BOOLEAN]]

\* The release handles of root r that have not been used.
OpenHandles(r) ==
    {c \in Chain : chains[c].lease = r /\ chains[c].pc = "running"}
      \cup {s \in Scope : scopes[s].root = r /\ scopes[s].retained /\ ~scopes[s].released}

\* A root is counted as active work exactly as long as somebody still has to
\* release it: a double release, a release of a retired root or a forgotten
\* reference would let a suspension or a restart proceed over running work, or
\* block it for good (createGatewayRootWorkRelease, reset).
ReferencesCounted ==
    \A r \in Root :
        /\ r \in active <=> roots[r].references > 0
        /\ r \in active => /\ roots[r].references = Cardinality(OpenHandles(r))
                           /\ ~roots[r].released

\* Whoever is parked is parked for a reason that somebody will lift: every
\* transition that opens the gate, or that makes waiting pointless because the
\* drain is one-way, resolves the waiters (resolveSuspendOpenWaiters).
NoStrandedWaiter == adm.waiters # {} => Closed(adm) /\ ~adm.draining

\* The one-way drain takes over whatever closed the gate before it: no
\* suspension and no signal fence survives into it, where lifting them would
\* open the gate of a process that is going down (markGatewayRestartDraining).
DrainSupersedes == adm.draining => ~adm.signal /\ adm.phase = "accepting" /\ ~adm.guarded
=============================================================================
