--------------------------- MODULE MCCommandLanes ---------------------------
(***************************************************************************)
(* Instances of CommandLanes.  The lanes and publications of the gateway   *)
(* are those of applyGatewayLaneConcurrency (src/src/gateway/              *)
(* server-lanes.ts): the inner cron lane and the hook lane share the cron  *)
(* budget, one slot of it reserved for hooks.                              *)
(***************************************************************************)
EXTENDS CommandLanes

CONSTANTS cronNested, hookDispatch, main, cronHooks, other

AllLanes == {cronNested, hookDispatch, main}
GroupedLanes == {cronNested, hookDispatch}

CronWidth == 2

GatewaySpec(hooks) ==
  [budget |-> CronWidth, members |-> {cronNested, hookDispatch},
   reserve |-> [l \in Lane |-> IF hooks /\ l = hookDispatch THEN 1 ELSE 0]]

GatewayPublication(hookWidth, clear, group, hooks) ==
  [lanes |-> {cronNested, hookDispatch},
   widths |-> [l \in Lane |-> IF l = cronNested THEN CronWidth ELSE hookWidth],
   clear |-> clear, group |-> group, spec |-> GatewaySpec(hooks)]

HooksOn == GatewayPublication(CronWidth, {}, cronHooks, TRUE)
HooksClosing == GatewayPublication(0, {}, cronHooks, FALSE)
HooksOff == GatewayPublication(0, {cronHooks}, NoGroup, FALSE)
GatewayPublications == {HooksOn, HooksClosing, HooksOff}

TwoWide == [l \in Lane |-> 2]

\* Two groups that take a lane from each other.
PairSpec(b, ms, reserved) ==
  [budget |-> b, members |-> ms,
   reserve |-> [l \in Lane |-> IF l \in reserved THEN 1 ELSE 0]]
Move(group, clear, b, ms, reserved) ==
  [lanes |-> {}, widths |-> [l \in Lane |-> 1], clear |-> clear,
   group |-> group, spec |-> PairSpec(b, ms, reserved)]
MovingPublications ==
  {Move(cronHooks, {}, 1, {cronNested, hookDispatch}, {}),
   Move(other, {}, 1, {hookDispatch}, {hookDispatch})}
\* Two members with a reservation beside one without.
SharedPublications ==
  {Move(other, {}, 2, Lane, {hookDispatch, main}), Move(NoGroup, {other}, 1, {}, {})}

ThreeLanePublications == MovingPublications \cup SharedPublications

NormalOnly == {0}
ForegroundToo == {0, 1}
=============================================================================
