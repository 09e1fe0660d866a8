------------------------ MODULE GatewaySuspendProofs ------------------------
(***************************************************************************)
(* Host suspension, for any number of chains, roots, scopes, requests and  *)
(* generations: the coordinator and the gate agree, the scheduler has an   *)
(* owner while it is paused, and a prepared gateway is quiet.              *)
(***************************************************************************)
EXTENDS GatewaySuspend, WorkAdmissionProofs

Timer == [owner : Nat, kind : {"held", "recovering"}, live : BOOLEAN]

State == [adm : Admission, current : Entry \cup {NoEntry}, retired : Entry \cup {NoEntry},
          paused : BOOLEAN, expired : BOOLEAN, due : SUBSET Timer]

\* The phase of the gate that an entry stands for.
GatePhase(e) == IF e.phase = "ready" THEN "prepared" ELSE e.phase

\* The entry owns the current suspension, and the suspension has an entry; what
\* a restart puts aside stays with the drain; a live expiry callback of the held
\* entry is that of a timer which has run out.
Good(s) ==
    /\ s \in State
    /\ s.adm.guarded <=> s.adm.phase # "accepting"
    /\ s.adm.phase # "accepting" <=> s.current.kind # "none"
    /\ s.current.kind # "none" => /\ s.current.owner = s.adm.suspendGen
                                  /\ s.adm.phase = GatePhase(s.current)
    /\ s.current.kind = "held" => s.current.phase # "preparing"
    /\ s.paused <=> s.current.kind # "none" \/ s.retired.kind # "none"
    /\ s.retired.kind # "none" => s.adm.draining
    /\ s.adm.draining => ~s.adm.signal /\ s.adm.phase = "accepting"
    /\ \A t \in s.due : t.owner <= s.adm.suspendGen
    /\ s.current.kind = "held" =>
          \A t \in s.due : t.live /\ t.kind = "held" /\ t.owner = s.current.owner =>
                               ~s.current.armed

\* A gateway is prepared by whoever finds it idle but for himself.
Later(s, t) ==
    t.adm.phase = "prepared" =>
        \/ s.adm.phase = "prepared" /\ t.current.excused = s.current.excused
        \/ active \subseteq {t.current.excused}

-----------------------------------------------------------------------------
(* The functions the calls are made of.                                    *)

\* A field of the coordinator holds no entry, or a held or recovering one.
LEMMA EntryIs ==
    ASSUME NEW e \in Entry \cup {NoEntry}
    PROVE  /\ e.kind # "none" => e \in Entry
           /\ e \in Entry => e.kind \in {"held", "recovering"}
           /\ e = NoEntry => e.kind = "none"
  BY DEF Entry, NoEntry

\* Queued callbacks stay queued, and those of the entry die.
LEMMA Cleared ==
    ASSUME NEW s \in State, NEW e
    PROVE  LET t == TimerCleared(s, e)
           IN  /\ t \in State
               /\ t.adm = s.adm /\ t.current = s.current /\ t.retired = s.retired
               /\ t.paused = s.paused /\ t.expired = s.expired
               /\ \A x \in t.due : \E y \in s.due :
                     /\ x.owner = y.owner /\ x.kind = y.kind
                     /\ x.live => y.live /\ ~(y.owner = e.owner /\ y.kind = e.kind)
<1> DEFINE Dead(x) == [x EXCEPT !.live = @ /\ ~(x.owner = e.owner /\ x.kind = e.kind)]
           due2 == {Dead(x) : x \in s.due}
<1>1. TimerCleared(s, e) = [s EXCEPT !.due = due2]
  BY DEF TimerCleared
<1>2. ASSUME NEW x \in s.due
      PROVE  /\ Dead(x) \in Timer /\ Dead(x).owner = x.owner /\ Dead(x).kind = x.kind
             /\ Dead(x).live => x.live /\ ~(x.owner = e.owner /\ x.kind = e.kind)
  <2>1. x \in Timer
    BY DEF State
  <2>2. (x.live /\ ~(x.owner = e.owner /\ x.kind = e.kind)) \in BOOLEAN
    BY <2>1 DEF Timer
  <2> QED BY <2>1, <2>2 DEF Timer
<1>3. due2 \in SUBSET Timer
  BY <1>2
<1>4. \A x \in due2 : \E y \in s.due :
          /\ x.owner = y.owner /\ x.kind = y.kind
          /\ x.live => y.live /\ ~(y.owner = e.owner /\ y.kind = e.kind)
  <2> SUFFICES ASSUME NEW x \in due2
               PROVE  \E y \in s.due :
                         /\ x.owner = y.owner /\ x.kind = y.kind
                         /\ x.live => y.live /\ ~(y.owner = e.owner /\ y.kind = e.kind)
    OBVIOUS
  <2>1. PICK y \in s.due : x = Dead(y)
    OBVIOUS
  <2> HIDE DEF Dead
  <2> QED BY <1>2, <2>1
<1> HIDE DEF due2
<1> QED BY <1>1, <1>3, <1>4 DEF State

\* clearTimer on the current entry changes its timer and the callbacks of it that are
\* queued, and nothing that another holder sees.
LEMMA ClearedCurrent ==
    ASSUME NEW s \in State
    PROVE  LET c == TimerCleared(s, s.current)
           IN  /\ c \in State
               /\ c.adm = s.adm /\ c.current = s.current /\ c.retired = s.retired
               /\ c.paused = s.paused /\ c.expired = s.expired
               /\ \A x \in c.due : \E y \in s.due : x.owner = y.owner
               /\ \A x \in c.due :
                     ~(x.live /\ x.owner = s.current.owner /\ x.kind = s.current.kind)
<1> DEFINE c == TimerCleared(s, s.current)
<1>1. /\ c \in State
      /\ c.adm = s.adm /\ c.current = s.current /\ c.retired = s.retired
      /\ c.paused = s.paused /\ c.expired = s.expired
      /\ \A x \in c.due : \E y \in s.due :
            /\ x.owner = y.owner /\ x.kind = y.kind
            /\ x.live => y.live /\ ~(y.owner = s.current.owner /\ y.kind = s.current.kind)
  BY Cleared, Zenon
<1> HIDE DEF c
<1>2. /\ \A x \in c.due : \E y \in s.due : x.owner = y.owner
      /\ \A x \in c.due : ~(x.live /\ x.owner = s.current.owner /\ x.kind = s.current.kind)
  BY <1>1
<1> QED BY <1>1, <1>2 DEF c

\* An entry that waits for its scheduler still owns the suspension.
LEMMA RecoveryGood ==
    ASSUME NEW s, Good(s), s.current.kind # "none"
    PROVE  LET t == EnterRecovery(s)
           IN  Good(t) /\ Later(s, t) /\ t.current.kind = "recovering"
<1> DEFINE c == TimerCleared(s, s.current)
           f == [s.current EXCEPT !.kind = "recovering", !.armed = TRUE]
           t == EnterRecovery(s)
<1>1. s \in State /\ s.current \in Entry
  BY EntryIs DEF Good, State
<1>2. /\ c \in State
      /\ c.adm = s.adm /\ c.current = s.current /\ c.retired = s.retired
      /\ c.paused = s.paused /\ c.expired = s.expired
      /\ \A x \in c.due : \E y \in s.due : x.owner = y.owner
      /\ \A x \in c.due : ~(x.live /\ x.owner = s.current.owner /\ x.kind = s.current.kind)
  BY <1>1, ClearedCurrent, Zenon
<1> HIDE DEF c
<1>3. f \in Entry /\ f.kind = "recovering" /\ f.owner = s.current.owner
      /\ f.phase = s.current.phase /\ f.excused = s.current.excused
  BY <1>1 DEF Entry
<1>4. t = [c EXCEPT !.current = f, !.expired = FALSE]
  BY <1>1, <1>2 DEF EnterRecovery, State, c
<1> HIDE DEF t, f
<1>5. /\ t \in State /\ t.adm = s.adm /\ t.current = f /\ t.retired = s.retired
      /\ t.paused = s.paused /\ t.due = c.due
  BY <1>2, <1>3, <1>4 DEF State
<1>6. \A x \in t.due : x.owner <= t.adm.suspendGen
  BY <1>2, <1>5 DEF Good
<1>7. Good(t) /\ Later(s, t) /\ t.current.kind = "recovering"
  BY <1>3, <1>5, <1>6 DEF Good, GatePhase, Later
<1> QED BY <1>7 DEF t

\* Resuming opens the gate for good, or leaves an entry that will try again.
LEMMA ResumeGood ==
    ASSUME NEW s, Good(s), s.current.kind # "none", NEW resumes \in BOOLEAN
    PROVE  LET t == ResumeAndReopen(s, resumes)
           IN  Good(t) /\ Later(s, t) /\ t.current.kind \in {"none", "recovering"}
<1>1. CASE ~resumes
  BY <1>1, RecoveryGood DEF ResumeAndReopen
<1>2. CASE resumes
  <2> DEFINE c == TimerCleared(s, s.current)
             a == [s.adm EXCEPT !.phase = "accepting", !.guarded = FALSE, !.waiters = {}]
             t == ResumeAndReopen(s, resumes)
  <2>1. s \in State /\ s.current \in Entry /\ s.adm \in Admission
    BY EntryIs DEF Good, State
  <2>2. /\ c \in State
        /\ c.adm = s.adm /\ c.current = s.current /\ c.retired = s.retired
        /\ c.paused = s.paused /\ c.expired = s.expired
        /\ \A x \in c.due : \E y \in s.due : x.owner = y.owner
        /\ \A x \in c.due : ~(x.live /\ x.owner = s.current.owner /\ x.kind = s.current.kind)
    BY <2>1, ClearedCurrent, Zenon
  <2> HIDE DEF c
  <2>3. CanReopen(s, s.current)
    BY <2>1 DEF CanReopen, CanMove, Good, GatePhase, Entry
  <2>4. Move(s.adm, "accepting") = a
    BY <2>1 DEF Move, ResolveWaiters, Admission
  <2>5. t = [c EXCEPT !.paused = FALSE, !.adm = a, !.current = NoEntry, !.expired = FALSE]
    BY <1>2, <2>2, <2>3, <2>4 DEF ResumeAndReopen, State, c
  <2>6. a \in Admission /\ a.phase = "accepting" /\ ~a.guarded /\ a.suspendGen = s.adm.suspendGen
        /\ a.draining = s.adm.draining /\ a.signal = s.adm.signal
    BY <2>1 DEF Admission, Phases
  <2> HIDE DEF a, t
  <2>7. /\ t \in State /\ t.adm = a /\ t.current = NoEntry /\ t.retired = s.retired
        /\ t.paused = FALSE /\ t.due = c.due
    BY <2>2, <2>5, <2>6 DEF State
  <2>8. \A x \in t.due : x.owner <= t.adm.suspendGen
    BY <2>2, <2>6, <2>7 DEF Good
  <2>9. NoEntry.kind = "none"
    BY DEF NoEntry
  <2>10. Good(t) /\ Later(s, t)
    BY <2>6, <2>7, <2>8, <2>9 DEF Good, Later
  <2> QED BY <2>7, <2>9, <2>10 DEF t
<1> QED BY <1>1, <1>2

\* A renewed entry has a new timer and no callback of the old one.
LEMMA RenewedGood ==
    ASSUME NEW s, Good(s), s.current.kind = "held"
    PROVE  LET t == Renewed(s) IN Good(t) /\ Later(s, t) /\ t.current.kind = "held"
<1> DEFINE c == TimerCleared(s, s.current)
           f == [s.current EXCEPT !.armed = TRUE]
           t == Renewed(s)
<1>1. s \in State /\ s.current \in Entry
  BY EntryIs DEF Good, State
<1>2. /\ c \in State
      /\ c.adm = s.adm /\ c.current = s.current /\ c.retired = s.retired
      /\ c.paused = s.paused /\ c.expired = s.expired
      /\ \A x \in c.due : \E y \in s.due : x.owner = y.owner
      /\ \A x \in c.due : ~(x.live /\ x.owner = s.current.owner /\ x.kind = s.current.kind)
  BY <1>1, ClearedCurrent, Zenon
<1> HIDE DEF c
<1>3. f \in Entry /\ f.kind = "held" /\ f.owner = s.current.owner
      /\ f.phase = s.current.phase /\ f.excused = s.current.excused
  BY <1>1 DEF Entry
<1>4. t = [c EXCEPT !.current = f, !.expired = FALSE]
  BY <1>1, <1>2 DEF Renewed, State, c
<1> HIDE DEF t, f
<1>5. /\ t \in State /\ t.adm = s.adm /\ t.current = f /\ t.retired = s.retired
      /\ t.paused = s.paused /\ t.due = c.due
  BY <1>2, <1>3, <1>4 DEF State
<1>6. \A x \in t.due : x.owner <= t.adm.suspendGen
  BY <1>2, <1>5 DEF Good
<1>7. \A x \in t.due : ~(x.live /\ x.kind = "held" /\ x.owner = t.current.owner)
  BY <1>2, <1>3, <1>5
<1>8. Good(t) /\ Later(s, t) /\ t.current.kind = "held"
  BY <1>3, <1>5, <1>6, <1>7 DEF Good, GatePhase, Later
<1> QED BY <1>8 DEF t

\* A drain is promoted when nobody but its caller is at work.
LEMMA RefreshedGood ==
    ASSUME NEW s, Good(s), s.current.kind = "held", NEW caller \in Root \cup {NoRoot},
           NEW other \in BOOLEAN
    PROVE  LET t == Refreshed(s, caller, other)
           IN  Good(t) /\ Later(s, t) /\ t.current.kind = "held"
<1>1. CASE Refreshed(s, caller, other) = s
  BY <1>1 DEF Later
<1>2. CASE /\ s.current.phase = "draining" /\ Idle(caller, other)
           /\ \E from \in {"preparing", "draining"} : CanMove(s.adm, s.current.owner, from)
           /\ Refreshed(s, caller, other) # s
  <2> DEFINE a == [s.adm EXCEPT !.phase = "prepared"]
             f == [s.current EXCEPT !.phase = "ready", !.excused = caller]
             t == Refreshed(s, caller, other)
  <2>1. s \in State /\ s.current \in Entry /\ s.adm \in Admission
    BY <1>2, EntryIs DEF Good, State
  <2>2. t = [s EXCEPT !.adm = a, !.current = f]
    BY <1>2, <2>1 DEF Refreshed, Move, State
  <2>3. f \in Entry /\ f.kind = "held" /\ f.owner = s.current.owner /\ f.phase = "ready"
        /\ f.excused = caller /\ f.armed = s.current.armed
    BY <2>1 DEF Entry
  <2>4. a \in Admission /\ a.phase = "prepared" /\ a.guarded = s.adm.guarded
        /\ a.suspendGen = s.adm.suspendGen /\ a.draining = s.adm.draining
        /\ s.adm.phase # "accepting"
    BY <1>2, <2>1 DEF Admission, Phases, CanMove
  <2> HIDE DEF a, f, t
  <2>5. /\ t \in State /\ t.adm = a /\ t.current = f /\ t.retired = s.retired
        /\ t.paused = s.paused /\ t.due = s.due
    BY <2>1, <2>2, <2>3, <2>4 DEF State
  <2>6. Later(s, t)
    BY <1>2, <2>3, <2>5 DEF Later, Idle
  <2>7. Good(t) /\ t.current.kind = "held"
    BY <2>3, <2>4, <2>5 DEF Good, GatePhase
  <2> QED BY <2>6, <2>7 DEF t
<1> QED BY <1>1, <1>2 DEF Refreshed

\* A preparation takes the open gate, gives it back, or owes its scheduler.
LEMMA PreparedGood ==
    ASSUME NEW s, Good(s), s.current.kind = "none", NEW e \in Entry,
           e.kind = "held", e.owner = s.adm.suspendGen + 1, e.phase = "draining", e.armed,
           NEW other \in BOOLEAN, NEW inspects \in BOOLEAN, NEW resumes \in BOOLEAN
    PROVE  LET t == Prepared(s, e, other, inspects, resumes) IN Good(t) /\ Later(s, t)
<1> DEFINE t == Prepared(s, e, other, inspects, resumes)
           a == Suspend(s.adm)
           closed == [s EXCEPT !.adm = a, !.paused = TRUE]
           idle == Idle(e.excused, other)
<1>0. s \in State /\ s.adm \in Admission /\ s.adm.phase = "accepting"
  BY DEF Good, State
<1>1. CASE ~CanSuspend(s.adm)
  BY <1>1 DEF Prepared, Later
<1>2. ASSUME CanSuspend(s.adm) PROVE Good(t) /\ Later(s, t)
  <2>0. ~s.adm.draining /\ s.retired.kind = "none"
    BY <1>2 DEF CanSuspend, Closed, Good
  <2>1. a \in Admission /\ a.phase = "preparing" /\ a.guarded
        /\ a.suspendGen = s.adm.suspendGen + 1 /\ ~a.draining /\ s.adm.suspendGen \in Nat
    <3>1. s.adm.suspendGen \in Nat
      BY <1>0 DEF Admission
    <3>2. PICK n \in Nat : n = s.adm.suspendGen + 1
      BY <3>1
    <3>3. a = [s.adm EXCEPT !.phase = "preparing", !.suspendGen = n, !.guarded = TRUE]
      BY <3>2 DEF Suspend
    <3> HIDE DEF a
    <3>4. a \in Admission /\ a.phase = "preparing" /\ a.guarded /\ a.suspendGen = n /\ ~a.draining
      BY <1>0, <2>0, <3>3 DEF Admission, Phases
    <3> QED BY <3>1, <3>2, <3>4
  <2> HIDE DEF a
  <2>2. /\ closed \in State /\ closed.adm = a /\ closed.paused = TRUE
        /\ closed.current = s.current /\ closed.retired = s.retired /\ closed.due = s.due
    BY <1>0, <2>1 DEF State
  <2> HIDE DEF closed
  <2>3. \A x \in s.due : x.owner \in Nat /\ x.owner <= s.adm.suspendGen
    BY <1>0 DEF Good, State, Timer
  <2>4. \A x \in s.due : x.owner <= a.suspendGen /\ x.owner # e.owner
    BY <2>1, <2>3
  <2>5. CASE ~inspects \/ (~idle /\ ~e.drain)
    <3> DEFINE f == [e EXCEPT !.phase = "preparing"]
    <3>1. t = RolledBack(closed, f, resumes)
      BY <1>2, <2>5 DEF Prepared, closed, a
    <3>2. CASE resumes
      <4> DEFINE b == [a EXCEPT !.phase = "accepting", !.guarded = FALSE, !.waiters = {}]
      <4>1. Move(a, "accepting") = b
        BY <2>1 DEF Move, ResolveWaiters, Admission
      <4>2. t = [closed EXCEPT !.paused = FALSE, !.adm = b]
        BY <2>2, <3>1, <3>2, <4>1 DEF RolledBack
      <4>3. b \in Admission /\ b.phase = "accepting" /\ ~b.guarded /\ ~b.draining
            /\ b.suspendGen = a.suspendGen
        BY <2>1 DEF Admission, Phases
      <4> HIDE DEF b, t
      <4>4. /\ t \in State /\ t.adm = b /\ t.current = s.current /\ t.retired = s.retired
            /\ t.paused = FALSE /\ t.due = s.due
        BY <2>2, <4>2, <4>3 DEF State
      <4> QED BY <2>0, <2>4, <4>3, <4>4 DEF Good, Later
    <3>3. CASE ~resumes
      <4> DEFINE g == [f EXCEPT !.kind = "recovering"]
      <4>1. t = [closed EXCEPT !.current = g]
        BY <3>1, <3>3 DEF RolledBack
      <4>2. g \in Entry /\ g.kind = "recovering" /\ g.owner = e.owner /\ g.phase = "preparing"
        BY DEF Entry
      <4> HIDE DEF g, t
      <4>3. /\ t \in State /\ t.adm = a /\ t.current = g /\ t.retired = s.retired
            /\ t.paused = TRUE /\ t.due = s.due
        BY <2>2, <4>1, <4>2 DEF State
      <4> QED BY <2>0, <2>1, <2>4, <4>2, <4>3 DEF Good, Later, GatePhase
    <3> QED BY <3>2, <3>3
  <2>6. CASE ~(~inspects \/ (~idle /\ ~e.drain))
    <3> DEFINE b == [a EXCEPT !.phase = IF idle THEN "prepared" ELSE "draining"]
               f == [e EXCEPT !.phase = IF idle THEN "ready" ELSE "draining"]
    <3>1. Move(a, IF idle THEN "prepared" ELSE "draining") = b
      BY DEF Move
    <3>2. t = [closed EXCEPT !.adm = b, !.current = f, !.expired = FALSE]
      BY <1>2, <2>2, <2>6, <3>1 DEF Prepared, closed, a
    <3>3. b \in Admission /\ b.phase = (IF idle THEN "prepared" ELSE "draining") /\ b.guarded
          /\ b.suspendGen = a.suspendGen /\ ~b.draining
      BY <2>1 DEF Admission, Phases
    <3>4. f \in Entry /\ f.kind = "held" /\ f.owner = e.owner /\ f.excused = e.excused
          /\ f.phase = IF idle THEN "ready" ELSE "draining"
      BY DEF Entry
    <3> HIDE DEF b, f, t
    <3>5. /\ t \in State /\ t.adm = b /\ t.current = f /\ t.retired = s.retired
          /\ t.paused = TRUE /\ t.due = s.due
      BY <2>2, <3>2, <3>3, <3>4 DEF State
    <3>6. idle => active \subseteq {e.excused}
      BY DEF Idle
    <3> HIDE DEF idle
    <3> QED BY <2>0, <2>1, <2>4, <3>3, <3>4, <3>5, <3>6 DEF Good, Later, GatePhase
  <2> QED BY <2>5, <2>6
<1> QED BY <1>1, <1>2

-----------------------------------------------------------------------------
(* The steps.                                                              *)

\* A call that leaves the coordinator and the gate in s leaves them so.
LEMMA Take ==
    ASSUME NEW s, Good(s), Becomes(s)
    PROVE  Good(Now)' /\ Now' = s /\ adm' = s.adm /\ current' = s.current
<1>1. Now' = s
  BY DEF Good, Becomes, Now, State
<1> QED BY <1>1 DEF Becomes, Good

\* The first thing every call does.
LEMMA NormalizedGood ==
    ASSUME Good(Now), NEW resumes \in BOOLEAN
    PROVE  LET s == Normalized(resumes)
           IN  /\ Good(s) /\ Later(Now, s)
               /\ ~(current.kind = "held" /\ expired) => s = Now
<1>1. Now.current = current /\ Now.adm = adm
  BY DEF Now
<1>2. CASE current.kind = "held" /\ expired
  BY <1>1, <1>2, ResumeGood DEF Normalized
<1>3. CASE ~(current.kind = "held" /\ expired)
  BY <1>3 DEF Normalized, Later
<1> QED BY <1>2, <1>3

\* Whatever two calls do one after the other.
LEMMA LaterStill ==
    ASSUME NEW s, NEW t, NEW u, Later(s, t), Later(t, u)
    PROVE  Later(s, u)
  BY DEF Later

\* What the gate itself changes, without a word to the coordinator.
LEMMA GateMoves ==
    ASSUME Good(Now), NEW a \in Admission, adm' = a, UNCHANGED coordVars,
           a.phase = adm.phase, a.guarded = adm.guarded, a.suspendGen = adm.suspendGen,
           a.draining = adm.draining, a.draining => ~a.signal
    PROVE  Good(Now)' /\ Later(Now, Now')
<1> DEFINE t == [Now EXCEPT !.adm = a]
<1>1. /\ t \in State /\ t.adm = a /\ t.current = current /\ t.retired = retired
      /\ t.paused = paused /\ t.due = due /\ t.expired = expired
      /\ Now.adm = adm /\ Now.current = current /\ Now.retired = retired /\ Now.paused = paused
      /\ Now.due = due
  BY DEF Now, Good, State
<1>2. Becomes(t)
  BY <1>1 DEF Becomes, coordVars
<1> HIDE DEF t
<1>3. Good(t)
  BY <1>1 DEF Good
<1>4. Later(Now, t)
  BY <1>1 DEF Later
<1> QED BY <1>2, <1>3, <1>4, Take

\* How a held entry may end.
Ends ==
    current.kind = "held" /\ current'.kind # "held" =>
        expired \/ ~current.armed \/ adm'.draining \/ Resume(current.owner)

StepGood == Good(Now)' /\ Later(Now, Now') /\ Ends

\* The calls of the host.
LEMMA RenewGood ==
    ASSUME Good(Now), NEW request \in Request, NEW drain \in BOOLEAN,
           NEW caller \in Root \cup {NoRoot}, Renew(request, drain, caller)
    PROVE  StepGood
<1>1. PICK other \in BOOLEAN, inspects \in BOOLEAN :
          /\ current.kind = "held"
          /\ Becomes(IF inspects THEN Refreshed(Renewed(Now), caller, other) ELSE Renewed(Now))
  BY DEF Renew
<1> DEFINE r == Renewed(Now)
           t == IF inspects THEN Refreshed(r, caller, other) ELSE r
<1>2. Good(r) /\ Later(Now, r) /\ r.current.kind = "held"
  BY <1>1, RenewedGood DEF Now
<1> HIDE DEF r
<1>3. Good(t) /\ Later(Now, t) /\ t.current.kind = "held"
  BY <1>2, RefreshedGood, LaterStill
<1>4. Becomes(t)
  BY <1>1 DEF r
<1> HIDE DEF t
<1> QED BY <1>3, <1>4, Take DEF StepGood, Ends

\* prepare keeps coordinator, gate and scheduler in agreement, whether it begins a
\* suspension, rolls it back or finds somebody else's.
LEMMA PrepareGood ==
    ASSUME Good(Now), NEW request \in Request, NEW drain \in BOOLEAN,
           NEW caller \in Root \cup {NoRoot}, Prepare(request, drain, caller)
    PROVE  StepGood
<1>1. PICK other \in BOOLEAN, inspects \in BOOLEAN, resumes \in BOOLEAN, again \in BOOLEAN :
          LET s == Normalized(resumes)
              e == [kind |-> "held", owner |-> s.adm.suspendGen + 1, request |-> request,
                    drain |-> drain, phase |-> "draining", armed |-> TRUE,
                    excused |-> caller]
          IN  Becomes(IF s.current.kind = "none" THEN Prepared(s, e, other, inspects, again)
                      ELSE s)
  BY ZenonT(60) DEF Prepare
<1> DEFINE s == Normalized(resumes)
           e == [kind |-> "held", owner |-> s.adm.suspendGen + 1, request |-> request,
                 drain |-> drain, phase |-> "draining", armed |-> TRUE,
                 excused |-> caller]
           t == IF s.current.kind = "none" THEN Prepared(s, e, other, inspects, again) ELSE s
<1>2. Good(s) /\ Later(Now, s) /\ (~(current.kind = "held" /\ expired) => s = Now)
  BY NormalizedGood
<1>3. Becomes(t)
  BY <1>1
<1> HIDE DEF s
<1>4. s.adm.suspendGen + 1 \in Nat
  BY <1>2 DEF Good, State, Admission
<1>5. e \in Entry /\ e.kind = "held" /\ e.owner = s.adm.suspendGen + 1 /\ e.phase = "draining"
      /\ e.armed
  BY <1>4 DEF Entry
<1> HIDE DEF e
<1>6. Good(t) /\ Later(Now, t)
  <2>1. CASE s.current.kind = "none"
    BY <1>2, <1>5, <2>1, PreparedGood, LaterStill
  <2>2. CASE s.current.kind # "none"
    BY <1>2, <2>2
  <2> QED BY <2>1, <2>2
<1>7. current.kind = "held" /\ ~expired => t = Now
  <2>1. Now.current = current
    BY DEF Now
  <2> QED BY <1>2, <2>1
<1> HIDE DEF t
<1>8. current.kind = "held" /\ ~expired => t.current = current
  BY <1>7 DEF Now
<1> QED BY <1>3, <1>6, <1>8, Take DEF StepGood, Ends

\* status promotes a drain that finds the gateway idle, and sweeps what is overdue.
LEMMA StatusGood ==
    ASSUME Good(Now), NEW owner, NEW caller \in Root \cup {NoRoot}, Status(owner, caller)
    PROVE  StepGood
<1>1. PICK other \in BOOLEAN, resumes \in BOOLEAN :
          LET s == Normalized(resumes)
          IN  Becomes(IF s.current.kind = "held" /\ s.current.owner = owner
                      THEN Refreshed(s, caller, other) ELSE s)
  BY DEF Status
<1> DEFINE s == Normalized(resumes)
           t == IF s.current.kind = "held" /\ s.current.owner = owner
                THEN Refreshed(s, caller, other) ELSE s
<1>2. Good(s) /\ Later(Now, s) /\ (~(current.kind = "held" /\ expired) => s = Now)
  BY NormalizedGood
<1>3. Becomes(t)
  BY <1>1
<1> HIDE DEF s
<1>4. Good(t) /\ Later(Now, t) /\ (s.current.kind = "held" => t.current.kind = "held")
  BY <1>2, RefreshedGood, LaterStill
<1> HIDE DEF t
<1>5. current.kind = "held" /\ ~expired => s.current.kind = "held"
  BY <1>2 DEF Now
<1> QED BY <1>3, <1>4, <1>5, Take DEF StepGood, Ends

\* resume of the holder reopens the gate or leaves a recovering entry; of anybody else
\* it only sweeps what is overdue.
LEMMA ResumeStepGood ==
    ASSUME Good(Now), NEW owner, Resume(owner)
    PROVE  StepGood
<1>1. PICK resumes \in BOOLEAN, again \in BOOLEAN :
          LET s == Normalized(resumes)
          IN  Becomes(IF s.current.kind = "held" /\ s.current.owner = owner
                      THEN ResumeAndReopen(s, again) ELSE s)
  BY DEF Resume
<1> DEFINE s == Normalized(resumes)
           t == IF s.current.kind = "held" /\ s.current.owner = owner
                THEN ResumeAndReopen(s, again) ELSE s
<1>2. Good(s) /\ Later(Now, s) /\ (~(current.kind = "held" /\ expired) => s = Now)
  BY NormalizedGood
<1>3. Becomes(t)
  BY <1>1
<1> HIDE DEF s
<1>4. Good(t) /\ Later(Now, t)
  BY <1>2, ResumeGood, LaterStill
<1>5. t = s \/ s.current.owner = owner
  OBVIOUS
<1> HIDE DEF t
<1>6. current.kind = "held" /\ ~expired => t.current = current \/ current.owner = owner
  BY <1>2, <1>5 DEF Now
<1>7. Ends
  BY <1>3, <1>4, <1>6, Take DEF Ends
<1> QED BY <1>3, <1>4, <1>7, Take DEF StepGood

-----------------------------------------------------------------------------
(* Time and restarts.                                                      *)

\* Time that passes makes a lease overdue and changes nothing else.
LEMMA WallClockGood == ASSUME Good(Now), WallClock PROVE StepGood
<1> DEFINE t == [Now EXCEPT !.expired = TRUE]
<1>1. /\ t \in State /\ t.adm = adm /\ t.current = current /\ t.retired = retired
      /\ t.paused = paused /\ t.due = due /\ t.expired = TRUE
      /\ Now.adm = adm /\ Now.current = current /\ Now.retired = retired /\ Now.paused = paused
      /\ Now.due = due
  BY DEF Now, Good, State
<1>2. Becomes(t)
  BY <1>1 DEF Becomes, WallClock
<1> HIDE DEF t
<1>3. Good(t) /\ Later(Now, t)
  BY <1>1 DEF Good, Later
<1> QED BY <1>1, <1>2, <1>3, Take DEF StepGood, Ends

\* A timer that runs out queues a live callback of the entry that armed it.
LEMMA TimerDueGood == ASSUME Good(Now), TimerDue PROVE StepGood
<1> DEFINE f == [current EXCEPT !.armed = FALSE]
           x == [owner |-> current.owner, kind |-> current.kind, live |-> TRUE]
           t == [Now EXCEPT !.current = f, !.due = due \cup {x}]
<1>1. /\ Now \in State
      /\ Now.adm = adm /\ Now.current = current /\ Now.retired = retired /\ Now.paused = paused
      /\ Now.due = due /\ Now.expired = expired
  BY DEF Now, Good
<1>2. current \in Entry /\ current.owner \in Nat /\ current.kind \in {"held", "recovering"}
  <2>1. current \in Entry \cup {NoEntry}
    BY <1>1 DEF State
  <2>2. current # NoEntry
    BY DEF TimerDue, NoEntry
  <2> QED BY <2>1, <2>2 DEF Entry
<1>3. f \in Entry /\ f.kind = current.kind /\ f.owner = current.owner /\ f.phase = current.phase
      /\ f.excused = current.excused /\ f.armed = FALSE
  BY <1>2 DEF Entry
<1>4. x \in Timer /\ x.owner = current.owner
  BY <1>2 DEF Timer
<1> HIDE DEF f, x
<1>5. /\ t \in State /\ t.adm = adm /\ t.current = f /\ t.retired = retired
      /\ t.paused = paused /\ t.due = due \cup {x} /\ t.expired = expired
  BY <1>1, <1>3, <1>4 DEF State
<1>6. Becomes(t)
  BY <1>5 DEF Becomes, TimerDue, f, x
<1> HIDE DEF t
<1>7. \A y \in t.due : y.owner <= t.adm.suspendGen
  <2>1. current.owner = adm.suspendGen
    BY <1>1, <1>2 DEF Good
  <2> QED BY <1>1, <1>2, <1>4, <1>5, <2>1 DEF Good
<1>8. Good(t)
  BY <1>1, <1>3, <1>5, <1>7 DEF Good, GatePhase
<1>9. Later(Now, t)
  BY <1>1, <1>3, <1>5 DEF Later
<1> QED BY <1>3, <1>5, <1>6, <1>8, <1>9, Take DEF StepGood, Ends

\* A live callback of the held entry runs only after its timer has run out.
LEMMA RunTimerGood ==
    ASSUME Good(Now), NEW x \in due, NEW resumes \in BOOLEAN, RunTimer(x, resumes)
    PROVE  StepGood
<1> DEFINE s == [Now EXCEPT !.due = @ \ {x}]
           mine == x.live /\ x.owner = current.owner /\ x.kind = current.kind
           t == IF mine THEN ResumeAndReopen(s, resumes) ELSE s
<1>1. /\ Now \in State
      /\ Now.adm = adm /\ Now.current = current /\ Now.retired = retired /\ Now.paused = paused
      /\ Now.due = due /\ Now.expired = expired
  BY DEF Now, Good
<1>2. /\ s \in State /\ s.adm = adm /\ s.current = current /\ s.retired = retired
      /\ s.paused = paused /\ s.due = due \ {x}
  BY <1>1 DEF State
<1>3. Becomes(t)
  BY DEF RunTimer
<1> HIDE DEF s
<1>4. Good(s) /\ Later(Now, s)
  BY <1>1, <1>2 DEF Good, Later
<1>5. x.kind \in {"held", "recovering"}
  BY <1>1 DEF State, Timer
<1>6. Good(t) /\ Later(Now, t)
  BY <1>2, <1>4, <1>5, ResumeGood, LaterStill
<1>7. mine /\ current.kind = "held" => ~current.armed
  BY <1>1 DEF Good
<1>8. ~mine => t.current = current
  BY <1>2
<1> HIDE DEF t, mine
<1> QED BY <1>3, <1>6, <1>7, <1>8, Take DEF StepGood, Ends

\* The gate after a drain.
LEMMA DrainIs ==
    ASSUME NEW a \in Admission
    PROVE  LET d == Drain(a)
           IN  /\ d \in Admission /\ d.draining /\ ~d.signal /\ d.phase = "accepting"
               /\ d.guarded = (IF a.phase = "accepting" THEN a.guarded ELSE FALSE)
               /\ a.suspendGen <= d.suspendGen
<1>1. PICK n \in Nat : n = a.signalGen + 1
  BY DEF Admission
<1>2. PICK m \in Nat : m = a.suspendGen + 1
  BY DEF Admission
<1> DEFINE d == [a EXCEPT !.signal = FALSE, !.signalGen = n, !.draining = TRUE, !.waiters = {}]
           i == [d EXCEPT !.phase = "accepting", !.guarded = FALSE, !.suspendGen = m]
<1>3. /\ d \in Admission /\ d.draining /\ ~d.signal /\ d.phase = a.phase
      /\ d.guarded = a.guarded /\ d.suspendGen = a.suspendGen /\ d.waiters = {}
  BY DEF Admission
<1>4. Drain(a) = IF a.phase # "accepting" THEN Invalidate(d) ELSE d
  BY <1>1 DEF Drain, ResolveWaiters, Admission
<1> HIDE DEF d
<1>5. /\ i \in Admission /\ i.draining /\ ~i.signal /\ i.phase = "accepting"
      /\ i.guarded = FALSE /\ i.suspendGen = m
  BY <1>3 DEF Admission, Phases
<1>6. Invalidate(d) = i
  BY <1>2, <1>3 DEF Invalidate, ResolveWaiters, Admission
<1> HIDE DEF i
<1>7. a.suspendGen \in Nat /\ a.suspendGen <= a.suspendGen /\ a.suspendGen <= m
  BY <1>2 DEF Admission
<1> DEFINE g == Drain(a)
<1>8. g = IF a.phase # "accepting" THEN i ELSE d
  BY <1>4, <1>6
<1> HIDE DEF g
<1>9. /\ g \in Admission /\ g.draining /\ ~g.signal /\ g.phase = "accepting"
      /\ g.guarded = (IF a.phase = "accepting" THEN a.guarded ELSE FALSE)
      /\ a.suspendGen <= g.suspendGen
  BY <1>3, <1>5, <1>7, <1>8
<1> QED BY <1>9 DEF g

\* A restart puts the entry aside: the gate no longer answers to it, the scheduler's
\* pause is still its debt.
LEMMA MarkDrainingGood == ASSUME Good(Now), MarkDraining PROVE StepGood
<1> DEFINE d == Drain(adm)
           c == TimerCleared(Now, current)
           t == IF adm.guarded /\ current.owner = adm.suspendGen /\ current.kind # "none"
                THEN [c EXCEPT !.adm = Drain(@), !.current = NoEntry, !.retired = current,
                               !.expired = FALSE]
                ELSE [Now EXCEPT !.adm = Drain(@)]
<1>1. /\ Now \in State
      /\ Now.adm = adm /\ Now.current = current /\ Now.retired = retired /\ Now.paused = paused
      /\ Now.due = due /\ Now.expired = expired
      /\ adm \in Admission /\ ~adm.draining
  BY DEF Now, Good, State, MarkDraining
<1>2. /\ d \in Admission /\ d.draining /\ ~d.signal /\ d.phase = "accepting"
      /\ d.guarded = (IF adm.phase = "accepting" THEN adm.guarded ELSE FALSE)
      /\ adm.suspendGen <= d.suspendGen
  BY <1>1, DrainIs, Zenon
<1>3. Becomes(t)
  BY DEF MarkDraining
<1>4. \A y \in due : y.owner \in Nat /\ y.owner <= d.suspendGen
  <2>1. \A y \in due : y.owner \in Nat /\ y.owner <= adm.suspendGen
    BY <1>1 DEF Good, State, Timer
  <2>2. adm.suspendGen \in Nat /\ d.suspendGen \in Nat
    BY <1>1, <1>2 DEF Admission
  <2> HIDE DEF d
  <2> QED BY <1>2, <2>1, <2>2
<1>5. NoEntry.kind = "none"
  BY DEF NoEntry
<1>6. Good(t) /\ t.adm = d
  <2>1. CASE current.kind # "none"
    <3>1. adm.guarded /\ current.owner = adm.suspendGen
      BY <1>1, <2>1 DEF Good
    <3>2. /\ c \in State /\ c.adm = adm /\ c.retired = retired /\ c.current = current
          /\ c.paused = paused
          /\ \A y \in c.due : \E z \in due : y.owner = z.owner
      BY <1>1, ClearedCurrent, Zenon
    <3>3. t = [c EXCEPT !.adm = d, !.current = NoEntry, !.retired = current, !.expired = FALSE]
      BY <2>1, <3>1, <3>2
    <3> HIDE DEF c, t, d
    <3>4. /\ t \in State /\ t.adm = d /\ t.current = NoEntry /\ t.retired = current
          /\ t.paused = paused /\ t.due = c.due
      BY <1>1, <1>2, <3>2, <3>3 DEF State
    <3>5. \A y \in t.due : y.owner <= t.adm.suspendGen
      BY <1>4, <3>2, <3>4
    <3>6. ~d.guarded /\ paused
      BY <1>1, <1>2, <2>1 DEF Good
    <3> QED BY <1>2, <1>5, <2>1, <3>4, <3>5, <3>6 DEF Good
  <2>2. CASE current.kind = "none"
    <3>1. t = [Now EXCEPT !.adm = d]
      BY <1>1, <2>2
    <3> HIDE DEF t, d
    <3>2. /\ t \in State /\ t.adm = d /\ t.current = current /\ t.retired = retired
          /\ t.paused = paused /\ t.due = due
      BY <1>1, <1>2, <3>1 DEF State
    <3>3. ~d.guarded /\ (paused <=> retired.kind # "none")
      BY <1>1, <1>2, <2>2 DEF Good
    <3> QED BY <1>2, <1>4, <2>2, <3>2, <3>3 DEF Good
  <2> QED BY <2>1, <2>2
<1> HIDE DEF t, d
<1>7. Later(Now, t)
  BY <1>2, <1>6 DEF Later
<1> QED BY <1>2, <1>3, <1>6, <1>7, Take DEF StepGood, Ends

\* Raising and lowering the fence of a restart signal leaves the phase and the generation
\* of a suspension as they are.
LEMMA FenceGood == ASSUME Good(Now), RaiseFence \/ LowerFence PROVE StepGood
<1>1. Now.adm = adm /\ adm \in Admission
  BY DEF Now, Good, State
<1>2. PICK n \in Nat : n = adm.signalGen + 1
  BY <1>1 DEF Admission
<1>3. CASE RaiseFence
  <2> DEFINE a == [adm EXCEPT !.signal = TRUE, !.signalGen = n]
  <2>1. adm' = a /\ ~adm.draining /\ UNCHANGED coordVars
    BY <1>2, <1>3 DEF RaiseFence, BeginSignal, CanBeginSignal
  <2>2. a \in Admission /\ a.phase = adm.phase /\ a.guarded = adm.guarded
        /\ a.suspendGen = adm.suspendGen /\ a.draining = adm.draining
    BY <1>1 DEF Admission
  <2> HIDE DEF a
  <2>3. Good(Now)' /\ Later(Now, Now')
    BY <2>1, <2>2, GateMoves
  <2> QED BY <2>1, <2>3 DEF StepGood, Ends, coordVars
<1>4. CASE LowerFence
  <2> DEFINE a == [adm EXCEPT !.signal = FALSE, !.signalGen = n, !.waiters = {}]
  <2>1. adm' = a /\ ~adm.draining /\ UNCHANGED coordVars
    BY <1>1, <1>2, <1>4 DEF LowerFence, ClearFence, CanClearFence, ResolveWaiters, Admission
  <2>2. a \in Admission /\ a.phase = adm.phase /\ a.guarded = adm.guarded
        /\ a.suspendGen = adm.suspendGen /\ a.draining = adm.draining
    BY <1>1 DEF Admission
  <2> HIDE DEF a
  <2>3. Good(Now)' /\ Later(Now, Now')
    BY <2>1, <2>2, GateMoves
  <2> QED BY <2>1, <2>3 DEF StepGood, Ends, coordVars
<1> QED BY <1>3, <1>4

\* The next lifecycle starts with an open gate and no entry.
LEMMA RestartGood == ASSUME Good(Now), LifecycleRestart PROVE StepGood
<1> DEFINE b == TimerCleared(Now, current)
           c == TimerCleared(b, retired)
           t == [c EXCEPT !.adm = Reopen(@), !.current = NoEntry, !.retired = NoEntry,
                          !.paused = FALSE, !.expired = FALSE]
<1>1. /\ Now \in State
      /\ Now.adm = adm /\ Now.current = current /\ Now.retired = retired /\ Now.paused = paused
      /\ Now.due = due /\ Now.expired = expired
      /\ adm \in Admission /\ adm.draining
  BY DEF Now, Good, State, LifecycleRestart
<1>2. adm.phase = "accepting" /\ current.kind = "none"
  BY <1>1 DEF Good
<1>3. b \in State /\ b.adm = adm /\ \A y \in b.due : \E z \in due : y.owner = z.owner
  BY <1>1, ClearedCurrent, Zenon
<1>4. c \in State /\ c.adm = b.adm /\ \A y \in c.due : \E z \in b.due : y.owner = z.owner
  <2> HIDE DEF b
  <2>1. /\ c \in State /\ c.adm = b.adm
        /\ \A y \in c.due : \E z \in b.due :
              /\ y.owner = z.owner /\ y.kind = z.kind
              /\ y.live => z.live /\ ~(z.owner = retired.owner /\ z.kind = retired.kind)
    BY <1>3, Cleared, ZenonT(60)
  <2> HIDE DEF c
  <2> QED BY <2>1
<1>5. PICK n \in Nat : n = adm.signalGen + 1
  BY <1>1 DEF Admission
<1>6. PICK m \in Nat : m = adm.suspendGen + 1
  BY <1>1 DEF Admission
<1> DEFINE a == [adm EXCEPT !.draining = FALSE, !.signal = FALSE, !.signalGen = n,
                            !.suspendGen = m, !.guarded = FALSE, !.waiters = {}]
<1>7. Reopen(adm) = a
  BY <1>1, <1>2, <1>5, <1>6 DEF Reopen, ResolveWaiters, Admission
<1>8. a \in Admission /\ ~a.draining /\ a.phase = "accepting" /\ ~a.guarded /\ a.suspendGen = m
  BY <1>1, <1>2 DEF Admission
<1>9. Becomes(t)
  BY DEF LifecycleRestart
<1>10. t = [c EXCEPT !.adm = a, !.current = NoEntry, !.retired = NoEntry,
                     !.paused = FALSE, !.expired = FALSE]
  BY <1>3, <1>4, <1>7
<1> HIDE DEF a, b, c, t
<1>11. /\ t \in State /\ t.adm = a /\ t.current = NoEntry /\ t.retired = NoEntry
       /\ t.paused = FALSE /\ t.due = c.due
  BY <1>4, <1>8, <1>10 DEF State
<1>12. \A y \in t.due : y.owner <= t.adm.suspendGen
  <2>1. \A y \in due : y.owner \in Nat /\ y.owner <= adm.suspendGen
    BY <1>1 DEF Good, State, Timer
  <2>2. \A y \in due : y.owner <= m
    BY <1>1, <1>6, <2>1 DEF Admission
  <2> QED BY <1>3, <1>4, <1>8, <1>11, <2>2
<1>13. NoEntry.kind = "none"
  BY DEF NoEntry
<1>14. Good(t) /\ Later(Now, t)
  BY <1>8, <1>11, <1>12, <1>13 DEF Good, Later
<1> QED BY <1>2, <1>9, <1>14, Take DEF StepGood, Ends

\* Root work leaves the coordinator alone and parks at the gate.
LEMMA WorkGood == ASSUME Good(Now), WorkStep, UNCHANGED coordVars PROVE StepGood
<1>1. Now.adm = adm /\ adm \in Admission
  BY DEF Now, Good, State
<1>2. Good(Now)' /\ Later(Now, Now')
  <2>1. CASE adm' = adm
    BY <1>1, <2>1, GateMoves DEF Good
  <2>2. ASSUME NEW c \in Chain, adm' = [adm EXCEPT !.waiters = @ \cup {c}], ~adm.draining
        PROVE  Good(Now)' /\ Later(Now, Now')
    <3> DEFINE a == [adm EXCEPT !.waiters = @ \cup {c}]
    <3>1. a \in Admission /\ a.phase = adm.phase /\ a.guarded = adm.guarded
          /\ a.suspendGen = adm.suspendGen /\ a.draining = adm.draining
      BY <1>1 DEF Admission
    <3>2. adm' = a
      BY <2>2
    <3> HIDE DEF a
    <3> QED BY <2>2, <3>1, <3>2, GateMoves
  <2> QED BY <1>1, <2>1, <2>2, WorkAtGate DEF AdmType
<1> QED BY <1>2 DEF StepGood, Ends, coordVars

-----------------------------------------------------------------------------
(* A prepared gateway is quiet.                                            *)

\* PreparedIsQuiet, where the root that was not counted is one that was made:
\* the origin of such a root never changes.
Quiet ==
    adm.phase = "prepared" /\ active # {} =>
        \E line \in Root :
            /\ \A r \in active : roots[r].origin = line
            /\ \/ current.excused \in Made /\ roots[current.excused].origin = line
               \/ \E c \in Chain : chains[c].lease = line /\ chains[c].kind = "restart"

\* A call of the coordinator finds the gateway as quiet as it leaves it.
LEMMA CallKeepsQuiet ==
    ASSUME WorkInv, Lines, Quiet, Later(Now, Now'), UNCHANGED workVars
    PROVE  Quiet'
<1>0. /\ roots' = roots /\ active' = active /\ chains' = chains
      /\ Now.adm = adm /\ Now.current = current /\ Now'.adm = adm' /\ Now'.current = current'
  BY DEF workVars, Now
<1>1. Made' = Made /\ active \subseteq Made
  BY <1>0 DEF Made
<1> SUFFICES ASSUME adm'.phase = "prepared", active # {}
             PROVE  \E line \in Root :
                       /\ \A r \in active : roots[r].origin = line
                       /\ \/ current'.excused \in Made /\ roots[current'.excused].origin = line
                          \/ \E c \in Chain : chains[c].lease = line /\ chains[c].kind = "restart"
  BY <1>0, <1>1 DEF Quiet
<1>2. CASE adm.phase = "prepared" /\ current'.excused = current.excused
  BY <1>2 DEF Quiet
<1>3. CASE active \subseteq {current'.excused}
  <2>1. active = {current'.excused} /\ current'.excused \in Made
    BY <1>1, <1>3
  <2>2. roots[current'.excused].origin \in Root
    BY <2>1 DEF Lines
  <2> QED BY <2>1, <2>2
<1> QED BY <1>0, <1>2, <1>3 DEF Later

\* Work that comes to a prepared gateway comes in the line that is there.
LEMMA WorkKeepsQuiet ==
    ASSUME WorkInv, Lines, Quiet, LinesStay, Grows,
           adm'.phase = adm.phase, current' = current
    PROVE  Quiet'
<1>0. active \subseteq Made /\ active \subseteq Root
  BY DEF Made, WorkInv, WorkType
<1> SUFFICES ASSUME adm.phase = "prepared", active' # {}
             PROVE  \E line \in Root :
                       /\ \A r \in active' : roots'[r].origin = line
                       /\ \/ current.excused \in Made' /\ roots'[current.excused].origin = line
                          \/ \E c \in Chain : chains'[c].lease = line /\ chains'[c].kind = "restart"
  BY DEF Quiet
<1>1. ASSUME NEW line \in Root,
             \/ current.excused \in Made /\ roots[current.excused].origin = line
             \/ \E c \in Chain : chains[c].lease = line /\ chains[c].kind = "restart"
      PROVE  \/ current.excused \in Made' /\ roots'[current.excused].origin = line
             \/ \E c \in Chain : chains'[c].lease = line /\ chains'[c].kind = "restart"
  <2>1. line # NoRoot
    BY AdmissionAssumption
  <2> QED BY <1>1, <2>1 DEF LinesStay
<1>2. CASE active' \subseteq active
  <2>1. PICK line \in Root :
           /\ \A r \in active : roots[r].origin = line
           /\ \/ current.excused \in Made /\ roots[current.excused].origin = line
              \/ \E c \in Chain : chains[c].lease = line /\ chains[c].kind = "restart"
    BY <1>2 DEF Quiet
  <2>2. \A r \in active' : roots'[r].origin = line
    BY <1>0, <1>2, <2>1 DEF LinesStay
  <2> QED BY <1>1, <2>1, <2>2
<1>3. ASSUME NEW r \in Root, active' = active \cup {r}, active = {}, roots'[r].origin = r,
             \E c \in Chain : chains'[c].lease = r /\ chains'[c].kind = "restart"
      PROVE  \E line \in Root :
                /\ \A q \in active' : roots'[q].origin = line
                /\ \/ current.excused \in Made' /\ roots'[current.excused].origin = line
                   \/ \E c \in Chain : chains'[c].lease = line /\ chains'[c].kind = "restart"
  <2>1. \A q \in active' : roots'[q].origin = r
    BY <1>3
  <2> QED BY <1>3, <2>1
<1>4. ASSUME NEW r \in Root, active' = active \cup {r},
             \E q \in active : roots'[r].origin = roots[q].origin
      PROVE  \E line \in Root :
                /\ \A q \in active' : roots'[q].origin = line
                /\ \/ current.excused \in Made' /\ roots'[current.excused].origin = line
                   \/ \E c \in Chain : chains'[c].lease = line /\ chains'[c].kind = "restart"
  <2>1. PICK line \in Root :
           /\ \A q \in active : roots[q].origin = line
           /\ \/ current.excused \in Made /\ roots[current.excused].origin = line
              \/ \E c \in Chain : chains[c].lease = line /\ chains[c].kind = "restart"
    BY <1>4 DEF Quiet
  <2>2. \A q \in active' : roots'[q].origin = line
    BY <1>0, <1>4, <2>1 DEF LinesStay
  <2> QED BY <1>1, <2>1, <2>2
<1> QED BY <1>2, <1>3, <1>4 DEF Grows, Enters

-----------------------------------------------------------------------------
(* The inductive invariant.                                                *)

SuspendInv == Good(Now) /\ WorkInv /\ Lines /\ Quiet

\* At the beginning there is no entry, the gate is open and nobody is at work.
LEMMA SuspendBegins == Init => SuspendInv
<1> SUFFICES ASSUME Init PROVE SuspendInv
  OBVIOUS
<1>1. WorkInv /\ Lines
  BY WorkInitCounts, LinesBegin DEF Init
<1>2. /\ adm \in Admission /\ adm.phase = "accepting" /\ ~adm.guarded /\ ~adm.draining
      /\ ~adm.signal
  BY DEF Init, AdmInit, Admission, Phases
<1>3. NoEntry.kind = "none"
  BY DEF NoEntry
<1>4. /\ Now \in State /\ Now.adm = adm /\ Now.current = NoEntry /\ Now.retired = NoEntry
      /\ Now.paused = FALSE /\ Now.due = {}
  BY <1>2 DEF Init, Now, State
<1>5. Good(Now)
  BY <1>2, <1>3, <1>4 DEF Good
<1> QED BY <1>1, <1>2, <1>5 DEF SuspendInv, Quiet

\* What every step does, a stuttering one included.
LEMMA SuspendStep ==
    ASSUME SuspendInv, [Next]_vars
    PROVE  SuspendInv' /\ Ends
<1>0. Good(Now) /\ WorkInv /\ Lines /\ Quiet
  BY DEF SuspendInv
<1>1. ASSUME StepGood, UNCHANGED workVars PROVE SuspendInv' /\ Ends
  BY <1>0, <1>1, WorkStands, LinesStand, CallKeepsQuiet DEF SuspendInv, StepGood
<1>2. CASE WorkStep /\ UNCHANGED coordVars
  <2>1. StepGood
    BY <1>0, <1>2, WorkGood
  <2>2. WorkInv' /\ Lines' /\ LinesStay /\ Grows
    BY <1>0, <1>2, WorkStepCounts, WorkLines
  <2>3. adm'.phase = adm.phase
    <3>1. adm \in Admission
      BY <1>0 DEF Good, State, Now
    <3> QED BY <1>2, <3>1, WorkAtGate DEF AdmType, Admission
  <2>4. Quiet'
    BY <1>0, <1>2, <2>2, <2>3, WorkKeepsQuiet DEF coordVars
  <2> QED BY <2>1, <2>2, <2>4 DEF SuspendInv, StepGood
<1>3. ASSUME NEW request \in Request, NEW drain \in BOOLEAN, NEW caller \in Root \cup {NoRoot},
             Renew(request, drain, caller)
      PROVE  SuspendInv' /\ Ends
  BY <1>0, <1>1, <1>3, RenewGood DEF Renew
<1>4. ASSUME NEW request \in Request, NEW drain \in BOOLEAN, NEW caller \in Root \cup {NoRoot},
             Prepare(request, drain, caller)
      PROVE  SuspendInv' /\ Ends
  <2>1. UNCHANGED workVars
    BY <1>4 DEF Prepare
  <2> QED BY <1>0, <1>1, <1>4, <2>1, PrepareGood
<1>5. ASSUME NEW owner \in Owners, Resume(owner) PROVE SuspendInv' /\ Ends
  <2>1. UNCHANGED workVars
    BY <1>5 DEF Resume
  <2> QED BY <1>0, <1>1, <1>5, <2>1, ResumeStepGood
<1>6. ASSUME NEW owner \in Owners, NEW caller \in Root \cup {NoRoot}, Status(owner, caller)
      PROVE  SuspendInv' /\ Ends
  <2>1. UNCHANGED workVars
    BY <1>6 DEF Status
  <2> QED BY <1>0, <1>1, <1>6, <2>1, StatusGood
<1>7. CASE WallClock
  BY <1>0, <1>1, <1>7, WallClockGood DEF WallClock, workVars
<1>8. CASE TimerDue
  BY <1>0, <1>1, <1>8, TimerDueGood DEF TimerDue, workVars
<1>9. ASSUME NEW t \in due, NEW resumes \in BOOLEAN, RunTimer(t, resumes)
      PROVE  SuspendInv' /\ Ends
  <2>1. UNCHANGED workVars
    BY <1>9 DEF RunTimer
  <2> QED BY <1>0, <1>1, <1>9, <2>1, RunTimerGood
<1>10. CASE MarkDraining
  BY <1>0, <1>1, <1>10, MarkDrainingGood DEF MarkDraining
<1>11. CASE RaiseFence \/ LowerFence
  BY <1>0, <1>1, <1>11, FenceGood DEF RaiseFence, LowerFence, workVars
<1>12. CASE LifecycleRestart
  <2>1. RetireRoots /\ active' = {}
    BY <1>12 DEF LifecycleRestart, RetireRoots
  <2>2. StepGood
    BY <1>0, <1>12, RestartGood
  <2>3. WorkInv' /\ Lines'
    BY <1>0, <2>1, RetireCounts, RetireLines
  <2> QED BY <2>1, <2>2, <2>3 DEF SuspendInv, StepGood, Quiet
<1>13. CASE UNCHANGED vars
  <2>1. Good(Now)' /\ Later(Now, Now') /\ Ends
    BY <1>0, <1>13 DEF Good, Later, Ends, Now, vars, coordVars
  <2> QED BY <1>1, <1>13, <2>1 DEF StepGood, vars
<1> QED BY <1>2, <1>3, <1>4, <1>5, <1>6, <1>7, <1>8, <1>9, <1>10, <1>11, <1>12, <1>13 DEF Next

\* The coordinator, the gate behind it, the root work and the callbacks in the queue stay
\* consistent through every RPC, timer, restart and admission.
THEOREM SuspendInvariant == Spec => []SuspendInv
<1>1. Init => SuspendInv
  BY SuspendBegins
<1>2. SuspendInv /\ [Next]_vars => SuspendInv'
  BY SuspendStep
<1> QED BY <1>1, <1>2, PTL DEF Spec

\* TypeOK: entries, timers, gate and root records keep their shape through
\* every call, timer, restart and admission.
THEOREM TypeCorrect == Spec => []TypeOK
<1>1. SuspendInv => TypeOK
  BY DEF SuspendInv, Good, State, Now, TypeOK, AdmType, WorkInv, Timer
<1> QED BY <1>1, SuspendInvariant, PTL

\* CoordinatorAgrees: the coordinator has an entry exactly while the gate is
\* closed for a suspension, it owns the current generation, and the status the
\* host polls is the phase of the gate (gateway-suspend-coordinator.ts).
THEOREM CoordinatorAndGateAgree == Spec => []CoordinatorAgrees
<1>1. SuspendInv => CoordinatorAgrees
  <2> SUFFICES ASSUME Good(Now) PROVE CoordinatorAgrees
    BY DEF SuspendInv
  <2>1. Now.adm = adm /\ Now.current = current /\ current \in Entry \cup {NoEntry}
    BY DEF Now, Good, State
  <2>2. current.kind = "held" => current.phase \in {"draining", "ready"}
    BY <2>1 DEF Good, Entry, NoEntry
  <2> QED BY <2>1, <2>2 DEF Good, CoordinatorAgrees, GatePhase
<1> QED BY <1>1, SuspendInvariant, PTL

\* SchedulerOwned: the cron scheduler is paused exactly while an entry, current
\* or put aside by a restart, is there to resume it.
THEOREM SchedulerIsOwned == Spec => []SchedulerOwned
<1>1. SuspendInv => SchedulerOwned
  BY DEF SuspendInv, Good, Now, SchedulerOwned
<1> QED BY <1>1, SuspendInvariant, PTL

\* PreparedIsQuiet: all roots at work in a prepared gateway come from one line,
\* that of the caller the inspection did not count or of an admitted restart.
THEOREM PreparedMeansQuiet == Spec => []PreparedIsQuiet
<1>1. SuspendInv => PreparedIsQuiet
  <2> SUFFICES ASSUME WorkInv, Quiet PROVE PreparedIsQuiet
    BY DEF SuspendInv
  <2>1. NoRoot \notin Made
    BY AdmissionAssumption DEF Made, WorkInv, WorkType
  <2> QED BY <2>1 DEF Quiet, PreparedIsQuiet
<1> QED BY <1>1, SuspendInvariant, PTL

\* LeaseKept: a held lease ends by expiry, by its own timer, by a drain or by
\* its holder, never by a callback queued before a renewal (scheduleEntry,
\* clearEntryTimer).
THEOREM LeasesAreKept == Spec => LeaseKept
<1>1. SuspendInv /\ [Next]_vars =>
        [current.kind = "held" /\ current'.kind # "held" =>
           expired \/ ~current.armed \/ adm'.draining \/ Resume(current.owner)]_vars
  BY SuspendStep DEF Ends
<1> QED BY <1>1, SuspendInvariant, PTL DEF Spec, LeaseKept
-----------------------------------------------------------------------------
(* No entry is forgotten.  What liveness needs of the timers is a matter of *)
(* safety: every entry is still awaited, and the callback that comes for it *)
(* opens the gate as soon as the scheduler resumes.                         *)

\* The timer of the entry is set, or its callback is queued and still counts.
Awaited(s) ==
    s.current.kind # "none" =>
        \/ s.current.armed
        \/ \E x \in s.due : x.live /\ x.owner = s.current.owner /\ x.kind = s.current.kind

\* Who cannot open the gate sets the timer of the recovery.
LEMMA ResumeAwaited ==
    ASSUME NEW s, Good(s), s.current.kind # "none", NEW resumes \in BOOLEAN
    PROVE  LET t == ResumeAndReopen(s, resumes)
           IN  /\ Awaited(t)
               /\ resumes => t.adm.phase = "accepting" /\ ~t.paused /\ t.current = NoEntry
<1> DEFINE c == TimerCleared(s, s.current)
           f == [s.current EXCEPT !.kind = "recovering", !.armed = TRUE]
           t == ResumeAndReopen(s, resumes)
<1>1. s \in State /\ s.current \in Entry /\ s.adm \in Admission
  BY EntryIs DEF Good, State
<1>2. c \in State /\ c.adm = s.adm /\ c.current = s.current
  BY <1>1, ClearedCurrent, Zenon
<1> HIDE DEF c
<1>3. CASE ~resumes
  <2>1. t = [c EXCEPT !.current = f, !.expired = FALSE]
    BY <1>1, <1>2, <1>3 DEF ResumeAndReopen, EnterRecovery, State, c
  <2>2. f.armed
    BY <1>1 DEF Entry
  <2> HIDE DEF t, f
  <2>3. t.current = f
    BY <1>2, <2>1 DEF State
  <2>4. Awaited(t)
    BY <2>2, <2>3 DEF Awaited
  <2> QED BY <1>3, <2>4 DEF t
<1>4. CASE resumes
  <2> DEFINE a == [s.adm EXCEPT !.phase = "accepting", !.guarded = FALSE, !.waiters = {}]
  <2>1. CanReopen(s, s.current)
    BY <1>1 DEF CanReopen, CanMove, Good, GatePhase, Entry
  <2>2. Move(s.adm, "accepting") = a
    BY <1>1 DEF Move, ResolveWaiters, Admission
  <2>3. t = [c EXCEPT !.paused = FALSE, !.adm = a, !.current = NoEntry, !.expired = FALSE]
    BY <1>2, <1>4, <2>1, <2>2 DEF ResumeAndReopen, State, c
  <2>4. a.phase = "accepting"
    BY <1>1 DEF Admission
  <2> HIDE DEF t, a
  <2>5. t.adm = a /\ t.current = NoEntry /\ t.paused = FALSE
    BY <1>2, <2>3 DEF State
  <2>6. Awaited(t)
    BY <2>5 DEF Awaited, NoEntry
  <2> QED BY <2>4, <2>5, <2>6 DEF t
<1> QED BY <1>3, <1>4

\* A call that meets an overdue lease leaves what it becomes awaited.
LEMMA NormalizedAwaited ==
    ASSUME Good(Now), Awaited(Now), NEW resumes \in BOOLEAN
    PROVE  Awaited(Normalized(resumes))
<1>1. Now.current = current
  BY DEF Now
<1>2. CASE current.kind = "held" /\ expired
  BY <1>1, <1>2, ResumeAwaited DEF Normalized
<1>3. CASE ~(current.kind = "held" /\ expired)
  BY <1>3 DEF Normalized
<1> QED BY <1>2, <1>3

\* A renewed lease has a new timer.
LEMMA RenewedAwaited ==
    ASSUME NEW s, Good(s), s.current.kind = "held"
    PROVE  Awaited(Renewed(s))
<1> DEFINE c == TimerCleared(s, s.current)
           f == [s.current EXCEPT !.armed = TRUE]
           t == Renewed(s)
<1>1. s \in State /\ s.current \in Entry
  BY EntryIs DEF Good, State
<1>2. c \in State /\ c.current = s.current
  BY <1>1, ClearedCurrent, Zenon
<1> HIDE DEF c
<1>3. t = [c EXCEPT !.current = f, !.expired = FALSE]
  BY <1>1, <1>2 DEF Renewed, State, c
<1>4. f.armed
  BY <1>1 DEF Entry
<1> HIDE DEF t, f
<1>5. t.current = f
  BY <1>2, <1>3 DEF State
<1>6. Awaited(t)
  BY <1>4, <1>5 DEF Awaited
<1> QED BY <1>6 DEF t

\* A promotion leaves the timer of the lease as it is.
LEMMA RefreshedAwaited ==
    ASSUME NEW s, Good(s), Awaited(s), s.current.kind = "held",
           NEW caller \in Root \cup {NoRoot}, NEW other \in BOOLEAN
    PROVE  Awaited(Refreshed(s, caller, other))
<1> DEFINE f == [s.current EXCEPT !.phase = "ready", !.excused = caller]
           t == Refreshed(s, caller, other)
<1>1. s \in State /\ s.current \in Entry
  BY EntryIs DEF Good, State
<1>2. /\ f.kind = s.current.kind /\ f.owner = s.current.owner /\ f.armed = s.current.armed
  BY <1>1 DEF Entry
<1>3. t = s \/ t = [s EXCEPT !.adm = Move(@, "prepared"), !.current = f]
  BY <1>1 DEF Refreshed, State
<1> HIDE DEF t, f
<1>4. t = s \/ (t.current = f /\ t.due = s.due)
  BY <1>1, <1>3 DEF State
<1>5. Awaited(t)
  BY <1>2, <1>4 DEF Awaited
<1> QED BY <1>5 DEF t

\* Whatever entry a preparation leaves, held or recovering, comes with a timer
\* (armExpiry, armSchedulerRecovery).
LEMMA PreparedAwaited ==
    ASSUME NEW s, Good(s), s.current.kind = "none", NEW e \in Entry, e.armed,
           NEW other \in BOOLEAN, NEW inspects \in BOOLEAN, NEW resumes \in BOOLEAN
    PROVE  Awaited(Prepared(s, e, other, inspects, resumes))
<1> DEFINE t == Prepared(s, e, other, inspects, resumes)
           closed == [s EXCEPT !.adm = Suspend(@), !.paused = TRUE]
<1>1. s \in State
  BY DEF Good
<1>2. t.current = s.current \/ t.current.armed
  <2>1. CASE ~CanSuspend(s.adm)
    BY <2>1 DEF Prepared
  <2>2. CASE CanSuspend(s.adm)
    <3>1. closed.current = s.current
      BY <1>1 DEF State
    <3>2. CASE ~inspects \/ (~Idle(e.excused, other) /\ ~e.drain)
      <4> DEFINE f == [e EXCEPT !.phase = "preparing"]
      <4>1. t = RolledBack(closed, f, resumes)
        BY <2>2, <3>2 DEF Prepared
      <4>2. [f EXCEPT !.kind = "recovering"].armed
        BY DEF Entry
      <4> HIDE DEF t, closed, f
      <4>3. CASE resumes
        <5>1. t = [closed EXCEPT !.paused = FALSE, !.adm = Move(@, "accepting")]
          BY <4>1, <4>3 DEF RolledBack
        <5>2. t.current = closed.current
          BY <1>1, <5>1 DEF State, closed
        <5> QED BY <3>1, <5>2
      <4>4. CASE ~resumes
        <5>1. t = [closed EXCEPT !.current = [f EXCEPT !.kind = "recovering"]]
          BY <4>1, <4>4 DEF RolledBack
        <5>2. t.current = [f EXCEPT !.kind = "recovering"]
          BY <1>1, <5>1 DEF State, closed
        <5> QED BY <4>2, <5>2
      <4> QED BY <4>3, <4>4
    <3>3. CASE ~(~inspects \/ (~Idle(e.excused, other) /\ ~e.drain))
      <4> DEFINE ph == IF Idle(e.excused, other) THEN "ready" ELSE "draining"
                 g == [e EXCEPT !.phase = ph]
      <4>1. t.current = g
        BY <1>1, <2>2, <3>3 DEF Prepared, State
      <4>2. g.armed
        BY DEF Entry
      <4> QED BY <4>1, <4>2
    <3> QED BY <3>2, <3>3
  <2> QED BY <2>1, <2>2
<1> HIDE DEF t
<1>3. Awaited(t)
  BY <1>2 DEF Awaited
<1> QED BY <1>3 DEF t

\* What the calls of the host and the callbacks of its timers leave is awaited.
LEMMA CallsAwaited ==
    ASSUME Good(Now), Awaited(Now),
           \/ \E request \in Request, drain \in BOOLEAN, caller \in Root \cup {NoRoot} :
                  Renew(request, drain, caller) \/ Prepare(request, drain, caller)
           \/ \E owner \in Owners : \/ Resume(owner)
                                    \/ \E caller \in Root \cup {NoRoot} : Status(owner, caller)
    PROVE  Awaited(Now)'
<1>1. ASSUME NEW s, Good(s), Awaited(s), Becomes(s) PROVE Awaited(Now)'
  BY <1>1, Take DEF Awaited
<1>2. ASSUME NEW request \in Request, NEW drain \in BOOLEAN, NEW caller \in Root \cup {NoRoot},
             Renew(request, drain, caller)
      PROVE  Awaited(Now)'
  <2>1. PICK other \in BOOLEAN, inspects \in BOOLEAN :
            /\ current.kind = "held"
            /\ Becomes(IF inspects THEN Refreshed(Renewed(Now), caller, other) ELSE Renewed(Now))
    BY <1>2 DEF Renew
  <2> DEFINE r == Renewed(Now)
  <2>2. Good(r) /\ r.current.kind = "held" /\ Awaited(r)
    BY <2>1, RenewedGood, RenewedAwaited DEF Now
  <2>3. Becomes(IF inspects THEN Refreshed(r, caller, other) ELSE r)
    BY <2>1
  <2> HIDE DEF r
  <2> QED BY <1>1, <2>2, <2>3, RefreshedGood, RefreshedAwaited
<1>3. ASSUME NEW request \in Request, NEW drain \in BOOLEAN, NEW caller \in Root \cup {NoRoot},
             Prepare(request, drain, caller)
      PROVE  Awaited(Now)'
  <2> DEFINE Taken(s) == [kind |-> "held", owner |-> s.adm.suspendGen + 1, request |-> request,
                          drain |-> drain, phase |-> "draining", armed |-> TRUE,
                          excused |-> caller]
  <2>1. PICK other \in BOOLEAN, inspects \in BOOLEAN, resumes \in BOOLEAN, again \in BOOLEAN :
            Becomes(IF Normalized(resumes).current.kind = "none"
                    THEN Prepared(Normalized(resumes), Taken(Normalized(resumes)),
                                  other, inspects, again)
                    ELSE Normalized(resumes))
    BY <1>3, ZenonT(60) DEF Prepare
  <2> DEFINE s == Normalized(resumes)
             e == Taken(s)
  <2>2. Good(s) /\ Awaited(s)
    BY NormalizedGood, NormalizedAwaited
  <2>3. Becomes(IF s.current.kind = "none" THEN Prepared(s, e, other, inspects, again) ELSE s)
    BY <2>1
  <2> HIDE DEF s
  <2>4. s.adm.suspendGen + 1 \in Nat
    BY <2>2 DEF Good, State, Admission
  <2>5. e \in Entry /\ e.kind = "held" /\ e.owner = s.adm.suspendGen + 1
        /\ e.phase = "draining" /\ e.armed
    BY <2>4 DEF Entry
  <2> HIDE DEF e
  <2>6. CASE s.current.kind = "none"
    <3>1. Good(Prepared(s, e, other, inspects, again))
      BY <2>2, <2>5, <2>6, PreparedGood
    <3>2. Awaited(Prepared(s, e, other, inspects, again))
      BY <2>2, <2>5, <2>6, PreparedAwaited
    <3> QED BY <1>1, <2>3, <2>6, <3>1, <3>2
  <2>7. CASE s.current.kind # "none"
    BY <1>1, <2>2, <2>3, <2>7
  <2> QED BY <2>6, <2>7
<1>4. ASSUME NEW owner \in Owners, Resume(owner) PROVE Awaited(Now)'
  <2>1. PICK resumes \in BOOLEAN, again \in BOOLEAN :
            LET s == Normalized(resumes)
            IN  Becomes(IF s.current.kind = "held" /\ s.current.owner = owner
                        THEN ResumeAndReopen(s, again) ELSE s)
    BY <1>4 DEF Resume
  <2> DEFINE s == Normalized(resumes)
  <2>2. Good(s) /\ Awaited(s)
    BY NormalizedGood, NormalizedAwaited
  <2>3. Becomes(IF s.current.kind = "held" /\ s.current.owner = owner
                THEN ResumeAndReopen(s, again) ELSE s)
    BY <2>1
  <2> HIDE DEF s
  <2> QED BY <1>1, <2>2, <2>3, ResumeGood, ResumeAwaited
<1>5. ASSUME NEW owner \in Owners, NEW caller \in Root \cup {NoRoot}, Status(owner, caller)
      PROVE  Awaited(Now)'
  <2>1. PICK other \in BOOLEAN, resumes \in BOOLEAN :
            LET s == Normalized(resumes)
            IN  Becomes(IF s.current.kind = "held" /\ s.current.owner = owner
                        THEN Refreshed(s, caller, other) ELSE s)
    BY <1>5 DEF Status
  <2> DEFINE s == Normalized(resumes)
  <2>2. Good(s) /\ Awaited(s)
    BY NormalizedGood, NormalizedAwaited
  <2>3. Becomes(IF s.current.kind = "held" /\ s.current.owner = owner
                THEN Refreshed(s, caller, other) ELSE s)
    BY <2>1
  <2> HIDE DEF s
  <2> QED BY <1>1, <2>2, <2>3, RefreshedGood, RefreshedAwaited
<1> QED BY <1>2, <1>3, <1>4, <1>5

\* The coordinator's state once a callback has left the queue.
LEMMA Dequeued ==
    ASSUME Good(Now), NEW x \in due
    PROVE  LET s == [Now EXCEPT !.due = @ \ {x}]
           IN  /\ Good(s) /\ s.current = current /\ s.due = due \ {x}
<1> DEFINE s == [Now EXCEPT !.due = @ \ {x}]
<1>1. /\ Now \in State
      /\ Now.adm = adm /\ Now.current = current /\ Now.retired = retired /\ Now.paused = paused
      /\ Now.due = due
  BY DEF Now, Good
<1>2. /\ s \in State /\ s.adm = adm /\ s.current = current /\ s.retired = retired
      /\ s.paused = paused /\ s.due = due \ {x}
  BY <1>1 DEF State
<1> HIDE DEF s
<1>3. Good(s)
  BY <1>1, <1>2 DEF Good
<1> QED BY <1>2, <1>3 DEF s

\* A callback that still counts is answered by the end of the entry or by a new
\* timer; one that does not is not what the entry waits for.
LEMMA RunTimerAwaited ==
    ASSUME Good(Now), Awaited(Now), NEW x \in due, NEW resumes \in BOOLEAN,
           RunTimer(x, resumes)
    PROVE  /\ Awaited(Now)'
           /\ resumes /\ x.live /\ x.owner = current.owner /\ x.kind = current.kind
                 => adm'.phase = "accepting" /\ ~paused' /\ current'.kind = "none"
<1> DEFINE s == [Now EXCEPT !.due = @ \ {x}]
           mine == x.live /\ x.owner = current.owner /\ x.kind = current.kind
           t == IF mine THEN ResumeAndReopen(s, resumes) ELSE s
<1>1. Good(s) /\ s.current = current /\ s.due = due \ {x}
  BY Dequeued, Zenon
<1>2. Becomes(t)
  BY DEF RunTimer
<1>3. x.kind # "none"
  BY DEF Good, State, Timer, Now
<1>4. Now.current = current /\ Now.due = due
  BY DEF Now
<1> HIDE DEF s
<1>5. CASE mine
  <2>1. s.current.kind # "none"
    BY <1>1, <1>3, <1>5
  <2>2. Good(t)
    BY <1>1, <1>5, <2>1, ResumeGood
  <2>3. Awaited(t) /\ (resumes => /\ t.adm.phase = "accepting" /\ ~t.paused
                                  /\ t.current = NoEntry)
    BY <1>1, <1>5, <2>1, ResumeAwaited
  <2> HIDE DEF t
  <2>4. Awaited(Now)' /\ adm' = t.adm /\ current' = t.current /\ paused' = t.paused
    BY <1>2, <2>2, <2>3, Take DEF Awaited, Becomes
  <2> QED BY <2>3, <2>4 DEF NoEntry
<1>6. CASE ~mine
  <2>1. t = s
    BY <1>6
  <2>2. Awaited(s)
    BY <1>1, <1>4, <1>6 DEF Awaited
  <2>3. Awaited(Now)'
    BY <1>1, <1>2, <2>1, <2>2, Take DEF Awaited
  <2> QED BY <1>6, <2>3
<1> QED BY <1>5, <1>6

\* Nobody forgets an entry: not the calls, not time, not a restart.
LEMMA AwaitedStep ==
    ASSUME SuspendInv, Awaited(Now), [Next]_vars
    PROVE  Awaited(Now)'
<1>0. Good(Now)
  BY DEF SuspendInv
<1>1. Now.current = current /\ Now.due = due /\ Now'.current = current' /\ Now'.due = due'
  BY DEF Now
<1>2. CASE UNCHANGED <<current, due>>
  BY <1>1, <1>2 DEF Awaited
<1>3. CASE current' = NoEntry
  BY <1>1, <1>3 DEF Awaited, NoEntry
<1>4. CASE TimerDue
  <2> DEFINE x == [owner |-> current.owner, kind |-> current.kind, live |-> TRUE]
  <2>1. current \in Entry
    <3>1. current \in Entry \cup {NoEntry}
      BY <1>0, <1>1 DEF Good, State
    <3>2. current # NoEntry
      BY <1>4 DEF TimerDue, NoEntry
    <3> QED BY <3>1, <3>2
  <2>2. current'.owner = current.owner /\ current'.kind = current.kind
    BY <1>4, <2>1 DEF TimerDue, Entry
  <2>3. x \in due' /\ x.live /\ x.owner = current.owner /\ x.kind = current.kind
    BY <1>4 DEF TimerDue
  <2> HIDE DEF x
  <2> QED BY <1>1, <2>2, <2>3 DEF Awaited
<1>5. CASE MarkDraining
  <2>1. CASE adm.guarded /\ current.owner = adm.suspendGen /\ current.kind # "none"
    <3> DEFINE c == TimerCleared(Now, current)
               t == [c EXCEPT !.adm = Drain(@), !.current = NoEntry, !.retired = current,
                              !.expired = FALSE]
    <3>1. c \in State
      BY <1>0, <1>1, ClearedCurrent, Zenon DEF Good
    <3>2. current' = t.current
      BY <1>5, <2>1 DEF MarkDraining, Becomes
    <3> HIDE DEF c
    <3>3. t.current = NoEntry
      BY <3>1 DEF State
    <3> QED BY <1>3, <3>2, <3>3
  <2>2. CASE ~(adm.guarded /\ current.owner = adm.suspendGen /\ current.kind # "none")
    <3>1. current' = [Now EXCEPT !.adm = Drain(@)].current
          /\ due' = [Now EXCEPT !.adm = Drain(@)].due
      BY <1>5, <2>2 DEF MarkDraining, Becomes
    <3> QED BY <1>2, <3>1 DEF Now
  <2> QED BY <2>1, <2>2
<1>6. CASE LifecycleRestart
  <2> DEFINE b == TimerCleared(Now, current)
             c == TimerCleared(b, retired)
             t == [c EXCEPT !.adm = Reopen(@), !.current = NoEntry, !.retired = NoEntry,
                            !.paused = FALSE, !.expired = FALSE]
  <2>1. b \in State
    BY <1>0, Cleared, Zenon DEF Good
  <2>2. c \in State
    <3> HIDE DEF b
    <3> QED BY <2>1, Cleared, Zenon
  <2>3. current' = t.current
    BY <1>6 DEF LifecycleRestart, Becomes
  <2> HIDE DEF b, c
  <2>4. t.current = NoEntry
    BY <2>2 DEF State
  <2> QED BY <1>3, <2>3, <2>4
<1>7. CASE (WorkStep /\ UNCHANGED coordVars) \/ WallClock \/ RaiseFence \/ LowerFence
           \/ UNCHANGED vars
  BY <1>2, <1>7 DEF WallClock, RaiseFence, LowerFence, vars, coordVars
<1>8. ASSUME NEW x \in due, NEW resumes \in BOOLEAN, RunTimer(x, resumes)
      PROVE  Awaited(Now)'
  BY <1>0, <1>8, RunTimerAwaited
<1>9. CASE \/ \E request \in Request, drain \in BOOLEAN, caller \in Root \cup {NoRoot} :
                  Renew(request, drain, caller) \/ Prepare(request, drain, caller)
           \/ \E owner \in Owners : \/ Resume(owner)
                                    \/ \E caller \in Root \cup {NoRoot} : Status(owner, caller)
  BY <1>0, <1>9, CallsAwaited
<1> QED BY <1>4, <1>5, <1>6, <1>7, <1>8, <1>9 DEF Next

\* Whoever suspended the gate, there is a timer to open it again.
SuspensionAwaited ==
    adm.phase # "accepting" =>
        \/ current.armed
        \/ \E x \in due : x.live /\ x.owner = current.owner /\ x.kind = current.kind

\* The gate is closed for a suspension only while the entry's timer is set or its
\* callback is queued and still counts: no failing resume, renewal or late
\* callback leaves a lease that nothing will end (scheduleEntry, enterRecovery).
THEOREM SuspensionIsAwaited == Spec => []SuspensionAwaited
<1>1. Init => Awaited(Now)
  BY DEF Init, Awaited, Now, NoEntry
<1>2. SuspendInv /\ Awaited(Now) /\ [Next]_vars => Awaited(Now)'
  BY AwaitedStep
<1>3. SuspendInv /\ Awaited(Now) => SuspensionAwaited
  BY DEF SuspendInv, Good, Awaited, Now, SuspensionAwaited
<1> QED BY <1>1, <1>2, <1>3, SuspendInvariant, PTL DEF Spec

\* The callback that the entry waits for, if the scheduler resumes in it, opens the
\* gate and leaves neither a pause nor an entry: the branch of resumeAndReopen in
\* which the release is refused is not reached.
THEOREM ExpiryReopens ==
    Spec => [][\A x \in due :
                 RunTimer(x, TRUE) /\ x.live /\ x.owner = current.owner
                                   /\ x.kind = current.kind
                     => adm'.phase = "accepting" /\ ~paused' /\ current'.kind = "none"]_vars
<1> DEFINE Opens == \A x \in due :
               RunTimer(x, TRUE) /\ x.live /\ x.owner = current.owner /\ x.kind = current.kind
                   => adm'.phase = "accepting" /\ ~paused' /\ current'.kind = "none"
<1>1. Init => Awaited(Now)
  BY DEF Init, Awaited, Now, NoEntry
<1>2. SuspendInv /\ Awaited(Now) /\ [Next]_vars => Awaited(Now)'
  BY AwaitedStep
<1>3. SuspendInv /\ Awaited(Now) => Opens
  BY RunTimerAwaited DEF SuspendInv
<1> HIDE DEF Opens
<1>4. Spec => [][Opens]_vars
  BY <1>1, <1>2, <1>3, SuspendInvariant, PTL DEF Spec
<1> QED BY <1>4 DEF Opens
=============================================================================
