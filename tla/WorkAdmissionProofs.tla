------------------------ MODULE WorkAdmissionProofs ------------------------
(***************************************************************************)
(* Lemmas on root work, for any number of chains, roots and scopes and for *)
(* whoever moves the gate: it is counted exactly, it only parks at the     *)
(* gate, and every root descends from one that entered by itself.          *)
(***************************************************************************)
EXTENDS WorkAdmission, FiniteSetTheorems, TLAPS

\* Handles name roots that were made: a root is never handed out again, so a
\* fresh one has no old handle.
Known ==
    /\ \A c \in Chain : chains[c].lease \in Made \cup {NoRoot}
    /\ \A s \in Scope : scopes[s].root \in Made \cup {NoRoot}

RootRecord == [references : Nat, released : BOOLEAN, retired : BOOLEAN,
               origin : Root \cup {NoRoot}]

WorkInv == WorkType /\ Known /\ ReferencesCounted

-----------------------------------------------------------------------------
(* Handles.                                                                *)

\* The handles of a root are finite, and chains and scopes are different.
LEMMA HandlesFinite ==
    ASSUME NEW r
    PROVE  IsFiniteSet(OpenHandles(r)) /\ OpenHandles(r) \subseteq Chain \cup Scope
<1>1. IsFiniteSet(Chain \cup Scope)
  BY AdmissionAssumption, FS_Union
<1>2. OpenHandles(r) \subseteq Chain \cup Scope
  BY DEF OpenHandles
<1> QED BY <1>1, <1>2, FS_Subset

\* What it takes to be a handle.
LEMMA HandleIs ==
    ASSUME NEW r
    PROVE  /\ \A c \in Chain : c \in OpenHandles(r) <=>
                  chains[c].lease = r /\ chains[c].pc = "running"
           /\ \A s \in Scope : s \in OpenHandles(r) <=>
                  scopes[s].root = r /\ scopes[s].retained /\ ~scopes[s].released
  BY AdmissionAssumption DEF OpenHandles

\* After a step the open handles on a root are those its chains and scopes then hold.
LEMMA HandleIsNext ==
    ASSUME NEW r
    PROVE  /\ \A c \in Chain : c \in OpenHandles(r)' <=>
                  chains'[c].lease = r /\ chains'[c].pc = "running"
           /\ \A s \in Scope : s \in OpenHandles(r)' <=>
                  scopes'[s].root = r /\ scopes'[s].retained /\ ~scopes'[s].released
           /\ OpenHandles(r)' \subseteq Chain \cup Scope
  BY AdmissionAssumption DEF OpenHandles

\* A root without use has neither references nor handles.
LEMMA FreshRoot ==
    ASSUME WorkInv, NEW r \in Root, r \notin Made
    PROVE  roots[r].references = 0 /\ ~roots[r].released /\ OpenHandles(r) = {}
<1>1. r # NoRoot /\ r \notin active /\ ~roots[r].released
  BY AdmissionAssumption DEF Made
<1>2. roots[r].references = 0
  BY <1>1 DEF WorkInv, ReferencesCounted, WorkType
<1>3. \A h \in Chain \cup Scope : h \notin OpenHandles(r)
  BY <1>1, HandleIs DEF WorkInv, Known
<1> QED BY <1>1, <1>2, <1>3, HandlesFinite

\* A handle of root r is created together with its reference.
LEMMA AddHandle ==
    ASSUME WorkInv, NEW r \in Root, NEW h, h \notin OpenHandles(r),
           ~roots[r].released, roots[r].references = Cardinality(OpenHandles(r)),
           OpenHandles(r)' = OpenHandles(r) \cup {h},
           \A q \in Root \ {r} : OpenHandles(q)' = OpenHandles(q) /\ roots'[q] = roots[q],
           roots'[r].references = roots[r].references + 1, ~roots'[r].released,
           active' = active \cup {r}
    PROVE  ReferencesCounted'
<1>1. roots[r].references \in Nat
  BY DEF WorkInv, WorkType
<1>2. Cardinality(OpenHandles(r)') = Cardinality(OpenHandles(r)) + 1
  BY HandlesFinite, FS_AddElement
<1>3. ASSUME NEW q \in Root \ {r}
      PROVE  /\ q \in active' <=> roots'[q].references > 0
             /\ q \in active' => /\ roots'[q].references = Cardinality(OpenHandles(q)')
                                 /\ ~roots'[q].released
  BY DEF WorkInv, ReferencesCounted
<1>4. /\ r \in active' /\ roots'[r].references > 0
      /\ roots'[r].references = Cardinality(OpenHandles(r)')
  BY <1>1, <1>2
<1> QED BY <1>3, <1>4 DEF ReferencesCounted

\* A handle of root r is used: the last one takes the root off the books, and
\* one of a retired root finds nothing to take.
LEMMA DropHandle ==
    ASSUME WorkInv, NEW r \in Root, r \in Made, NEW h \in OpenHandles(r), Release(r),
           OpenHandles(r)' = OpenHandles(r) \ {h},
           \A q \in Root \ {r} : OpenHandles(q)' = OpenHandles(q)
    PROVE  /\ ReferencesCounted'
           /\ roots' \in [Root -> RootRecord]
           /\ active' \subseteq Root /\ Made' = Made
<1> USE DEF WorkInv, WorkType
<1>1. CASE roots[r].released
  <2>1. roots' = roots /\ active' = active \ {r} /\ r \notin active
    BY <1>1 DEF Release, Released, ReferencesCounted
  <2>2. active' = active
    BY <2>1
  <2> QED BY <2>1, <2>2 DEF ReferencesCounted, Made, RootRecord
<1>2. CASE ~roots[r].released
  <2>1. r \in active
    BY <1>2 DEF Made
  <2> DEFINE k == roots[r].references
  <2>2. k \in Nat /\ k > 0 /\ k = Cardinality(OpenHandles(r))
    BY <2>1 DEF ReferencesCounted
  <2>3. Cardinality(OpenHandles(r)') = k - 1
    BY <2>2, HandlesFinite, FS_RemoveElement
  <2>4. PICK last \in BOOLEAN : last <=> k = 1
    <3>1. (k = 1) \in BOOLEAN
      OBVIOUS
    <3> QED BY <3>1
  <2>5. roots' = [roots EXCEPT ![r].references = k - 1, ![r].released = last]
    <3>1. last = (k = 1)
      BY <2>4
    <3> QED BY <1>2, <3>1 DEF Release, Released
  <2>6. /\ roots'[r].references = k - 1 /\ roots'[r].released = last
        /\ \A q \in Root \ {r} : roots'[q] = roots[q]
    BY <2>5
  <2>7. active' = IF last THEN active \ {r} ELSE active
    BY <2>6 DEF Release
  <2> HIDE DEF k
  <2>8. roots' \in [Root -> RootRecord]
    <3>1. k - 1 \in Nat
      BY <2>2
    <3>2. roots \in [Root -> RootRecord]
      BY DEF RootRecord
    <3>3. [roots[r] EXCEPT !.references = k - 1, !.released = last] \in RootRecord
      BY <3>1, <3>2 DEF RootRecord
    <3>4. roots' = [roots EXCEPT ![r] = [roots[r] EXCEPT !.references = k - 1,
                                                         !.released = last]]
      BY <2>5, <3>2
    <3> QED BY <3>2, <3>3, <3>4
  <2>9. ReferencesCounted'
    <3>1. ASSUME NEW q \in Root \ {r}
          PROVE  /\ q \in active' <=> roots'[q].references > 0
                 /\ q \in active' => /\ roots'[q].references = Cardinality(OpenHandles(q)')
                                     /\ ~roots'[q].released
      BY <2>6, <2>7 DEF ReferencesCounted
    <3>2. /\ r \in active' <=> roots'[r].references > 0
          /\ r \in active' => /\ roots'[r].references = Cardinality(OpenHandles(r)')
                              /\ ~roots'[r].released
      <4>1. CASE last
        <5>1. k = 1
          BY <2>4, <4>1
        <5>2. roots'[r].references = 0 /\ r \notin active'
          BY <2>6, <2>7, <4>1, <5>1
        <5> QED BY <5>2
      <4>2. CASE ~last
        <5>1. k - 1 > 0
          BY <2>2, <2>4, <4>2
        <5>2. r \in active' /\ ~roots'[r].released
          BY <2>1, <2>6, <2>7, <4>2
        <5> QED BY <2>3, <2>6, <5>1, <5>2
      <4> QED BY <4>1, <4>2
    <3> QED BY <3>1, <3>2 DEF ReferencesCounted
  <2>10. Made' = Made
    BY <2>1, <2>6, <2>7 DEF Made
  <2> QED BY <2>7, <2>8, <2>9, <2>10
<1> QED BY <1>1, <1>2

\* Nothing is counted differently when neither roots nor handles change.
LEMMA SameHandles ==
    ASSUME WorkInv, UNCHANGED <<roots, active>>,
           \A q \in Root : OpenHandles(q)' = OpenHandles(q)
    PROVE  ReferencesCounted' /\ Made' = Made
  BY DEF WorkInv, ReferencesCounted, Made

-----------------------------------------------------------------------------
(* The steps of root work.                                                 *)

ChainRecord == [pc : {"idle", "waiting", "running", "refused", "done"},
                kind : Entrances, store : Root \cup {NoRoot}, lease : Root \cup {NoRoot}]

\* A chain that holds no handle and gets none changes no count.
LEMMA ChainMoves ==
    ASSUME WorkInv, NEW c \in Chain, NEW v \in ChainRecord,
           chains' = [chains EXCEPT ![c] = v], UNCHANGED <<roots, active, scopes>>,
           \A q \in Root : c \notin OpenHandles(q),
           v.pc # "running" \/ v.lease = NoRoot, v.lease \in Made \cup {NoRoot}
    PROVE  WorkInv'
<1>1. /\ chains'[c] = v /\ \A d \in Chain \ {c} : chains'[d] = chains[d]
      /\ chains' \in [Chain -> ChainRecord]
  BY DEF WorkInv, WorkType, ChainRecord, RootRecord
<1>2. ASSUME NEW q \in Root PROVE OpenHandles(q)' = OpenHandles(q)
  <2>1. q # NoRoot
    BY AdmissionAssumption
  <2>2. \A h \in Chain \cup Scope : h \in OpenHandles(q)' <=> h \in OpenHandles(q)
    BY <1>1, <2>1, HandleIs, HandleIsNext
  <2>3. OpenHandles(q) \subseteq Chain \cup Scope /\ OpenHandles(q)' \subseteq Chain \cup Scope
    BY HandlesFinite, HandleIsNext
  <2> QED BY <2>2, <2>3
<1>3. ReferencesCounted' /\ Made' = Made
  BY <1>2, SameHandles
<1>4. WorkType'
  BY <1>1 DEF WorkInv, WorkType, ChainRecord, RootRecord
<1>5. Known'
  BY <1>1, <1>3 DEF WorkInv, Known
<1> QED BY <1>3, <1>4, <1>5 DEF WorkInv

\* A chain that enters anew makes a root of its own, or holds none.
LEMMA AttemptCounts ==
    ASSUME WorkInv, NEW c \in Chain, NEW k \in Entrances, NEW store \in Root \cup {NoRoot},
           chains[c].pc # "running", Attempt(c, k, store), UNCHANGED scopes
    PROVE  WorkInv'
<1>1. \A q \in Root : c \notin OpenHandles(q)
  BY HandleIs
<1>2. LoopOf(k) \in Entrances
  BY DEF LoopOf, Entrances
<1>3. ASSUME NEW pc \in {"waiting", "running", "refused"}, NEW j \in Entrances,
             chains' = [chains EXCEPT ![c] = [pc |-> pc, kind |-> j, store |-> store,
                                              lease |-> NoRoot]],
             UNCHANGED <<roots, active>>
      PROVE  WorkInv'
  <2> DEFINE v == [pc |-> pc, kind |-> j, store |-> store, lease |-> NoRoot]
  <2>1. v \in ChainRecord /\ v.lease = NoRoot
    BY DEF ChainRecord
  <2>2. chains' = [chains EXCEPT ![c] = v]
    BY <1>3
  <2> HIDE DEF v
  <2> QED BY <1>1, <1>3, <2>1, <2>2, ChainMoves
<1>4. ASSUME NEW r \in Root \ Made, NEW origin \in Root \cup {NoRoot},
             roots' = [roots EXCEPT ![r].references = 1, ![r].origin = origin],
             active' = active \cup {r},
             chains' = [chains EXCEPT ![c] = [pc |-> "running", kind |-> k, store |-> r,
                                              lease |-> r]]
      PROVE  WorkInv'
  <2>1. roots[r].references = 0 /\ ~roots[r].released /\ OpenHandles(r) = {} /\ r # NoRoot
    BY FreshRoot, AdmissionAssumption
  <2>2. /\ roots'[r].references = 1 /\ roots'[r].released = roots[r].released
        /\ \A q \in Root \ {r} : roots'[q] = roots[q]
    BY <1>4 DEF WorkInv, WorkType
  <2>3. /\ chains'[c].lease = r /\ chains'[c].pc = "running"
        /\ \A d \in Chain \ {c} : chains'[d] = chains[d]
    BY <1>4 DEF WorkInv, WorkType
  <2>4. ASSUME NEW q \in Root
        PROVE  OpenHandles(q)' = IF q = r THEN OpenHandles(q) \cup {c} ELSE OpenHandles(q)
    <3>1. \A h \in Chain \cup Scope :
             h \in OpenHandles(q)' <=> h \in OpenHandles(q) \/ (h = c /\ q = r)
      BY <1>1, <2>3, HandleIs, HandleIsNext, AdmissionAssumption
    <3>2. OpenHandles(q) \subseteq Chain \cup Scope /\ OpenHandles(q)' \subseteq Chain \cup Scope
      BY HandlesFinite, HandleIsNext
    <3> QED BY <3>1, <3>2
  <2>5. Cardinality(OpenHandles(r)) = 0
    BY <2>1, FS_EmptySet
  <2>6. OpenHandles(r)' = OpenHandles(r) \cup {c} /\ roots'[r].references = roots[r].references + 1
    BY <2>1, <2>2, <2>4
  <2>7. ReferencesCounted'
    BY <1>1, <1>4, <2>1, <2>2, <2>4, <2>5, <2>6, AddHandle
  <2>8. WorkType'
    <3>1. roots \in [Root -> RootRecord] /\ chains \in [Chain -> ChainRecord]
      BY DEF WorkInv, WorkType, RootRecord, ChainRecord
    <3>2. [roots[r] EXCEPT !.references = 1, !.origin = origin] \in RootRecord
      BY <3>1 DEF RootRecord
    <3>3. roots' \in [Root -> RootRecord]
      BY <1>4, <3>1, <3>2
    <3>4. [pc |-> "running", kind |-> k, store |-> r, lease |-> r] \in ChainRecord
      BY DEF ChainRecord
    <3>5. chains' \in [Chain -> ChainRecord]
      BY <1>4, <3>1, <3>4
    <3> QED BY <1>4, <3>3, <3>5 DEF WorkInv, WorkType, RootRecord, ChainRecord
  <2>9. Made' = Made \cup {r}
    BY <1>4, <2>2 DEF Made
  <2>10. Known'
    BY <2>3, <2>9 DEF WorkInv, Known
  <2> QED BY <2>7, <2>8, <2>10 DEF WorkInv
<1>5. Live(store) => store \in Root /\ roots[store].origin \in Root \cup {NoRoot}
  BY DEF Live, WorkInv, WorkType
<1>6. ASSUME NEW r \in Root
      PROVE  (IF k = "continuation" /\ Live(store) THEN roots[store].origin ELSE r)
               \in Root \cup {NoRoot}
  BY <1>5
<1> QED BY <1>2, <1>3, <1>4, <1>6 DEF Attempt

\* A finished chain uses its handle.
LEMMA FinishCounts ==
    ASSUME WorkInv, NEW c \in Chain, Finish(c)
    PROVE  WorkInv'
<1>0. PICK r \in Root \cup {NoRoot} : r = chains[c].lease
  BY DEF WorkInv, WorkType
<1>1. /\ chains[c].pc = "running" /\ scopes' = scopes
      /\ chains' = [chains EXCEPT ![c].pc = "done"]
  BY DEF Finish
<1>2. /\ chains'[c].pc = "done" /\ chains'[c].lease = r
      /\ \A d \in Chain \ {c} : chains'[d] = chains[d]
      /\ chains' \in [Chain -> ChainRecord]
  BY <1>0, <1>1 DEF WorkInv, WorkType, ChainRecord, RootRecord
<1>3. ASSUME NEW q \in Root
      PROVE  OpenHandles(q)' = IF q = r THEN OpenHandles(q) \ {c} ELSE OpenHandles(q)
  <2>1. \A h \in Chain \cup Scope :
           h \in OpenHandles(q)' <=> h \in OpenHandles(q) /\ ~(h = c /\ q = r)
    BY <1>0, <1>1, <1>2, HandleIs, HandleIsNext, AdmissionAssumption
  <2>2. OpenHandles(q) \subseteq Chain \cup Scope /\ OpenHandles(q)' \subseteq Chain \cup Scope
    BY HandlesFinite, HandleIsNext
  <2> QED BY <2>1, <2>2
<1>4. r \in Made \cup {NoRoot} /\ Made \subseteq Root
  BY <1>0 DEF WorkInv, Known, Made, WorkType
<1>5. CASE r = NoRoot
  <2>1. UNCHANGED <<roots, active>>
    BY <1>0, <1>5 DEF Finish
  <2>2. \A q \in Root : OpenHandles(q)' = OpenHandles(q)
    BY <1>3, <1>5, AdmissionAssumption
  <2>3. ReferencesCounted' /\ Made' = Made
    BY <2>1, <2>2, SameHandles
  <2>4. WorkType'
    BY <1>1, <1>2, <2>1 DEF WorkInv, WorkType, ChainRecord, RootRecord
  <2>5. Known'
    BY <1>1, <1>2, <2>3 DEF WorkInv, Known
  <2> QED BY <2>3, <2>4, <2>5 DEF WorkInv
<1>6. CASE r # NoRoot
  <2>1. r \in Root /\ r \in Made /\ Release(r)
    BY <1>0, <1>4, <1>6 DEF Finish
  <2>2. c \in OpenHandles(r) /\ OpenHandles(r)' = OpenHandles(r) \ {c}
    BY <1>0, <1>1, <1>3, <2>1, HandleIs
  <2>3. \A q \in Root \ {r} : OpenHandles(q)' = OpenHandles(q)
    BY <1>3
  <2>4. /\ ReferencesCounted'
        /\ roots' \in [Root -> RootRecord]
        /\ active' \subseteq Root /\ Made' = Made
    BY <2>1, <2>2, <2>3, DropHandle
  <2>5. WorkType'
    BY <1>1, <1>2, <2>4 DEF WorkInv, WorkType, ChainRecord, RootRecord
  <2>6. Known'
    BY <1>1, <1>2, <2>4 DEF WorkInv, Known
  <2> QED BY <2>4, <2>5, <2>6 DEF WorkInv
<1> QED BY <1>5, <1>6

ScopeRecord == [root : Root \cup {NoRoot}, retained : BOOLEAN, released : BOOLEAN]

\* A retained scope takes a handle of its own.
LEMMA CaptureCounts ==
    ASSUME WorkInv, NEW c \in Chain, NEW s \in Scope, NEW retain \in BOOLEAN,
           Capture(c, s, retain)
    PROVE  WorkInv'
<1>0. PICK r \in Root \cup {NoRoot} : r = chains[c].store
  BY DEF WorkInv, WorkType
<1>1. /\ scopes[s].root = NoRoot /\ r \in active /\ r \in Root /\ ~roots[r].released
      /\ scopes' = [scopes EXCEPT ![s] = [root |-> r, retained |-> retain, released |-> FALSE]]
      /\ active' = active /\ chains' = chains
  BY <1>0 DEF Capture, Live, WorkInv, WorkType
<1>2. /\ scopes'[s].root = r /\ scopes'[s].retained = retain /\ ~scopes'[s].released
      /\ \A t \in Scope \ {s} : scopes'[t] = scopes[t]
      /\ scopes' \in [Scope -> ScopeRecord]
  BY <1>1 DEF WorkInv, WorkType, ScopeRecord, RootRecord
<1>3. roots' = IF retain THEN [roots EXCEPT ![r].references = @ + 1] ELSE roots
  BY <1>0 DEF Capture
<1>4. \A q \in Root : s \notin OpenHandles(q)
  BY <1>1, HandleIs, AdmissionAssumption
<1>5. ASSUME NEW q \in Root
      PROVE  OpenHandles(q)' = IF retain /\ q = r THEN OpenHandles(q) \cup {s}
                               ELSE OpenHandles(q)
  <2>1. \A h \in Chain \cup Scope :
           h \in OpenHandles(q)' <=> h \in OpenHandles(q) \/ (h = s /\ retain /\ q = r)
    BY <1>1, <1>2, <1>4, HandleIs, HandleIsNext, AdmissionAssumption
  <2>2. OpenHandles(q) \subseteq Chain \cup Scope /\ OpenHandles(q)' \subseteq Chain \cup Scope
    BY HandlesFinite, HandleIsNext
  <2> QED BY <2>1, <2>2
<1>6. CASE ~retain
  <2>1. UNCHANGED <<roots, active>>
    BY <1>1, <1>3, <1>6
  <2>2. ReferencesCounted' /\ Made' = Made
    BY <1>5, <1>6, <2>1, SameHandles
  <2>3. WorkType'
    BY <1>1, <1>2, <2>1 DEF WorkInv, WorkType, ScopeRecord, RootRecord
  <2>4. Known'
    BY <1>1, <1>2, <2>2 DEF WorkInv, Known, Made
  <2> QED BY <2>2, <2>3, <2>4 DEF WorkInv
<1>7. CASE retain
  <2>1. roots[r].references \in Nat /\ roots[r].references = Cardinality(OpenHandles(r))
    BY <1>1 DEF WorkInv, WorkType, ReferencesCounted
  <2>2. /\ roots'[r].references = roots[r].references + 1
        /\ roots'[r].released = roots[r].released
        /\ \A q \in Root \ {r} : roots'[q] = roots[q]
        /\ roots' \in [Root -> RootRecord]
    BY <1>1, <1>3, <1>7, <2>1 DEF WorkInv, WorkType, RootRecord
  <2>3. OpenHandles(r)' = OpenHandles(r) \cup {s} /\ s \notin OpenHandles(r)
    BY <1>1, <1>4, <1>5, <1>7
  <2>4. active' = active \cup {r}
    BY <1>1
  <2>5. ReferencesCounted'
    BY <1>1, <1>5, <2>1, <2>2, <2>3, <2>4, AddHandle
  <2>6. Made' = Made
    BY <1>1, <2>2 DEF Made
  <2>7. WorkType'
    BY <1>1, <1>2, <2>2 DEF WorkInv, WorkType, ScopeRecord, RootRecord
  <2>8. Known'
    BY <1>1, <1>2, <2>6 DEF WorkInv, Known, Made
  <2> QED BY <2>5, <2>7, <2>8 DEF WorkInv
<1> QED BY <1>6, <1>7

\* A retained scope uses its handle once, however often it is released.
LEMMA ReleaseScopeCounts ==
    ASSUME WorkInv, NEW s \in Scope, ReleaseScope(s)
    PROVE  WorkInv'
<1>0. PICK r \in Root \cup {NoRoot} : r = scopes[s].root
  BY DEF WorkInv, WorkType
<1>1. /\ r # NoRoot /\ scopes' = [scopes EXCEPT ![s].released = TRUE] /\ chains' = chains
      /\ r \in Root /\ r \in Made
  BY <1>0 DEF ReleaseScope, WorkInv, Known, Made, WorkType
<1>2. /\ scopes'[s].released /\ scopes'[s].root = r
      /\ \A t \in Scope \ {s} : scopes'[t] = scopes[t]
      /\ scopes' \in [Scope -> ScopeRecord]
  BY <1>0, <1>1 DEF WorkInv, WorkType, ScopeRecord, RootRecord
<1>3. ASSUME NEW q \in Root
      PROVE  OpenHandles(q)' = OpenHandles(q) \ {s}
  <2>1. \A h \in Chain \cup Scope :
           h \in OpenHandles(q)' <=> h \in OpenHandles(q) /\ h # s
    BY <1>1, <1>2, HandleIs, HandleIsNext, AdmissionAssumption
  <2>2. OpenHandles(q) \subseteq Chain \cup Scope /\ OpenHandles(q)' \subseteq Chain \cup Scope
    BY HandlesFinite, HandleIsNext
  <2> QED BY <2>1, <2>2
<1>4. \A q \in Root : s \in OpenHandles(q) <=>
                         q = r /\ scopes[s].retained /\ ~scopes[s].released
  BY <1>0, HandleIs
<1>5. CASE scopes[s].retained /\ ~scopes[s].released
  <2>1. Release(r)
    BY <1>0, <1>5 DEF ReleaseScope
  <2>2. s \in OpenHandles(r) /\ OpenHandles(r)' = OpenHandles(r) \ {s}
    BY <1>1, <1>3, <1>4, <1>5
  <2>3. \A q \in Root \ {r} : OpenHandles(q)' = OpenHandles(q)
    BY <1>3, <1>4
  <2>4. /\ ReferencesCounted'
        /\ roots' \in [Root -> RootRecord]
        /\ active' \subseteq Root /\ Made' = Made
    BY <1>1, <2>1, <2>2, <2>3, DropHandle
  <2>5. WorkType'
    BY <1>1, <1>2, <2>4 DEF WorkInv, WorkType, ScopeRecord, RootRecord
  <2>6. Known'
    BY <1>1, <1>2, <2>4 DEF WorkInv, Known
  <2> QED BY <2>4, <2>5, <2>6 DEF WorkInv
<1>6. CASE ~(scopes[s].retained /\ ~scopes[s].released)
  <2>1. UNCHANGED <<roots, active>>
    BY <1>6 DEF ReleaseScope
  <2>2. \A q \in Root : OpenHandles(q)' = OpenHandles(q)
    BY <1>3, <1>4, <1>6
  <2>3. ReferencesCounted' /\ Made' = Made
    BY <2>1, <2>2, SameHandles
  <2>4. WorkType'
    BY <1>1, <1>2, <2>1 DEF WorkInv, WorkType, ScopeRecord, RootRecord
  <2>5. Known'
    BY <1>1, <1>2, <2>3 DEF WorkInv, Known
  <2> QED BY <2>3, <2>4, <2>5 DEF WorkInv
<1> QED BY <1>5, <1>6

\* A chain that enters a scope borrows a handle, or is refused.
LEMMA RunScopeCounts ==
    ASSUME WorkInv, NEW c \in Chain, NEW s \in Scope, RunScope(c, s)
    PROVE  WorkInv'
<1>0. PICK r \in Root \cup {NoRoot} : r = scopes[s].root
  BY DEF WorkInv, WorkType
<1> DEFINE enters == ~scopes[s].released /\ ~roots[r].released /\ r \in active
<1>1. chains[c].pc = "idle" /\ UNCHANGED <<active, scopes>> /\ chains[c] \in ChainRecord
  BY DEF RunScope, WorkInv, WorkType, ChainRecord
<1>2. \A q \in Root : c \notin OpenHandles(q)
  BY <1>1, HandleIs
<1>3. CASE ~enters
  <2> DEFINE v == [chains[c] EXCEPT !.pc = "refused"]
  <2>1. chains' = [chains EXCEPT ![c] = v] /\ roots' = roots
    BY <1>0, <1>3 DEF RunScope
  <2>2. v \in ChainRecord /\ v.pc = "refused" /\ v.lease = chains[c].lease
    BY <1>1 DEF ChainRecord
  <2>3. v.lease \in Made \cup {NoRoot}
    BY <2>2 DEF WorkInv, Known
  <2> HIDE DEF v
  <2> QED BY <1>1, <1>2, <2>1, <2>2, <2>3, ChainMoves
<1>4. CASE enters
  <2> DEFINE v == [chains[c] EXCEPT !.pc = "running", !.store = r, !.lease = r]
  <2>0. r \in active /\ r \in Root /\ ~roots[r].released
    BY <1>0, <1>4 DEF WorkInv, WorkType
  <2>1. /\ chains' = [chains EXCEPT ![c] = v]
        /\ roots' = [roots EXCEPT ![r].references = @ + 1]
    BY <1>0, <1>4 DEF RunScope
  <2> HIDE DEF enters
  <2>2. v \in ChainRecord /\ v.pc = "running" /\ v.lease = r
    BY <1>1, <2>0 DEF ChainRecord
  <2> HIDE DEF v
  <2>3. /\ chains'[c].lease = r /\ chains'[c].pc = "running"
        /\ \A d \in Chain \ {c} : chains'[d] = chains[d]
        /\ chains' \in [Chain -> ChainRecord]
    BY <2>1, <2>2 DEF WorkInv, WorkType, ChainRecord, RootRecord
  <2>4. roots[r].references \in Nat /\ roots[r].references = Cardinality(OpenHandles(r))
    BY <2>0 DEF WorkInv, WorkType, ReferencesCounted
  <2>5. /\ roots'[r].references = roots[r].references + 1
        /\ roots'[r].released = roots[r].released
        /\ \A q \in Root \ {r} : roots'[q] = roots[q]
        /\ roots' \in [Root -> RootRecord]
    BY <2>0, <2>1, <2>4 DEF WorkInv, WorkType, RootRecord
  <2>6. ASSUME NEW q \in Root
        PROVE  OpenHandles(q)' = IF q = r THEN OpenHandles(q) \cup {c} ELSE OpenHandles(q)
    <3>1. \A h \in Chain \cup Scope :
             h \in OpenHandles(q)' <=> h \in OpenHandles(q) \/ (h = c /\ q = r)
      BY <1>1, <1>2, <2>3, HandleIs, HandleIsNext, AdmissionAssumption
    <3>2. OpenHandles(q) \subseteq Chain \cup Scope /\ OpenHandles(q)' \subseteq Chain \cup Scope
      BY HandlesFinite, HandleIsNext
    <3> QED BY <3>1, <3>2
  <2>7. OpenHandles(r)' = OpenHandles(r) \cup {c} /\ c \notin OpenHandles(r)
    BY <1>2, <2>0, <2>6
  <2>8. active' = active \cup {r}
    BY <1>1, <2>0
  <2>9. ReferencesCounted'
    BY <2>0, <2>4, <2>5, <2>6, <2>7, <2>8, AddHandle
  <2>10. Made' = Made /\ r \in Made
    BY <1>1, <2>0, <2>5 DEF Made
  <2>11. WorkType'
    BY <1>1, <2>3, <2>5 DEF WorkInv, WorkType, ChainRecord, RootRecord
  <2>12. Known'
    BY <1>1, <2>3, <2>10 DEF WorkInv, Known
  <2> QED BY <2>9, <2>11, <2>12 DEF WorkInv
<1> QED BY <1>3, <1>4

\* A reset retires every active root; its handles are spent.
LEMMA RetireCounts ==
    ASSUME WorkInv, RetireRoots
    PROVE  WorkInv'
<1>1. /\ active' = {} /\ UNCHANGED <<chains, scopes>>
      /\ \A r \in Root : roots'[r] = IF r \in active
             THEN [roots[r] EXCEPT !.references = 0, !.released = TRUE, !.retired = TRUE]
             ELSE roots[r]
  BY DEF RetireRoots
<1>2. roots' \in [Root -> RootRecord]
  <2>1. roots \in [Root -> RootRecord]
    BY DEF WorkInv, WorkType, RootRecord
  <2>2. \A r \in Root : [roots[r] EXCEPT !.references = 0, !.released = TRUE,
                                         !.retired = TRUE] \in RootRecord
    BY <2>1 DEF RootRecord
  <2> QED BY <2>1, <2>2 DEF RetireRoots
<1>3. \A r \in Root : roots'[r].references = 0 /\ (r \in active => roots'[r].released)
                      /\ (roots[r].released => roots'[r].released)
  <2>1. ASSUME NEW r \in Root, r \in active
        PROVE  roots'[r].references = 0 /\ roots'[r].released
    <3>1. roots'[r] = [roots[r] EXCEPT !.references = 0, !.released = TRUE, !.retired = TRUE]
      BY <1>1, <2>1
    <3>2. roots[r] \in RootRecord
      BY DEF WorkInv, WorkType, RootRecord
    <3> QED BY <3>1, <3>2 DEF RootRecord
  <2>2. ASSUME NEW r \in Root, r \notin active
        PROVE  roots'[r].references = 0 /\ roots'[r] = roots[r]
    <3>1. roots'[r] = roots[r]
      BY <1>1, <2>2
    <3>2. roots[r].references \in Nat /\ ~(roots[r].references > 0)
      BY <2>2 DEF WorkInv, WorkType, ReferencesCounted
    <3>3. roots[r].references = 0
      BY <3>2
    <3> QED BY <3>1, <3>3
  <2> QED BY <2>1, <2>2
<1>4. ReferencesCounted'
  <2>1. \A r \in Root : r \notin active' /\ ~(roots'[r].references > 0)
    <3>1. ~(0 > 0)
      OBVIOUS
    <3> QED BY <1>1, <1>3, <3>1, Zenon
  <2> QED BY <2>1 DEF ReferencesCounted
<1>5. Made \subseteq Made'
  BY <1>3 DEF Made, WorkInv, WorkType
<1>6. WorkType' /\ Known'
  BY <1>1, <1>2, <1>5 DEF WorkInv, WorkType, Known, RootRecord
<1> QED BY <1>4, <1>6 DEF WorkInv

-----------------------------------------------------------------------------
(* The counts hold.                                                        *)

\* At the beginning no root is at work and nobody holds a handle.
LEMMA WorkInitCounts == WorkInit => WorkInv
<1> SUFFICES ASSUME WorkInit PROVE WorkInv
  OBVIOUS
<1>1. /\ roots = [r \in Root |-> Fresh] /\ active = {}
      /\ chains = [c \in Chain |-> [pc |-> "idle", kind |-> "request", store |-> NoRoot,
                                    lease |-> NoRoot]]
      /\ scopes = [s \in Scope |-> [root |-> NoRoot, retained |-> FALSE, released |-> FALSE]]
  BY DEF WorkInit
<1>2. WorkType
  BY <1>1 DEF WorkType, Fresh, Entrances
<1>3. Known
  BY <1>1 DEF Known
<1>4. ReferencesCounted
  BY <1>1 DEF ReferencesCounted, Fresh
<1> QED BY <1>2, <1>3, <1>4 DEF WorkInv

\* Every step of root work changes a reference count by the handles it opens and releases.
LEMMA WorkStepCounts == WorkInv /\ WorkStep => WorkInv'
<1> SUFFICES ASSUME WorkInv, WorkStep PROVE WorkInv'
  OBVIOUS
<1>1. ASSUME NEW c \in Chain, NEW k \in Kind, NEW store \in {NoRoot} \cup Root,
             Call(c, k, store)
      PROVE  WorkInv'
  <2>1. k \in Entrances /\ store \in Root \cup {NoRoot} /\ chains[c].pc # "running"
    BY <1>1, AdmissionAssumption DEF Call
  <2> QED BY <1>1, <2>1, AttemptCounts DEF Call
<1>2. ASSUME NEW c \in Chain, Retry(c) PROVE WorkInv'
  <2>1. /\ chains[c].kind \in Entrances /\ chains[c].store \in Root \cup {NoRoot}
        /\ chains[c].pc # "running"
    BY <1>2 DEF Retry, WorkInv, WorkType
  <2>2. Attempt(c, chains[c].kind, chains[c].store) /\ UNCHANGED scopes
    BY <1>2 DEF Retry
  <2> QED BY <2>1, <2>2, AttemptCounts
<1> QED BY <1>1, <1>2, FinishCounts, CaptureCounts, ReleaseScopeCounts, RunScopeCounts
        DEF WorkStep

\* What leaves root work alone keeps its counts.
LEMMA WorkStands == ASSUME WorkInv, UNCHANGED workVars PROVE WorkInv'
<1>1. \A q \in Root : OpenHandles(q)' = OpenHandles(q)
  BY DEF workVars, OpenHandles
<1>2. ReferencesCounted' /\ Made' = Made
  BY <1>1, SameHandles DEF workVars
<1> QED BY <1>2 DEF workVars, WorkInv, WorkType, Known

-----------------------------------------------------------------------------
(* Work at the gate parks chains and changes nothing else of the gate.     *)

\* A chain that parks finds the gate closed by something reversible, and is the
\* only change its attempt makes to the admission state.
LEMMA AttemptParks ==
    ASSUME NEW c, NEW k, NEW store, AdmType, c \in Chain, Attempt(c, k, store)
    PROVE  \/ adm' = adm
           \/ /\ adm' = [adm EXCEPT !.waiters = @ \cup {c}]
              /\ Closed(adm) /\ ~adm.draining
<1>1. CASE UNCHANGED adm
  BY <1>1
<1>2. CASE /\ ~FailsDraining(k, store) /\ ~Joins(k, store) /\ ~Admits(k, store)
           /\ Parks(k) /\ adm' = [adm EXCEPT !.waiters = @ \cup {c}]
  <2>1. k \in {"whenOpen", "independent", "continuation", "readmission"}
    BY <1>2 DEF Parks
  <2>2. Closed(adm)
    <3>1. CASE k = "continuation"
      BY <1>2, <3>1 DEF Admits
    <3>2. CASE k # "continuation"
      BY <1>2, <2>1, <3>2 DEF Admits
    <3> QED BY <3>1, <3>2
  <2>3. ~adm.draining
    <3>1. CASE k = "continuation"
      BY <1>2, <3>1 DEF Admits, FailsDraining
    <3>2. CASE k # "continuation"
      BY <1>2, <2>1, <3>2 DEF FailsDraining
    <3> QED BY <3>1, <3>2
  <2> QED BY <1>2, <2>2, <2>3
<1> QED BY <1>1, <1>2 DEF Attempt

\* All that root work does to the gate is to park a chain, behind a closure that can be lifted.
LEMMA WorkAtGate ==
    ASSUME AdmType, WorkStep
    PROVE  \/ adm' = adm
           \/ \E c \in Chain : /\ adm' = [adm EXCEPT !.waiters = @ \cup {c}]
                               /\ Closed(adm) /\ ~adm.draining
<1>1. ASSUME NEW c \in Chain, NEW k, NEW store, Attempt(c, k, store)
      PROVE  \/ adm' = adm
             \/ /\ adm' = [adm EXCEPT !.waiters = @ \cup {c}]
                /\ Closed(adm) /\ ~adm.draining
  BY <1>1, AttemptParks
<1>2. ASSUME NEW c \in Chain, NEW k \in Kind, NEW store \in {NoRoot} \cup Root,
             Call(c, k, store)
      PROVE  \E d \in Chain : \E j, st : Attempt(d, j, st)
  BY <1>2 DEF Call
<1>3. ASSUME NEW c \in Chain, Retry(c)
      PROVE  \E d \in Chain : \E j, st : Attempt(d, j, st)
  BY <1>3 DEF Retry
<1>4. ASSUME NEW c \in Chain, Finish(c) PROVE adm' = adm
  BY <1>4 DEF Finish
<1>5. ASSUME NEW c \in Chain, NEW s \in Scope, RunScope(c, s) PROVE adm' = adm
  BY <1>5 DEF RunScope
<1>6. ASSUME NEW c \in Chain, NEW s \in Scope, NEW retain \in BOOLEAN,
             Capture(c, s, retain)
      PROVE  adm' = adm
  BY <1>6 DEF Capture
<1>7. ASSUME NEW s \in Scope, ReleaseScope(s) PROVE adm' = adm
  BY <1>7 DEF ReleaseScope
<1> QED BY <1>1, <1>2, <1>3, <1>4, <1>5, <1>6, <1>7 DEF WorkStep

-----------------------------------------------------------------------------
(* Lines of work: every root descends from one that entered by itself.     *)

Lines ==
    /\ \A c \in Chain : /\ chains[c].store \in Made \cup {NoRoot}
                        /\ chains[c].pc \in {"idle", "waiting"} => chains[c].lease = NoRoot
    /\ \A r \in Made : roots[r].origin \in Root

\* A root once made keeps its origin, and a handle its chain.
LinesStay ==
    /\ Made \subseteq Made'
    /\ \A r \in Made : roots'[r].origin = roots[r].origin
    /\ \A c \in Chain : chains[c].lease # NoRoot =>
          chains'[c].lease = chains[c].lease /\ chains'[c].kind = chains[c].kind

\* How a root r can come to a prepared gateway: as the restart of an idle one,
\* or in the line of a root at work.
Enters(r) ==
    \/ adm.phase # "prepared"
    \/ /\ active = {} /\ roots'[r].origin = r
       /\ \E c \in Chain : chains'[c].lease = r /\ chains'[c].kind = "restart"
    \/ \E q \in active : roots'[r].origin = roots[q].origin

Grows == active' \subseteq active \/ \E r \in Root : active' = active \cup {r} /\ Enters(r)

\* A release changes no line.
LEMMA ReleaseLines ==
    ASSUME WorkInv, NEW r \in Made, Release(r)
    PROVE  Made' = Made /\ active' \subseteq active
           /\ \A q \in Root : roots'[q].origin = roots[q].origin
<1>0. r \in Root /\ roots \in [Root -> RootRecord]
  BY DEF WorkInv, WorkType, Made, RootRecord
<1>1. CASE roots[r].released
  <2>1. roots' = roots /\ active' = active \ {r}
    BY <1>1 DEF Release, Released
  <2> QED BY <1>0, <1>1, <2>1 DEF Made
<1>2. CASE ~roots[r].released
  <2>0. r \in active
    BY <1>2 DEF Made
  <2> DEFINE k == roots[r].references - 1
  <2>1. PICK last \in BOOLEAN : roots' = [roots EXCEPT ![r].references = k,
                                                       ![r].released = last]
    <3>1. (roots[r].references = 1) \in BOOLEAN
      OBVIOUS
    <3> QED BY <1>2, <3>1 DEF Release, Released
  <2>2. /\ roots'[r].released = last /\ roots'[r].origin = roots[r].origin
        /\ \A q \in Root \ {r} : roots'[q] = roots[q]
    BY <1>0, <2>1 DEF RootRecord
  <2>3. active' = IF last THEN active \ {r} ELSE active
    BY <2>2 DEF Release
  <2> QED BY <1>0, <2>0, <2>2, <2>3 DEF Made
<1> QED BY <1>1, <1>2

\* What an attempt does to the lines.
LEMMA AttemptLines ==
    ASSUME WorkInv, Lines, NEW c \in Chain, NEW k \in Entrances,
           NEW store \in Made \cup {NoRoot},
           chains[c].pc \in {"idle", "waiting"}, Attempt(c, k, store)
    PROVE  Lines' /\ LinesStay /\ Grows
<1>0. chains[c].lease = NoRoot /\ roots \in [Root -> RootRecord] /\ Made \subseteq Root
      /\ chains \in [Chain -> ChainRecord]
  BY DEF Lines, WorkInv, WorkType, RootRecord, ChainRecord, Made
<1>1. ASSUME NEW pc \in {"waiting", "running", "refused"}, NEW j,
             chains' = [chains EXCEPT ![c] = [pc |-> pc, kind |-> j, store |-> store,
                                              lease |-> NoRoot]],
             UNCHANGED <<roots, active>>
      PROVE  Lines' /\ LinesStay /\ Grows
  <2>1. /\ chains'[c].store = store /\ chains'[c].lease = NoRoot
        /\ \A d \in Chain \ {c} : chains'[d] = chains[d]
    BY <1>0, <1>1
  <2>2. Made' = Made
    BY <1>1 DEF Made
  <2> QED BY <1>0, <1>1, <2>1, <2>2 DEF Lines, LinesStay, Grows
<1>2. ASSUME NEW r \in Root \ Made, NEW origin,
             origin = IF k = "continuation" /\ Live(store) THEN roots[store].origin ELSE r,
             Admits(k, store),
             roots' = [roots EXCEPT ![r].references = 1, ![r].origin = origin],
             active' = active \cup {r},
             chains' = [chains EXCEPT ![c] = [pc |-> "running", kind |-> k, store |-> r,
                                              lease |-> r]]
      PROVE  Lines' /\ LinesStay /\ Grows
  <2>1. /\ chains'[c].store = r /\ chains'[c].lease = r /\ chains'[c].kind = k
        /\ chains'[c].pc = "running"
        /\ \A d \in Chain \ {c} : chains'[d] = chains[d]
    BY <1>0, <1>2
  <2>2. /\ roots'[r].origin = origin /\ roots'[r].released = roots[r].released
        /\ \A q \in Root \ {r} : roots'[q] = roots[q]
    BY <1>0, <1>2 DEF RootRecord
  <2>3. Made' = Made \cup {r}
    BY <1>2, <2>2 DEF Made
  <2>4. Live(store) => store \in active
    BY DEF Live, Made
  <2>5. origin \in Root
    BY <1>2, <2>4, <1>0 DEF Lines, Made
  <2>6. Enters(r)
    <3>1. CASE k = "continuation" /\ Live(store)
      BY <1>2, <2>2, <2>4, <3>1 DEF Enters
    <3>2. CASE ~(k = "continuation" /\ Live(store)) /\ adm.phase = "prepared"
      <4>1. Closed(adm)
        BY <3>2 DEF Closed
      <4>2. k = "restart" /\ active = {}
        BY <1>2, <3>2, <4>1 DEF Admits
      <4> QED BY <1>2, <2>1, <2>2, <3>2, <4>2 DEF Enters
    <3> QED BY <3>1, <3>2 DEF Enters
  <2>7. Lines'
    BY <2>1, <2>2, <2>3, <2>5, <1>0 DEF Lines
  <2>8. LinesStay
    BY <1>0, <2>1, <2>2, <2>3 DEF LinesStay
  <2> QED BY <1>2, <2>6, <2>7, <2>8 DEF Grows
<1> QED BY <1>1, <1>2 DEF Attempt

\* The steps of root work keep the lines.
LEMMA WorkLines == ASSUME WorkInv, Lines, WorkStep PROVE Lines' /\ LinesStay /\ Grows
<1>0. roots \in [Root -> RootRecord] /\ chains \in [Chain -> ChainRecord] /\ Made \subseteq Root
      /\ active \subseteq Made
  BY DEF WorkInv, WorkType, RootRecord, ChainRecord, Made
<1>1. ASSUME NEW c \in Chain, NEW k \in Kind, NEW store \in {NoRoot} \cup Root,
             Call(c, k, store)
      PROVE  Lines' /\ LinesStay /\ Grows
  <2>1. k \in Entrances /\ store \in Made \cup {NoRoot} /\ chains[c].pc = "idle"
        /\ Attempt(c, k, store)
    BY <1>1, AdmissionAssumption DEF Call
  <2> QED BY <2>1, AttemptLines
<1>2. ASSUME NEW c \in Chain, Retry(c) PROVE Lines' /\ LinesStay /\ Grows
  <2>1. /\ chains[c].kind \in Entrances /\ chains[c].store \in Made \cup {NoRoot}
        /\ chains[c].pc = "waiting" /\ Attempt(c, chains[c].kind, chains[c].store)
    BY <1>0, <1>2 DEF Retry, Lines, ChainRecord
  <2> QED BY <2>1, AttemptLines
<1>3. ASSUME NEW c \in Chain, Finish(c) PROVE Lines' /\ LinesStay /\ Grows
  <2>1. /\ chains'[c].pc = "done" /\ chains'[c].store = chains[c].store
        /\ chains'[c].lease = chains[c].lease /\ chains'[c].kind = chains[c].kind
        /\ \A d \in Chain \ {c} : chains'[d] = chains[d]
    BY <1>0, <1>3 DEF Finish, ChainRecord
  <2>2. Made' = Made /\ active' \subseteq active
        /\ \A q \in Root : roots'[q].origin = roots[q].origin
    <3>1. CASE chains[c].lease = NoRoot
      BY <1>3, <3>1 DEF Finish, Made
    <3>2. CASE chains[c].lease # NoRoot
      <4>1. chains[c].lease \in Made /\ Release(chains[c].lease)
        BY <1>3, <3>2 DEF Finish, WorkInv, Known
      <4> QED BY <4>1, ReleaseLines
    <3> QED BY <3>1, <3>2
  <2> QED BY <1>0, <2>1, <2>2 DEF Lines, LinesStay, Grows
<1>4. ASSUME NEW s \in Scope, ReleaseScope(s) PROVE Lines' /\ LinesStay /\ Grows
  <2>1. chains' = chains
    BY <1>4 DEF ReleaseScope
  <2>2. Made' = Made /\ active' \subseteq active
        /\ \A q \in Root : roots'[q].origin = roots[q].origin
    <3>1. CASE UNCHANGED <<roots, active>>
      BY <3>1 DEF Made
    <3>2. CASE Release(scopes[s].root)
      <4>1. scopes[s].root \in Made
        BY <1>4 DEF ReleaseScope, WorkInv, Known
      <4> QED BY <3>2, <4>1, ReleaseLines
    <3> QED BY <1>4, <3>1, <3>2 DEF ReleaseScope
  <2> QED BY <1>0, <2>1, <2>2 DEF Lines, LinesStay, Grows
<1>5. ASSUME NEW r \in Root, roots' = [roots EXCEPT ![r].references = @ + 1] \/ roots' = roots,
             active' = active
      PROVE  Made' = Made /\ \A q \in Root : roots'[q].origin = roots[q].origin
  <2>1. \A q \in Root : /\ roots'[q].origin = roots[q].origin
                        /\ roots'[q].released = roots[q].released
    BY <1>0, <1>5 DEF RootRecord
  <2> QED BY <1>5, <2>1 DEF Made
<1>6. ASSUME NEW c \in Chain, NEW s \in Scope, NEW retain \in BOOLEAN, Capture(c, s, retain)
      PROVE  Lines' /\ LinesStay /\ Grows
  <2>1. chains' = chains /\ active' = active /\ chains[c].store \in Root
    BY <1>0, <1>6 DEF Capture
  <2>2. Made' = Made /\ \A q \in Root : roots'[q].origin = roots[q].origin
    BY <1>5, <1>6, <2>1 DEF Capture
  <2> QED BY <1>0, <2>1, <2>2 DEF Lines, LinesStay, Grows
<1>7. ASSUME NEW c \in Chain, NEW s \in Scope, RunScope(c, s) PROVE Lines' /\ LinesStay /\ Grows
  <2>1. /\ chains[c].pc = "idle" /\ active' = active /\ scopes[s].root \in Made
        /\ \/ chains' = [chains EXCEPT ![c] = [chains[c] EXCEPT !.pc = "refused"]]
           \/ chains' = [chains EXCEPT ![c] = [chains[c] EXCEPT !.pc = "running",
                            !.store = scopes[s].root, !.lease = scopes[s].root]]
    BY <1>7 DEF RunScope, WorkInv, Known
  <2>2. /\ chains'[c].pc \in {"refused", "running"}
        /\ chains'[c].store \in {chains[c].store, scopes[s].root}
        /\ \A d \in Chain \ {c} : chains'[d] = chains[d]
    BY <1>0, <2>1 DEF ChainRecord
  <2>3. Made' = Made /\ \A q \in Root : roots'[q].origin = roots[q].origin
    BY <1>0, <1>5, <1>7, <2>1 DEF RunScope
  <2>4. chains[c].lease = NoRoot
    BY <2>1 DEF Lines
  <2> QED BY <1>0, <2>1, <2>2, <2>3, <2>4 DEF Lines, LinesStay, Grows
<1> QED BY <1>1, <1>2, <1>3, <1>4, <1>6, <1>7 DEF WorkStep

\* A reset keeps them too, and so does whatever leaves the work alone.
LEMMA RetireLines == ASSUME WorkInv, Lines, RetireRoots PROVE Lines'
<1>1. /\ active' = {} /\ chains' = chains
      /\ \A r \in Root : roots'[r] = IF r \in active
             THEN [roots[r] EXCEPT !.references = 0, !.released = TRUE, !.retired = TRUE]
             ELSE roots[r]
  BY DEF RetireRoots
<1>2. ASSUME NEW r \in Root
      PROVE  /\ roots'[r].origin = roots[r].origin
             /\ roots'[r].released <=> r \in Made
  <2>1. roots[r] \in RootRecord
    BY DEF WorkInv, WorkType, RootRecord
  <2> QED BY <1>1, <2>1 DEF RootRecord, Made
<1>3. Made' = Made
  BY <1>1, <1>2 DEF Made, WorkInv, WorkType
<1> QED BY <1>1, <1>2, <1>3 DEF Lines, Made, WorkInv, WorkType

\* Lines of descent do not change while no root work happens.
LEMMA LinesStand == ASSUME Lines, UNCHANGED workVars PROVE Lines'
  BY DEF Lines, Made, workVars

\* At the beginning there is no root, and so nothing to descend from.
LEMMA LinesBegin == ASSUME WorkInit PROVE Lines
  BY DEF WorkInit, Lines, Made, Fresh
=============================================================================
