--------------------------- MODULE ActivityProofs ---------------------------
(***************************************************************************)
(* The activity coordinator, for every number of workspaces and guards:    *)
(* its type, the agreement of the counters with the live guards, the       *)
(* quiescence of a granted drain, and that it implements WorkGate.         *)
(***************************************************************************)
EXTENDS Activity, FiniteSetTheorems, TLAPS

-----------------------------------------------------------------------------
(* Facts about the map.                                                    *)

\* The record an absent entry reads as is a record of counters.
LEMMA DefaultType == Default \in Counters
BY ActivityAssumption DEF Default, Counters

\* Reading any workspace yields a record of counters.
LEMMA OfType == ASSUME TypeOK, NEW w \in Workspace
                PROVE  Of(w) \in Counters
BY DefaultType DEF TypeOK, Of

\* An entry that may be forgotten says what an absent entry says, so that
\* forgetting it loses neither a count nor a closed gate.
LEMMA IdleIsDefault == ASSUME NEW c \in Counters, IdleAndOpen(c)
                       PROVE  c = Default
<1>1. c.count = [k \in Kind |-> 0]
  BY DEF IdleAndOpen, Counters
<1>2. c.seen = [o \in Observed |-> 0]
  BY DEF IdleAndOpen, Counters
<1>3. c.known = TRUE /\ c.drain = FALSE
  BY DEF IdleAndOpen, Counters
<1>4. c = [count |-> c.count, seen |-> c.seen, known |-> c.known, drain |-> c.drain]
  BY DEF Counters
<1> QED BY <1>1, <1>2, <1>3, <1>4 DEF Default

\* What a mutator that rewrites the entry of w leaves in the map.
Rewritten(w, c) == /\ DOMAIN inner' \subseteq Workspace
                   /\ inner' \in [DOMAIN inner' -> Counters]
                   /\ \A v \in Workspace : Of(v)' = IF v = w THEN c ELSE Of(v)

\* Storing an entry changes what is read of that workspace only.
LEMMA StoreRewrites ==
    ASSUME TypeOK, NEW w \in Workspace, NEW c \in Counters, Store(w, c)
    PROVE  Rewritten(w, c)
<1>1. DOMAIN inner' = DOMAIN inner \cup {w}
  BY DEF Store
<1>2. inner' \in [DOMAIN inner' -> Counters]
  BY <1>1 DEF Store, TypeOK
<1>3. ASSUME NEW v \in Workspace
      PROVE  Of(v)' = IF v = w THEN c ELSE Of(v)
  BY <1>1 DEF Store, Of
<1> QED BY <1>1, <1>2, <1>3 DEF Rewritten, TypeOK

\* Storing an entry, or forgetting it when it is idle and open, is the same
\* to every reader.
LEMMA StoreOrForgetRewrites ==
    ASSUME TypeOK, NEW w \in Workspace, NEW c \in Counters, StoreOrForget(w, c)
    PROVE  Rewritten(w, c)
<1>1. CASE ~IdleAndOpen(c)
  BY <1>1, StoreRewrites DEF StoreOrForget
<1>2. CASE IdleAndOpen(c)
  <2>1. inner' = [v \in DOMAIN inner \ {w} |-> inner[v]]
    BY <1>2 DEF StoreOrForget, Forget
  <2>2. DOMAIN inner' = DOMAIN inner \ {w}
    BY <2>1
  <2>3. inner' \in [DOMAIN inner' -> Counters]
    BY <2>1, <2>2 DEF TypeOK
  <2>4. c = Default
    BY <1>2, IdleIsDefault
  <2>5. ASSUME NEW v \in Workspace
        PROVE  Of(v)' = IF v = w THEN c ELSE Of(v)
    BY <2>1, <2>2, <2>4 DEF Of
  <2> QED BY <2>2, <2>3, <2>5 DEF Rewritten, TypeOK
<1> QED BY <1>1, <1>2

-----------------------------------------------------------------------------
(* What each action does to the counters, through the map.                 *)

\* An admitted unit of work adds one to the counter of its kind.
LEMMA AcquireRewrites ==
    ASSUME TypeOK, NEW g \in Guard, NEW w \in Workspace, NEW k \in Kind,
           Acquire(g, w, k)
    PROVE  Rewritten(w, [Of(w) EXCEPT !.count[k] = Inc(@)])
<1>1. Of(w) \in Counters
  BY OfType
<1>2. \A n \in 0 .. MaxCount : Inc(n) \in 0 .. MaxCount
  BY ActivityAssumption DEF Inc
<1>3. [Of(w) EXCEPT !.count[k] = Inc(@)] \in Counters
  BY <1>1, <1>2 DEF Counters
<1> QED BY <1>3, StoreRewrites DEF Acquire, AddGuard

\* A finished unit of work subtracts one from the counter of its kind; if
\* the entry is gone there is nothing to subtract from.
LEMMA ReleaseRewrites ==
    ASSUME TypeOK, NEW g \in Guard, Release(g)
    PROVE  /\ guards[g] \in Workspace \X Kind
           /\ Rewritten(guards[g][1],
                        [Of(guards[g][1]) EXCEPT !.count[guards[g][2]] = Dec(@)])
<1> DEFINE w == guards[g][1]
           k == guards[g][2]
           c == [Of(w) EXCEPT !.count[k] = Dec(@)]
<1>1. guards[g] \in Workspace \X Kind
  BY DEF Release, DropGuard, TypeOK
<1>2. w \in Workspace /\ k \in Kind
  BY <1>1
<1>3. Of(w) \in Counters
  BY <1>2, OfType
<1>4. \A n \in 0 .. MaxCount : Dec(n) \in 0 .. MaxCount
  BY ActivityAssumption DEF Dec
<1>5. c \in Counters
  BY <1>2, <1>3, <1>4 DEF Counters
<1>6. CASE w \in DOMAIN inner
  <2>1. StoreOrForget(w, c)
    BY <1>6 DEF Release, DropGuard, Of
  <2> QED BY <1>1, <1>2, <1>5, <2>1, StoreOrForgetRewrites
<1>7. CASE w \notin DOMAIN inner
  <2>1. inner' = inner
    BY <1>7 DEF Release, DropGuard
  <2>2. Of(w) = Default
    BY <1>7 DEF Of
  <2>3. IdleAndOpen(c)
    BY <2>2, <1>2 DEF IdleAndOpen, Default, Dec
  <2>4. c = Default
    BY <1>5, <2>3, IdleIsDefault
  <2>5. \A v \in Workspace : Of(v)' = Of(v)
    BY <2>1 DEF Of
  <2> QED BY <1>1, <2>1, <2>2, <2>4, <2>5 DEF Rewritten, TypeOK
<1> QED BY <1>6, <1>7

\* A recorded probe changes the observed counts and their reliability only.
LEMMA ProbeRewrites ==
    ASSUME TypeOK, NEW w \in Workspace, NEW s \in [Observed -> ObservedCounts],
           NEW b \in BOOLEAN, SetProviderActivity(w, s, b)
    PROVE  Rewritten(w, [Of(w) EXCEPT !.seen = s, !.known = b])
<1>1. Of(w) \in Counters
  BY OfType
<1>2. [Of(w) EXCEPT !.seen = s, !.known = b] \in Counters
  BY <1>1 DEF Counters
<1> QED BY <1>2, StoreOrForgetRewrites DEF SetProviderActivity

\* Closing the gate sets the drain flag only.
LEMMA CloseRewrites ==
    ASSUME TypeOK, NEW w \in Workspace, CloseGate(w)
    PROVE  Rewritten(w, [Of(w) EXCEPT !.drain = TRUE])
<1>1. [Of(w) EXCEPT !.drain = TRUE] \in Counters
  BY OfType DEF Counters
<1> QED BY <1>1, StoreRewrites DEF CloseGate, SetDrain

\* Opening the gate clears the drain flag of the drained workspace only.
LEMMA OpenRewrites ==
    ASSUME TypeOK, OpenGate
    PROVE  /\ drainer.ws \in Workspace
           /\ Rewritten(drainer.ws, [Of(drainer.ws) EXCEPT !.drain = FALSE])
<1> DEFINE w == drainer.ws
<1>1. w \in Workspace
  BY DEF OpenGate, ClearDrain, TypeOK, Drainers
<1>2. [Of(w) EXCEPT !.drain = FALSE] \in Counters
  BY <1>1, OfType DEF Counters
<1>3. CASE w \in DOMAIN inner
  <2>1. StoreOrForget(w, [Of(w) EXCEPT !.drain = FALSE])
    BY <1>3 DEF OpenGate, ClearDrain, Of
  <2> QED BY <1>1, <1>2, <2>1, StoreOrForgetRewrites
<1>4. CASE w \notin DOMAIN inner
  <2>1. inner' = inner
    BY <1>4 DEF OpenGate, ClearDrain
  <2>2. IdleAndOpen([Of(w) EXCEPT !.drain = FALSE]) /\ Of(w) = Default
    BY <1>4 DEF Of, Default, IdleAndOpen
  <2>3. \A v \in Workspace : Of(v)' = Of(v)
    BY <2>1 DEF Of
  <2>4. [Of(w) EXCEPT !.drain = FALSE] = Of(w)
    BY <1>2, <2>2, IdleIsDefault
  <2> QED BY <1>1, <2>1, <2>3, <2>4 DEF Rewritten, TypeOK
<1> QED BY <1>3, <1>4

-----------------------------------------------------------------------------
(* Type correctness.                                                       *)

\* The four variables keep their types: in particular no counter leaves
\* 0..MaxCount and no entry appears for something that is not a workspace.
LEMMA TypeStep == TypeOK /\ [Next]_vars => TypeOK'
<1> SUFFICES ASSUME TypeOK, [Next]_vars PROVE TypeOK'
  OBVIOUS
<1>1. ASSUME NEW g \in Guard, NEW w \in Workspace, NEW k \in Kind, Acquire(g, w, k)
      PROVE  TypeOK'
  <2>1. guards' \in [Guard -> (Workspace \X Kind) \cup {NoWork}]
    BY <1>1 DEF Acquire, AddGuard, TypeOK
  <2> QED BY <1>1, <2>1, AcquireRewrites DEF Rewritten, Acquire, AddGuard, TypeOK
<1>2. ASSUME NEW g \in Guard, Release(g)
      PROVE  TypeOK'
  <2>1. guards' \in [Guard -> (Workspace \X Kind) \cup {NoWork}]
    BY <1>2 DEF Release, DropGuard, TypeOK
  <2> QED BY <1>2, <2>1, ReleaseRewrites DEF Rewritten, Release, DropGuard, TypeOK
<1>3. ASSUME NEW w \in Workspace, NEW s \in [Observed -> ObservedCounts],
             ProbeAnswers(w, s)
      PROVE  TypeOK'
  BY <1>3, ProbeRewrites DEF Rewritten, ProbeAnswers, TypeOK
<1>4. ASSUME NEW w \in Workspace, ProbeFails(w)
      PROVE  TypeOK'
  <2>1. [o \in Observed |-> 0] \in [Observed -> ObservedCounts]
    BY ActivityAssumption
  <2> QED BY <1>4, <2>1, ProbeRewrites DEF Rewritten, ProbeFails, TypeOK
<1>5. ASSUME NEW w \in Workspace, CloseGate(w)
      PROVE  TypeOK'
  <2>1. drainer' \in Drainers
    BY <1>5 DEF CloseGate, SetDrain, Drainers
  <2> QED BY <1>5, <2>1, CloseRewrites DEF Rewritten, CloseGate, SetDrain, TypeOK
<1>6. CASE CheckGate
  <2>1. drainer' \in Drainers
    BY <1>6 DEF CheckGate, Drainers, TypeOK
  <2> QED BY <1>6, <2>1 DEF CheckGate, TypeOK
<1>7. CASE OpenGate
  <2>1. drainer' \in Drainers
    BY <1>7 DEF OpenGate, ClearDrain, Drainers, NoDrain
  <2> QED BY <1>7, <2>1, OpenRewrites DEF Rewritten, OpenGate, ClearDrain, TypeOK
<1>8. CASE UNCHANGED vars
  BY <1>8 DEF vars, TypeOK
<1> QED BY <1>1, <1>2, <1>3, <1>4, <1>5, <1>6, <1>7, <1>8 DEF Next

\* The type invariant holds of every behaviour.
THEOREM TypeCorrect == Spec => []TypeOK
<1>1. Init => TypeOK
  BY DEF Init, TypeOK, NoDrain, Drainers
<1> QED BY <1>1, TypeStep, PTL DEF Spec

-----------------------------------------------------------------------------
(* The counters are the live guards.                                       *)

\* The guards of one kind on one workspace are finitely many, at most MaxCount.
LEMMA HoldingFinite ==
    ASSUME NEW w, NEW k
    PROVE  /\ IsFiniteSet(Holding(w, k))
           /\ Cardinality(Holding(w, k)) \in Nat
           /\ Cardinality(Holding(w, k)) <= MaxCount
<1>1. Holding(w, k) \in SUBSET Guard
  BY DEF Holding
<1>2. IsFiniteSet(Holding(w, k)) /\ Cardinality(Holding(w, k)) <= Cardinality(Guard)
  BY <1>1, FS_Subset, ActivityAssumption
<1>3. Cardinality(Holding(w, k)) \in Nat /\ Cardinality(Guard) \in Nat
  BY <1>2, FS_CardinalityType, ActivityAssumption
<1> QED BY <1>2, <1>3, ActivityAssumption

\* Acquiring adds the guard to the holders of its kind and to no others.
LEMMA AcquireHolding ==
    ASSUME TypeOK, NEW g \in Guard, NEW w \in Workspace, NEW k \in Kind,
           Acquire(g, w, k), NEW v \in Workspace, NEW j \in Kind
    PROVE  /\ g \notin Holding(v, j)
           /\ Holding(v, j)' = IF v = w /\ j = k THEN Holding(v, j) \cup {g}
                                                ELSE Holding(v, j)
<1>1. guards[g] = NoWork /\ guards' = [guards EXCEPT ![g] = <<w, k>>]
  BY DEF Acquire, AddGuard
<1>2. guards[g] # <<v, j>>
  BY <1>1, ActivityAssumption
<1>3. \A h \in Guard : guards'[h] = IF h = g THEN <<w, k>> ELSE guards[h]
  BY <1>1 DEF TypeOK
<1>4. <<w, k>> = <<v, j>> <=> v = w /\ j = k
  OBVIOUS
<1> QED BY <1>2, <1>3, <1>4 DEF Holding

\* Releasing removes the guard from the holders of its kind and no others.
LEMMA ReleaseHolding ==
    ASSUME TypeOK, NEW g \in Guard, Release(g), NEW v \in Workspace, NEW j \in Kind
    PROVE  Holding(v, j)' = Holding(v, j) \ {g}
<1>1. guards' = [guards EXCEPT ![g] = NoWork]
  BY DEF Release, DropGuard
<1>2. NoWork # <<v, j>>
  BY ActivityAssumption
<1>3. \A h \in Guard : guards'[h] = IF h = g THEN NoWork ELSE guards[h]
  BY <1>1 DEF TypeOK
<1> QED BY <1>2, <1>3 DEF Holding

\* A step that leaves the guards alone leaves the holders alone.
LEMMA SameHolding ==
    ASSUME guards' = guards, NEW v, NEW j
    PROVE  Holding(v, j)' = Holding(v, j)
BY DEF Holding

\* Every step keeps each counter equal to the number of live guards it
\* counts: the saturating operations never saturate.
LEMMA CountStep == TypeOK /\ CountersMatchGuards /\ [Next]_vars => CountersMatchGuards'
<1> SUFFICES ASSUME TypeOK, CountersMatchGuards, [Next]_vars,
                    NEW v \in Workspace, NEW j \in Kind
             PROVE  Of(v).count[j]' = Cardinality(Holding(v, j)')
  BY DEF CountersMatchGuards
<1>0. Of(v).count[j] = Cardinality(Holding(v, j))
  BY DEF CountersMatchGuards
<1>1. ASSUME NEW g \in Guard, NEW w \in Workspace, NEW k \in Kind, Acquire(g, w, k)
      PROVE  Of(v).count[j]' = Cardinality(Holding(v, j)')
  <2>1. Of(v)' = IF v = w THEN [Of(w) EXCEPT !.count[k] = Inc(@)] ELSE Of(v)
    BY <1>1, AcquireRewrites DEF Rewritten
  <2>2. CASE v = w /\ j = k
    <3>1. Of(v).count[j]' = Inc(Of(v).count[j])
      BY <2>1, <2>2, OfType DEF Counters
    <3>2. Holding(v, j)' = Holding(v, j) \cup {g} /\ g \notin Holding(v, j)
      BY <1>1, <2>2, AcquireHolding
    <3>3. Cardinality(Holding(v, j)') = Cardinality(Holding(v, j)) + 1
      BY <3>2, HoldingFinite, FS_AddElement
    <3>4. Cardinality(Holding(v, j)') <= MaxCount
      <4>1. Holding(v, j)' \in SUBSET Guard
        BY DEF Holding
      <4>2. Cardinality(Holding(v, j)') <= Cardinality(Guard)
        BY <4>1, FS_Subset, ActivityAssumption
      <4>3. Cardinality(Guard) \in Nat
        BY FS_CardinalityType, ActivityAssumption
      <4> QED BY <4>2, <4>3, <3>3, HoldingFinite, ActivityAssumption
    <3> QED BY <1>0, <3>1, <3>3, <3>4, HoldingFinite, ActivityAssumption DEF Inc
  <2>3. CASE ~(v = w /\ j = k)
    <3>1. Of(v).count[j]' = Of(v).count[j]
      BY <2>1, <2>3, OfType DEF Counters
    <3>2. Holding(v, j)' = Holding(v, j)
      BY <1>1, <2>3, AcquireHolding
    <3> QED BY <1>0, <3>1, <3>2
  <2> QED BY <2>2, <2>3
<1>2. ASSUME NEW g \in Guard, Release(g)
      PROVE  Of(v).count[j]' = Cardinality(Holding(v, j)')
  <2> DEFINE w == guards[g][1]
             k == guards[g][2]
  <2>1. guards[g] \in Workspace \X Kind
    BY <1>2, ReleaseRewrites
  <2>2. Of(v)' = IF v = w THEN [Of(w) EXCEPT !.count[k] = Dec(@)] ELSE Of(v)
    BY <1>2, ReleaseRewrites DEF Rewritten
  <2>3. Holding(v, j)' = Holding(v, j) \ {g}
    BY <1>2, ReleaseHolding
  <2>4. g \in Holding(v, j) <=> v = w /\ j = k
    BY <2>1 DEF Holding
  <2>5. CASE v = w /\ j = k
    <3>1. Of(v).count[j]' = Dec(Of(v).count[j])
      BY <2>2, <2>5, OfType DEF Counters
    <3>2. Cardinality(Holding(v, j)') = Cardinality(Holding(v, j)) - 1
      BY <2>3, <2>4, <2>5, HoldingFinite, FS_RemoveElement
    <3>3. Cardinality(Holding(v, j)) # 0
      BY <2>4, <2>5, HoldingFinite, FS_EmptySet
    <3> QED BY <1>0, <3>1, <3>2, <3>3, HoldingFinite DEF Dec
  <2>6. CASE ~(v = w /\ j = k)
    <3>1. Of(v).count[j]' = Of(v).count[j]
      BY <2>1, <2>2, <2>6, OfType DEF Counters
    <3>2. Holding(v, j)' = Holding(v, j)
      BY <2>3, <2>4, <2>6
    <3> QED BY <1>0, <3>1, <3>2
  <2> QED BY <2>5, <2>6
<1>3. ASSUME NEW w \in Workspace, NEW c, Rewritten(w, c), guards' = guards,
             c.count = Of(w).count
      PROVE  Of(v).count[j]' = Cardinality(Holding(v, j)')
  <2>1. Of(v).count[j]' = Of(v).count[j]
    BY <1>3 DEF Rewritten
  <2> QED BY <1>0, <1>3, <2>1, SameHolding
<1>4. ASSUME NEW w \in Workspace, NEW s \in [Observed -> ObservedCounts],
             ProbeAnswers(w, s)
      PROVE  Of(v).count[j]' = Cardinality(Holding(v, j)')
  <2>1. Rewritten(w, [Of(w) EXCEPT !.seen = s, !.known = TRUE])
    BY <1>4, ProbeRewrites DEF ProbeAnswers
  <2>2. [Of(w) EXCEPT !.seen = s, !.known = TRUE].count = Of(w).count
    BY OfType DEF Counters
  <2> QED BY <1>3, <1>4, <2>1, <2>2 DEF ProbeAnswers
<1>5. ASSUME NEW w \in Workspace, ProbeFails(w)
      PROVE  Of(v).count[j]' = Cardinality(Holding(v, j)')
  <2> DEFINE s == [o \in Observed |-> 0]
  <2>1. s \in [Observed -> ObservedCounts]
    BY ActivityAssumption
  <2>2. Rewritten(w, [Of(w) EXCEPT !.seen = s, !.known = FALSE])
    BY <1>5, <2>1, ProbeRewrites DEF ProbeFails
  <2>3. [Of(w) EXCEPT !.seen = s, !.known = FALSE].count = Of(w).count
    BY OfType DEF Counters
  <2> QED BY <1>3, <1>5, <2>2, <2>3 DEF ProbeFails
<1>6. ASSUME NEW w \in Workspace, CloseGate(w)
      PROVE  Of(v).count[j]' = Cardinality(Holding(v, j)')
  <2>1. [Of(w) EXCEPT !.drain = TRUE].count = Of(w).count
    BY OfType DEF Counters
  <2> QED BY <1>3, <1>6, <2>1, CloseRewrites DEF CloseGate, SetDrain
<1>7. CASE CheckGate
  <2>1. Of(v)' = Of(v)
    BY <1>7 DEF CheckGate, Of
  <2>2. guards' = guards
    BY <1>7 DEF CheckGate
  <2> QED BY <1>0, <2>1, <2>2, SameHolding
<1>8. CASE OpenGate
  <2>1. [Of(drainer.ws) EXCEPT !.drain = FALSE].count = Of(drainer.ws).count
    BY <1>8, OfType, OpenRewrites DEF Counters
  <2> QED BY <1>3, <1>8, <2>1, OpenRewrites DEF OpenGate, ClearDrain
<1>9. CASE UNCHANGED vars
  <2>1. Of(v)' = Of(v)
    BY <1>9 DEF vars, Of
  <2> QED BY <1>0, <1>9, <2>1, SameHolding DEF vars
<1> QED BY <1>1, <1>2, <1>4, <1>5, <1>6, <1>7, <1>8, <1>9 DEF Next

\* Nothing is counted and nothing is alive at first.
LEMMA CountInit == Init => CountersMatchGuards
<1> SUFFICES ASSUME Init, NEW w \in Workspace, NEW k \in Kind
             PROVE  Of(w).count[k] = Cardinality(Holding(w, k))
  BY DEF CountersMatchGuards
<1>1. Of(w).count[k] = 0
  BY DEF Init, Of, Default
<1>2. <<w, k>> # NoWork
  BY ActivityAssumption
<1>3. Holding(w, k) = {}
  BY <1>2 DEF Init, Holding
<1> QED BY <1>1, <1>3, FS_EmptySet

\* Every counter is, in every state, the number of live guards of its kind.
THEOREM CountersCorrect == Spec => []CountersMatchGuards
BY CountInit, TypeStep, CountStep, TypeCorrect, PTL DEF Spec

-----------------------------------------------------------------------------
(* The gate.                                                               *)

\* Quiescence alone is not inductive: a granted drain stays quiet because
\* its gate is still closed, and it was quiet when granted because the
\* counters, read later than the gate was closed, count the live guards.
GateInv == TypeOK /\ CountersMatchGuards /\ GateFollowsDrainer /\ GrantIsQuiet

\* A step that leaves the drain flags and the drainer alone, and lets nothing
\* into a workspace whose gate is closed, keeps the gate sound.
LEMMA UndrainedStep ==
    ASSUME GateFollowsDrainer, GrantIsQuiet, TypeOK,
           drainer' = drainer,
           \A v \in Workspace : Draining(v)' = Draining(v),
           \A v \in Workspace, j \in Kind :
               Draining(v) => Holding(v, j)' \subseteq Holding(v, j)
    PROVE  GateFollowsDrainer' /\ GrantIsQuiet'
<1>1. GateFollowsDrainer'
  BY DEF GateFollowsDrainer
<1>2. ASSUME drainer.phase = "granted", NEW k \in Kind
      PROVE  Holding(drainer.ws, k)' = {}
  <2>1. drainer.ws \in Workspace
    BY <1>2 DEF TypeOK, Drainers
  <2>2. Draining(drainer.ws)
    BY <1>2, <2>1 DEF GateFollowsDrainer
  <2>3. Holding(drainer.ws, k) = {}
    BY <1>2 DEF GrantIsQuiet
  <2> QED BY <2>1, <2>2, <2>3
<1> QED BY <1>1, <1>2 DEF GrantIsQuiet

\* A rewritten entry with the drain flag it had changes no gate.
LEMMA SameGates ==
    ASSUME NEW w \in Workspace, NEW c, Rewritten(w, c), c.drain = Of(w).drain
    PROVE  \A v \in Workspace : Draining(v)' = Draining(v)
BY DEF Rewritten, Draining

\* Every step keeps the gates in step with the lock holder, and a granted
\* workspace empty.
LEMMA GateStep == GateInv /\ [Next]_vars => GateFollowsDrainer' /\ GrantIsQuiet'
<1> SUFFICES ASSUME GateInv, [Next]_vars PROVE GateFollowsDrainer' /\ GrantIsQuiet'
  OBVIOUS
<1> USE DEF GateInv
<1>1. ASSUME NEW g \in Guard, NEW w \in Workspace, NEW k \in Kind, Acquire(g, w, k)
      PROVE  GateFollowsDrainer' /\ GrantIsQuiet'
  <2>1. \A v \in Workspace : Draining(v)' = Draining(v)
    <3>1. Rewritten(w, [Of(w) EXCEPT !.count[k] = Inc(@)])
      BY <1>1, AcquireRewrites
    <3>2. [Of(w) EXCEPT !.count[k] = Inc(@)].drain = Of(w).drain
      BY OfType DEF Counters
    <3> QED BY <3>1, <3>2, SameGates
  <2>2. ASSUME NEW v \in Workspace, NEW j \in Kind, Draining(v)
        PROVE  Holding(v, j)' \subseteq Holding(v, j)
    <3>1. v # w
      BY <1>1, <2>2 DEF Acquire, AddGuard
    <3> QED BY <1>1, <3>1, AcquireHolding
  <2> QED BY <1>1, <2>1, <2>2, UndrainedStep DEF Acquire, AddGuard
<1>2. ASSUME NEW g \in Guard, Release(g)
      PROVE  GateFollowsDrainer' /\ GrantIsQuiet'
  <2>1. \A v \in Workspace : Draining(v)' = Draining(v)
    <3> DEFINE v == guards[g][1]
               k == guards[g][2]
    <3>1. v \in Workspace /\ k \in Kind
          /\ Rewritten(v, [Of(v) EXCEPT !.count[k] = Dec(@)])
      BY <1>2, ReleaseRewrites
    <3>2. [Of(v) EXCEPT !.count[k] = Dec(@)].drain = Of(v).drain
      BY <3>1, OfType DEF Counters
    <3> HIDE DEF v, k
    <3> QED BY <3>1, <3>2, SameGates
  <2>2. \A v \in Workspace, j \in Kind : Holding(v, j)' \subseteq Holding(v, j)
    BY <1>2, ReleaseHolding
  <2> QED BY <1>2, <2>1, <2>2, UndrainedStep DEF Release, DropGuard
<1>3. ASSUME NEW w \in Workspace, NEW s \in [Observed -> ObservedCounts],
             NEW b \in BOOLEAN, SetProviderActivity(w, s, b),
             UNCHANGED <<guards, drainer>>
      PROVE  GateFollowsDrainer' /\ GrantIsQuiet'
  <2>1. \A v \in Workspace : Draining(v)' = Draining(v)
    <3>1. Rewritten(w, [Of(w) EXCEPT !.seen = s, !.known = b])
      BY <1>3, ProbeRewrites
    <3>2. [Of(w) EXCEPT !.seen = s, !.known = b].drain = Of(w).drain
      BY OfType DEF Counters
    <3> QED BY <3>1, <3>2, SameGates
  <2>2. \A v \in Workspace, j \in Kind : Holding(v, j)' \subseteq Holding(v, j)
    BY <1>3, SameHolding
  <2> QED BY <1>3, <2>1, <2>2, UndrainedStep
<1>4. ASSUME NEW w \in Workspace, ProbeFails(w)
      PROVE  GateFollowsDrainer' /\ GrantIsQuiet'
  <2>1. [o \in Observed |-> 0] \in [Observed -> ObservedCounts]
    BY ActivityAssumption
  <2> QED BY <1>3, <1>4, <2>1 DEF ProbeFails
<1>5. ASSUME NEW w \in Workspace, CloseGate(w)
      PROVE  GateFollowsDrainer' /\ GrantIsQuiet'
  <2>1. drainer.phase = "idle" /\ drainer' = [phase |-> "closing", ws |-> w]
    BY <1>5 DEF CloseGate, SetDrain, NoDrain
  <2>2. \A v \in Workspace : Draining(v)' = (v = w \/ Draining(v))
    BY <1>5, CloseRewrites, OfType DEF Rewritten, Draining, Counters
  <2>3. \A v \in Workspace : ~Draining(v)
    BY <2>1 DEF GateFollowsDrainer
  <2> QED BY <2>1, <2>2, <2>3 DEF GateFollowsDrainer, GrantIsQuiet
<1>6. CASE CheckGate
  <2>1. drainer.phase = "closing" /\ drainer.ws \in Workspace
    BY <1>6 DEF CheckGate, TypeOK, Drainers
  <2>2. /\ drainer'.ws = drainer.ws
        /\ drainer'.phase \in {"granted", "refused"}
        /\ drainer'.phase = "granted" => CanSwitch(Of(drainer.ws))
    BY <1>6 DEF CheckGate, TypeOK, Drainers
  <2>3. \A v \in Workspace : Draining(v)' = Draining(v)
    BY <1>6 DEF CheckGate, Draining, Of
  <2>4. GateFollowsDrainer'
    BY <2>1, <2>2, <2>3 DEF GateFollowsDrainer
  <2>5. ASSUME CanSwitch(Of(drainer.ws)), NEW k \in Kind
        PROVE  Holding(drainer.ws, k)' = {}
    <3>1. Cardinality(Holding(drainer.ws, k)) = 0
      BY <2>1, <2>5 DEF CountersMatchGuards, CanSwitch
    <3>2. Holding(drainer.ws, k) = {}
      BY <3>1, HoldingFinite, FS_EmptySet
    <3> QED BY <1>6, <3>2 DEF CheckGate, Holding
  <2>6. GrantIsQuiet'
    BY <2>2, <2>5 DEF GrantIsQuiet
  <2> QED BY <2>4, <2>6
<1>7. CASE OpenGate
  <2>1. drainer.phase \in {"refused", "granted"} /\ drainer' = [phase |-> "idle"]
    BY <1>7 DEF OpenGate, ClearDrain, NoDrain
  <2>2. \A v \in Workspace : Draining(v)' = (v # drainer.ws /\ Draining(v))
    BY <1>7, OpenRewrites, OfType DEF Rewritten, Draining, Counters
  <2>3. \A v \in Workspace : ~Draining(v)'
    BY <2>1, <2>2 DEF GateFollowsDrainer
  <2> QED BY <2>1, <2>3 DEF GateFollowsDrainer, GrantIsQuiet
<1>8. CASE UNCHANGED vars
  <2>1. \A v \in Workspace : Draining(v)' = Draining(v)
    BY <1>8 DEF vars, Draining, Of
  <2>2. \A v \in Workspace, j \in Kind : Holding(v, j)' \subseteq Holding(v, j)
    BY <1>8, SameHolding DEF vars
  <2> QED BY <1>8, <2>1, <2>2, UndrainedStep DEF vars
<1> QED BY <1>1, <1>2, <1>3, <1>4, <1>5, <1>6, <1>7, <1>8 DEF Next, ProbeAnswers

LEMMA GateInit == Init => GateInv
<1>1. Init => GateFollowsDrainer /\ GrantIsQuiet
  BY DEF Init, NoDrain, GateFollowsDrainer, GrantIsQuiet, Draining, Of, Default
<1>2. Init => TypeOK
  BY DEF Init, TypeOK, NoDrain, Drainers
<1> QED BY <1>1, <1>2, CountInit DEF GateInv

LEMMA GateInvStep == GateInv /\ [Next]_vars => GateInv'
BY TypeStep, CountStep, GateStep DEF GateInv

\* The four invariants together, in every state of every behaviour.
THEOREM GateSound == Spec => []GateInv
BY GateInit, GateInvStep, PTL DEF Spec

\* While a drain is granted, no unit of work of that workspace is alive.
THEOREM GrantedIsQuiet == Spec => []GrantIsQuiet
BY GateSound, PTL DEF GateInv

\* A gate is closed exactly while the holder of the lock drains it.
THEOREM GatesFollowDrainer == Spec => []GateFollowsDrainer
BY GateSound, PTL DEF GateInv

-----------------------------------------------------------------------------
(* The entries of the map.                                                 *)

\* What is stored is not idle, or it is not stored.
LEMMA StoreKeepsBusy ==
    ASSUME NoIdleEntries, NEW w, NEW c, Store(w, c), ~IdleAndOpen(c)
    PROVE  NoIdleEntries'
<1>1. \A v \in DOMAIN inner' : inner'[v] = c \/ (v \in DOMAIN inner /\ inner'[v] = inner[v])
  BY DEF Store
<1> QED BY <1>1 DEF NoIdleEntries, IdleAndOpen

LEMMA StoreOrForgetKeepsBusy ==
    ASSUME NoIdleEntries, NEW w, NEW c, StoreOrForget(w, c)
    PROVE  NoIdleEntries'
<1>1. CASE ~IdleAndOpen(c)
  BY <1>1, StoreKeepsBusy DEF StoreOrForget
<1>2. CASE IdleAndOpen(c)
  <2>1. \A v \in DOMAIN inner' : v \in DOMAIN inner /\ inner'[v] = inner[v]
    BY <1>2 DEF StoreOrForget, Forget
  <2> QED BY <2>1 DEF NoIdleEntries, IdleAndOpen
<1> QED BY <1>1, <1>2

LEMMA BusyStep == TypeOK /\ NoIdleEntries /\ [Next]_vars => NoIdleEntries'
<1> SUFFICES ASSUME TypeOK, NoIdleEntries, [Next]_vars PROVE NoIdleEntries'
  OBVIOUS
<1>1. ASSUME NEW g \in Guard, NEW w \in Workspace, NEW k \in Kind, Acquire(g, w, k)
      PROVE  NoIdleEntries'
  <2> DEFINE c == [Of(w) EXCEPT !.count[k] = Inc(@)]
  <2>1. Of(w) \in Counters
    BY OfType
  <2>2. c.count[k] = Inc(Of(w).count[k]) /\ Of(w).count[k] \in 0 .. MaxCount
    BY <2>1 DEF Counters
  <2>3. Inc(Of(w).count[k]) # 0
    BY <2>2, ActivityAssumption DEF Inc
  <2>4. ~IdleAndOpen(c)
    BY <2>2, <2>3 DEF IdleAndOpen
  <2> QED BY <1>1, <2>4, StoreKeepsBusy DEF Acquire, AddGuard
<1>2. ASSUME NEW w \in Workspace, CloseGate(w) PROVE NoIdleEntries'
  <2>1. Of(w) \in Counters
    BY OfType
  <2>2. [Of(w) EXCEPT !.drain = TRUE].drain = TRUE
    BY <2>1 DEF Counters
  <2>3. ~IdleAndOpen([Of(w) EXCEPT !.drain = TRUE])
    BY <2>2 DEF IdleAndOpen
  <2> QED BY <1>2, <2>3, StoreKeepsBusy DEF CloseGate, SetDrain
<1>3. ASSUME UNCHANGED inner PROVE NoIdleEntries'
  BY <1>3 DEF NoIdleEntries, IdleAndOpen
<1>4. ASSUME NEW g \in Guard, Release(g) PROVE NoIdleEntries'
  BY <1>3, <1>4, StoreOrForgetKeepsBusy DEF Release, DropGuard
<1>5. ASSUME NEW w \in Workspace, NEW s \in [Observed -> ObservedCounts], ProbeAnswers(w, s)
      PROVE  NoIdleEntries'
  BY <1>5, StoreOrForgetKeepsBusy DEF ProbeAnswers, SetProviderActivity
<1>6. ASSUME NEW w \in Workspace, ProbeFails(w) PROVE NoIdleEntries'
  BY <1>6, StoreOrForgetKeepsBusy DEF ProbeFails, SetProviderActivity
<1>7. CASE OpenGate
  BY <1>3, <1>7, StoreOrForgetKeepsBusy DEF OpenGate, ClearDrain
<1>8. CASE CheckGate
  BY <1>3, <1>8 DEF CheckGate
<1>9. CASE UNCHANGED vars
  BY <1>3, <1>9 DEF vars
<1> QED BY <1>1, <1>2, <1>4, <1>5, <1>6, <1>7, <1>8, <1>9 DEF Next

LEMMA BusyInit == Init => NoIdleEntries
BY DEF Init, NoIdleEntries

\* The map has no entry that says nothing, so it does not grow with the
\* workspaces that were ever used.
THEOREM MapStaysSmall == Spec => []NoIdleEntries
BY BusyInit, BusyStep, TypeCorrect, PTL DEF Spec

-----------------------------------------------------------------------------
(* The refinement of WorkGate.                                             *)

\* What is inside a workspace are the holders of every kind.
LEMMA InsideIsHolding ==
    ASSUME NEW w \in Workspace
    PROVE  Inside[w] = UNION {Holding(w, k) : k \in Kind}
BY DEF Inside, Holding

\* A step that changes no guard changes nothing inside.
LEMMA SameInside == guards' = guards => Inside' = Inside
BY DEF Inside

\* The gates seen by WorkGate, when the map is rewritten for w.
LEMMA RewrittenGates ==
    ASSUME NEW w \in Workspace, NEW c, Rewritten(w, c)
    PROVE  OpenGates' = IF c.drain THEN OpenGates \ {w} ELSE OpenGates \cup {w}
BY DEF Rewritten, OpenGates, Draining

\* The drained workspace is closed and no other is.
LEMMA GatesOfDrain ==
    ASSUME GateInv
    PROVE  /\ drainer.phase = "idle" => OpenGates = Workspace
           /\ drainer.phase # "idle" => /\ drainer.ws \in Workspace
                                        /\ OpenGates = Workspace \ {drainer.ws}
BY DEF GateInv, GateFollowsDrainer, OpenGates, TypeOK, Drainers

\* Every step of the coordinator is a step of the gate, or invisible to it.
LEMMA GateRefinementStep ==
    GateInv /\ [Next]_vars => [Gate!Next]_(Gate!vars)
<1> SUFFICES ASSUME GateInv, [Next]_vars PROVE [Gate!Next]_(Gate!vars)
  OBVIOUS
<1>0. TypeOK
  BY DEF GateInv
<1>1. ASSUME NEW g \in Guard, NEW w \in Workspace, NEW k \in Kind, Acquire(g, w, k)
      PROVE  Gate!Enter(g, w)
  <2>1. w \in OpenGates
    BY <1>1 DEF Acquire, AddGuard, OpenGates
  <2>2. \A v \in Workspace : g \notin Inside[v]
    BY <1>0, <1>1, AcquireHolding, InsideIsHolding
  <2>3. g \notin Gate!Busy
    BY <2>2 DEF Gate!Busy
  <2>4. ASSUME NEW v \in Workspace
        PROVE  Inside'[v] = IF v = w THEN Inside[v] \cup {g} ELSE Inside[v]
    <3>1. guards' = [guards EXCEPT ![g] = <<w, k>>] /\ guards[g] = NoWork
      BY <1>1 DEF Acquire, AddGuard
    <3>2. \A j \in Kind : NoWork # <<v, j>>
      BY ActivityAssumption
    <3>3. \A h \in Guard : guards'[h] = IF h = g THEN <<w, k>> ELSE guards[h]
      BY <1>0, <3>1 DEF TypeOK
    <3>4. Inside[v] = {h \in Guard : \E j \in Kind : guards[h] = <<v, j>>}
      BY DEF Inside
    <3>5. Inside'[v] = {h \in Guard : \E j \in Kind : guards'[h] = <<v, j>>}
      BY DEF Inside
    <3> QED BY <3>1, <3>2, <3>3, <3>4, <3>5
  <2>5. Inside' = [Inside EXCEPT ![w] = @ \cup {g}]
    BY <2>4 DEF Inside
  <2>6. OpenGates' = OpenGates
    <3> DEFINE c == [Of(w) EXCEPT !.count[k] = Inc(@)]
    <3>1. c.drain = FALSE
      BY <1>0, <1>1, OfType DEF Acquire, AddGuard, Draining, Counters
    <3>2. Rewritten(w, c)
      BY <1>0, <1>1, AcquireRewrites
    <3> HIDE DEF c
    <3> QED BY <2>1, <3>1, <3>2, RewrittenGates
  <2>7. Granted' = Granted
    BY <1>1 DEF Acquire, AddGuard, Granted
  <2> QED BY <2>1, <2>3, <2>5, <2>6, <2>7 DEF Gate!Enter
<1>2. ASSUME NEW g \in Guard, Release(g)
      PROVE  \E w \in Workspace : Gate!Leave(g, w)
  <2> DEFINE w == guards[g][1]
             k == guards[g][2]
             c == [Of(w) EXCEPT !.count[k] = Dec(@)]
  <2>1. guards[g] \in Workspace \X Kind /\ Rewritten(w, c)
    BY <1>0, <1>2, ReleaseRewrites
  <2>2. w \in Workspace /\ k \in Kind /\ guards[g] = <<w, k>>
    BY <2>1
  <2>3. g \in Inside[w]
    BY <2>2 DEF Inside
  <2>4. ASSUME NEW v \in Workspace
        PROVE  Inside'[v] = IF v = w THEN Inside[v] \ {g} ELSE Inside[v]
    <3>1. Inside'[v] = Inside[v] \ {g}
      <4>1. \A j \in Kind : NoWork # <<v, j>>
        BY ActivityAssumption
      <4>2. \A h \in Guard : guards'[h] = IF h = g THEN NoWork ELSE guards[h]
        BY <1>0, <1>2 DEF Release, DropGuard, TypeOK
      <4>3. Inside[v] = {h \in Guard : \E j \in Kind : guards[h] = <<v, j>>}
        BY DEF Inside
      <4>4. Inside'[v] = {h \in Guard : \E j \in Kind : guards'[h] = <<v, j>>}
        BY DEF Inside
      <4> QED BY <4>1, <4>2, <4>3, <4>4
    <3>2. v # w => g \notin Inside[v]
      BY <2>2 DEF Inside
    <3> QED BY <3>1, <3>2
  <2>5. Inside' = [Inside EXCEPT ![w] = @ \ {g}]
    BY <2>4 DEF Inside
  <2>6. c.drain = Of(w).drain
    BY <1>0, <2>2, OfType DEF Counters
  <2>7. OpenGates' = OpenGates
    BY <2>1, <2>2, <2>6, RewrittenGates DEF OpenGates, Draining
  <2>8. Granted' = Granted
    BY <1>2 DEF Release, DropGuard, Granted
  <2> QED BY <2>2, <2>3, <2>5, <2>7, <2>8 DEF Gate!Leave
<1>3. ASSUME NEW w \in Workspace, NEW s \in [Observed -> ObservedCounts],
             NEW b \in BOOLEAN, SetProviderActivity(w, s, b),
             UNCHANGED <<guards, drainer>>
      PROVE  UNCHANGED Gate!vars
  <2> DEFINE c == [Of(w) EXCEPT !.seen = s, !.known = b]
  <2>1. c.drain = Of(w).drain
    BY <1>0, OfType DEF Counters
  <2>2. Rewritten(w, c)
    BY <1>0, <1>3, ProbeRewrites
  <2> HIDE DEF c
  <2>3. OpenGates' = OpenGates
    BY <2>1, <2>2, RewrittenGates DEF OpenGates, Draining
  <2> QED BY <1>3, <2>3, SameInside DEF Gate!vars, Granted
<1>4. ASSUME NEW w \in Workspace, ProbeFails(w)
      PROVE  UNCHANGED Gate!vars
  <2>1. [o \in Observed |-> 0] \in [Observed -> ObservedCounts]
    BY ActivityAssumption
  <2> QED BY <1>3, <1>4, <2>1 DEF ProbeFails
<1>5. ASSUME NEW w \in Workspace, CloseGate(w)
      PROVE  Gate!Close(w)
  <2>1. drainer.phase = "idle" /\ drainer' = [phase |-> "closing", ws |-> w]
    BY <1>5 DEF CloseGate, SetDrain, NoDrain
  <2>2. OpenGates = Workspace
    BY <2>1, GatesOfDrain
  <2>3. OpenGates' = OpenGates \ {w}
    <3> DEFINE c == [Of(w) EXCEPT !.drain = TRUE]
    <3>1. c.drain = TRUE
      BY <1>0, OfType DEF Counters
    <3>2. Rewritten(w, c)
      BY <1>0, <1>5, CloseRewrites
    <3> HIDE DEF c
    <3> QED BY <3>1, <3>2, RewrittenGates
  <2>4. Inside' = Inside
    BY <1>5, SameInside DEF CloseGate, SetDrain
  <2>5. Granted' = Granted
    BY <2>1 DEF Granted
  <2> QED BY <2>2, <2>3, <2>4, <2>5 DEF Gate!Close
<1>6. CASE CheckGate
  <2>1. drainer.phase = "closing" /\ drainer.ws \in Workspace
    BY <1>0, <1>6 DEF CheckGate, TypeOK, Drainers
  <2>2. drainer.ws \notin OpenGates
    BY <2>1, GatesOfDrain
  <2>3. OpenGates' = OpenGates /\ Inside' = Inside
    BY <1>6, SameInside DEF CheckGate, OpenGates, Draining, Of
  <2>4. drainer' = [drainer EXCEPT !.phase =
                      IF CanSwitch(Of(drainer.ws)) THEN "granted" ELSE "refused"]
    BY <1>6 DEF CheckGate
  <2>5. CASE CanSwitch(Of(drainer.ws))
    <3>1. drainer'.phase = "granted" /\ drainer'.ws = drainer.ws
      BY <1>0, <2>4, <2>5 DEF TypeOK, Drainers
    <3>2. Granted' = Granted \cup {drainer.ws}
      BY <2>1, <3>1 DEF Granted
    <3>3. ASSUME NEW k \in Kind PROVE Holding(drainer.ws, k) = {}
      <4>1. Cardinality(Holding(drainer.ws, k)) = 0
        BY <2>1, <2>5 DEF GateInv, CountersMatchGuards, CanSwitch
      <4> QED BY <4>1, HoldingFinite, FS_EmptySet
    <3>4. Inside[drainer.ws] = {}
      BY <2>1, <3>3, InsideIsHolding
    <3>5. Gate!Grant(drainer.ws)
      BY <2>2, <2>3, <3>2, <3>4 DEF Gate!Grant
    <3> QED BY <2>1, <3>5 DEF Gate!Next
  <2>6. CASE ~CanSwitch(Of(drainer.ws))
    <3>1. drainer'.phase = "refused"
      BY <1>0, <2>4, <2>6 DEF TypeOK, Drainers
    <3>2. Granted' = Granted
      BY <2>1, <3>1 DEF Granted
    <3> QED BY <2>3, <3>2 DEF Gate!vars
  <2> QED BY <2>5, <2>6
<1>7. CASE OpenGate
  <2>1. drainer.phase \in {"refused", "granted"} /\ drainer' = [phase |-> "idle"]
    BY <1>7 DEF OpenGate, ClearDrain, NoDrain
  <2>2. drainer.ws \in Workspace /\ drainer.ws \notin OpenGates
    BY <2>1, GatesOfDrain
  <2>3. OpenGates' = OpenGates \cup {drainer.ws}
    <3>1. [Of(drainer.ws) EXCEPT !.drain = FALSE].drain = FALSE
      BY <1>0, <2>2, OfType DEF Counters
    <3> QED BY <1>0, <1>7, <3>1, OpenRewrites, RewrittenGates
  <2>4. Inside' = Inside
    BY <1>7, SameInside DEF OpenGate, ClearDrain
  <2>5. Granted' = Granted \ {drainer.ws}
    BY <2>1 DEF Granted
  <2>6. Gate!Open(drainer.ws)
    BY <2>2, <2>3, <2>4, <2>5 DEF Gate!Open
  <2> QED BY <2>2, <2>6 DEF Gate!Next
<1>8. CASE UNCHANGED vars
  BY <1>8 DEF vars, Gate!vars, OpenGates, Draining, Of, Inside, Granted
<1>9. CASE \E g \in Guard, w \in Workspace, k \in Kind : Acquire(g, w, k)
  BY <1>1, <1>9 DEF Gate!Next
<1>10. CASE \E g \in Guard : Release(g)
  BY <1>2, <1>10 DEF Gate!Next
<1>11. CASE \E w \in Workspace, s \in [Observed -> ObservedCounts] : ProbeAnswers(w, s)
  BY <1>3, <1>11 DEF ProbeAnswers
<1>12. CASE \E w \in Workspace : ProbeFails(w)
  BY <1>4, <1>12
<1>13. CASE \E w \in Workspace : CloseGate(w)
  BY <1>5, <1>13 DEF Gate!Next
<1> QED BY <1>6, <1>7, <1>8, <1>9, <1>10, <1>11, <1>12, <1>13 DEF Next

\* The activity coordinator is a work gate.
THEOREM Refinement == Spec => ImplementsWorkGate
<1>1. Init => Gate!Init
  <2> SUFFICES ASSUME Init PROVE Gate!Init
    OBVIOUS
  <2>1. OpenGates = Workspace
    BY DEF Init, OpenGates, Draining, Of, Default
  <2>2. ASSUME NEW w \in Workspace PROVE Inside[w] = {}
    <3>1. \A k \in Kind : NoWork # <<w, k>>
      BY ActivityAssumption
    <3> QED BY <3>1 DEF Init, Inside
  <2>3. Inside = [w \in Workspace |-> {}]
    BY <2>2 DEF Inside
  <2>4. Granted = {}
    BY DEF Init, NoDrain, Granted
  <2> QED BY <2>1, <2>3, <2>4 DEF Gate!Init
<1> QED BY <1>1, GateSound, GateRefinementStep, PTL DEF Spec, Gate!Spec, ImplementsWorkGate

=============================================================================
