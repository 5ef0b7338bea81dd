------------------------------ MODULE Activity ------------------------------
(***************************************************************************)
(* The activity coordinator (activity/coordinator.rs): per workspace, the  *)
(* counters of work in progress and the drain gate.  Every unit of work    *)
(* holds a guard that is counted while it lives.  The one holder of the    *)
(* `workspace_activation` lock drains a workspace in two critical          *)
(* sections: begin_drain closes the gate under the coordinator's mutex,    *)
(* releases it, and can_switch reads the counters under a second           *)
(* acquisition.                                                            *)
(*                                                                         *)
(* The map is modelled as it is: a partial function whose absent entries   *)
(* read as the default record, with the entries removed as soon as they    *)
(* are idle and open.                                                      *)
(***************************************************************************)
EXTENDS Integers, FiniteSets

CONSTANTS Workspace,       \* workspace ids
          Guard,           \* identities of the guards alive at one time
          ObservedCounts,  \* counts passed to set_provider_activity
          MaxCount,        \* where the u32 counters saturate
          NoWork           \* a guard that is not alive

Kind == {"mcp", "exec", "turn", "operation"}
Observed == {"turn", "operation"}

ASSUME ActivityAssumption ==
    /\ IsFiniteSet(Guard)
    /\ MaxCount \in Nat \ {0}
    /\ Cardinality(Guard) <= MaxCount       \* fewer than 2^32 live guards
    /\ ObservedCounts \subseteq Nat /\ 0 \in ObservedCounts
    /\ NoWork \notin Workspace \X Kind

VARIABLES inner,     \* the map: [a subset of Workspace -> Counters]
          guards,    \* [Guard -> <<workspace, kind>> or NoWork]
          drainer    \* what the holder of `workspace_activation` is doing

vars == <<inner, guards, drainer>>

Counters == [count : [Kind -> 0 .. MaxCount],
             seen  : [Observed -> ObservedCounts],
             known : BOOLEAN,
             drain : BOOLEAN]

Default == [count |-> [k \in Kind |-> 0],
            seen  |-> [o \in Observed |-> 0],
            known |-> TRUE,
            drain |-> FALSE]

Drainers == [phase : {"idle"}]
              \cup [phase : {"closing", "refused", "granted"}, ws : Workspace]
NoDrain == [phase |-> "idle"]

-----------------------------------------------------------------------------
(* The counters of one workspace.                                          *)

\* `get(..).cloned().unwrap_or_default()` and `entry(..).or_default()`.
Of(w) == IF w \in DOMAIN inner THEN inner[w] ELSE Default

Inc(n) == IF n < MaxCount THEN n + 1 ELSE n      \* saturating_add(1)
Dec(n) == IF n > 0 THEN n - 1 ELSE n             \* saturating_sub(1)

\* Mutants of IdleAndOpen: an entry removed under its live guards; a drain
\* undone by the release of the last guard.
IdleDespiteGuards(c) == (\A o \in Observed : c.seen[o] = 0) /\ c.known /\ ~c.drain
IdleDespiteDrain(c) == /\ \A k \in Kind : c.count[k] = 0
                       /\ \A o \in Observed : c.seen[o] = 0
                       /\ c.known

IdleAndOpen(c) == /\ \A k \in Kind : c.count[k] = 0
                  /\ \A o \in Observed : c.seen[o] = 0
                  /\ c.known
                  /\ ~c.drain

\* Mutant of CanSwitch: executions do not count.
SwitchDespiteExec(c) == /\ \A k \in Kind \ {"exec"} : c.count[k] = 0
                        /\ \A o \in Observed : c.seen[o] = 0
                        /\ c.known

\* The reasons list is empty.  A snapshot reports max(guards, observed) for
\* turns and operations, so it is zero when both are.
CanSwitch(c) == /\ \A k \in Kind : c.count[k] = 0
                /\ \A o \in Observed : c.seen[o] = 0
                /\ c.known

Store(w, c) == inner' = [v \in DOMAIN inner \cup {w} |-> IF v = w THEN c ELSE inner[v]]
Forget(w)   == inner' = [v \in DOMAIN inner \ {w} |-> inner[v]]

\* The tail of every mutator but `acquire` and `begin_drain`.
StoreOrForget(w, c) == IF IdleAndOpen(c) THEN Forget(w) ELSE Store(w, c)

Draining(w) == Of(w).drain

SetDrain(w) == Store(w, [Of(w) EXCEPT !.drain = TRUE])

ClearDrain(w) == IF w \in DOMAIN inner
                 THEN StoreOrForget(w, [inner[w] EXCEPT !.drain = FALSE])
                 ELSE UNCHANGED inner

\* Mutant of AddGuard: the gate is not looked at.
AddGuardUnchecked(g, w, k) ==
    /\ guards[g] = NoWork
    /\ Store(w, [Of(w) EXCEPT !.count[k] = Inc(@)])
    /\ guards' = [guards EXCEPT ![g] = <<w, k>>]

AddGuard(g, w, k) ==
    /\ guards[g] = NoWork
    /\ ~Draining(w)
    /\ Store(w, [Of(w) EXCEPT !.count[k] = Inc(@)])
    /\ guards' = [guards EXCEPT ![g] = <<w, k>>]

\* Mutant of DropGuard: the entry is kept when it becomes idle.
DropGuardKeepsEntry(g) ==
    /\ guards[g] # NoWork
    /\ Store(guards[g][1], [Of(guards[g][1]) EXCEPT !.count[guards[g][2]] = Dec(@)])
    /\ guards' = [guards EXCEPT ![g] = NoWork]

DropGuard(g) ==
    /\ guards[g] # NoWork
    /\ LET w == guards[g][1]
           k == guards[g][2]
       IN  IF w \in DOMAIN inner
           THEN StoreOrForget(w, [inner[w] EXCEPT !.count[k] = Dec(@)])
           ELSE UNCHANGED inner
    /\ guards' = [guards EXCEPT ![g] = NoWork]

SetProviderActivity(w, seen, known) ==
    StoreOrForget(w, [Of(w) EXCEPT !.seen = seen, !.known = known])

-----------------------------------------------------------------------------
Init == /\ inner = [w \in {} |-> Default]
        /\ guards = [g \in Guard |-> NoWork]
        /\ drainer = NoDrain

\* A blocked `acquire` returns an error and leaves the entry it found.
Acquire(g, w, k) == AddGuard(g, w, k) /\ UNCHANGED drainer

\* `release`, called once by ActivityGuard::release or by its Drop.
Release(g) == DropGuard(g) /\ UNCHANGED drainer

\* A probe that answers, from activation or from the status commands.
ProbeAnswers(w, seen) ==
    /\ SetProviderActivity(w, seen, TRUE)
    /\ UNCHANGED <<guards, drainer>>

\* Only activation and deactivation record a failed probe, before draining.
ProbeFails(w) ==
    /\ drainer = NoDrain
    /\ SetProviderActivity(w, [o \in Observed |-> 0], FALSE)
    /\ UNCHANGED <<guards, drainer>>

\* begin_drain, first critical section.
CloseGate(w) ==
    /\ drainer = NoDrain
    /\ SetDrain(w)
    /\ drainer' = [phase |-> "closing", ws |-> w]
    /\ UNCHANGED guards

\* begin_drain, second critical section: can_switch on a fresh snapshot.
CheckGate ==
    /\ drainer.phase = "closing"
    /\ drainer' = [drainer EXCEPT !.phase =
                     IF CanSwitch(Of(drainer.ws)) THEN "granted" ELSE "refused"]
    /\ UNCHANGED <<inner, guards>>

\* open_gate on the drained workspace, when refused or when done with it.
OpenGate ==
    /\ drainer.phase \in {"refused", "granted"}
    /\ ClearDrain(drainer.ws)
    /\ drainer' = NoDrain
    /\ UNCHANGED guards

Next == \/ \E g \in Guard, w \in Workspace, k \in Kind : Acquire(g, w, k)
        \/ \E g \in Guard : Release(g)
        \/ \E w \in Workspace, s \in [Observed -> ObservedCounts] : ProbeAnswers(w, s)
        \/ \E w \in Workspace : ProbeFails(w)
        \/ \E w \in Workspace : CloseGate(w)
        \/ CheckGate
        \/ OpenGate

Spec == Init /\ [][Next]_vars

-----------------------------------------------------------------------------
TypeOK == /\ DOMAIN inner \subseteq Workspace
          /\ inner \in [DOMAIN inner -> Counters]
          /\ guards \in [Guard -> (Workspace \X Kind) \cup {NoWork}]
          /\ drainer \in Drainers

Holding(w, k) == {g \in Guard : guards[g] = <<w, k>>}

\* Each counter is the number of live guards of its kind: a guard acquired
\* under one entry and released after that entry was removed and created
\* again is neither lost nor counted twice.
CountersMatchGuards ==
    \A w \in Workspace, k \in Kind : Of(w).count[k] = Cardinality(Holding(w, k))

\* While a drain is granted (the caller is stopping or switching the
\* workspace) no unit of work of that workspace is alive, although the gate
\* was closed in one critical section and the counters read in another.
GrantIsQuiet ==
    drainer.phase = "granted" =>
        \A k \in Kind : Holding(drainer.ws, k) = {}

\* A gate is closed exactly while the lock holder drains that workspace: no
\* release or probe that removes an entry reopens a gate, and none is left
\* closed behind.
GateFollowsDrainer ==
    \A w \in Workspace :
        Draining(w) <=> drainer.phase # "idle" /\ drainer.ws = w

\* The map holds no entry that says nothing: it does not grow with the
\* workspaces that were ever used.
NoIdleEntries == \A w \in DOMAIN inner : ~IdleAndOpen(inner[w])

\* The gate as WorkGate sees it.
OpenGates == {w \in Workspace : ~Draining(w)}
Inside == [w \in Workspace |-> {g \in Guard : \E k \in Kind : guards[g] = <<w, k>>}]
Granted == {w \in Workspace : drainer.phase = "granted" /\ drainer.ws = w}

\* The coordinator is a work gate: work enters through an open gate only,
\* gates are closed one at a time, and a workspace is granted empty and
\* stays empty until its gate opens.
Gate == INSTANCE WorkGate WITH open <- OpenGates, inside <- Inside, granted <- Granted
ImplementsWorkGate == Gate!Spec
=============================================================================
