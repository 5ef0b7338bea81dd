-------------------------- MODULE ActivationProofs --------------------------
(***************************************************************************)
(* Proofs about WorkspaceActivation, for any number of workspaces, guards  *)
(* and observed counts: its types, that it uses the coordinator as Activity*)
(* prescribes, and what a call that ended has left running.                *)
(***************************************************************************)
EXTENDS WorkspaceActivation, RuntimeProofs

\* The theorems of the coordinator, with the drainer of this module.
Co == INSTANCE ActivityProofs WITH drainer <- Drainer

\* The constants are those the coordinator's theorems assume.
LEMMA CoordinatorAssumption == Co!ActivityAssumption
BY ActivationAssumption, Zenon
   DEF Co!ActivityAssumption, Co!Kind, Co!IsFiniteSet, Co!Cardinality, Cardinality, IsFiniteSet

-----------------------------------------------------------------------------
(* The steps of a call                                                     *)

\* Where a call of each kind may be, and which workspaces it is about.
OpShape ==
    /\ op \in Ops
    /\ op.pc = "idle" => op = NoOp
    /\ op.pc # "idle" => op.target \in Workspace /\ op.call # "none"
    /\ op.call = "resume" => /\ op.pc \in {"resume", "starting", "save"}
                             /\ op.source = op.target
    /\ op.call = "restart" =>
         /\ op.pc \in {"probe", "close", "check", "refused", "granted", "stopping", "launch",
                       "starting", "save", "restore", "restoring", "restored", "lost"}
         /\ op.source = op.target
    /\ op.call = "stop" =>
         /\ op.pc \in {"probe", "close", "check", "refused", "granted", "stopping", "stopped"}
         /\ op.source = op.target
    /\ op.call = "switch" =>
         /\ op.pc \notin {"idle", "resume", "stopped"}
         /\ op.source # op.target
         /\ op.source = NoWs => op.pc \in {"launch", "starting", "save", "undo", "undoing"}

\* A step to pc changes nothing else of the call.
LEMMA GoToFields ==
    ASSUME op \in Ops, NEW pc, GoTo(pc),
           pc \in {"save", "starting", "close", "check", "granted", "refused", "stopped", "launch",
                   "restore", "reopen", "undoing", "restoring", "restored", "lost"}
    PROVE  /\ op' \in Ops /\ op'.pc = pc
           /\ op'.call = op.call /\ op'.target = op.target /\ op'.source = op.source
           /\ op'.ran = op.ran /\ op'.auth = op.auth /\ op'.mayRun = op.mayRun
BY DEF GoTo, Ops

LEMMA NoOpShape == op' = NoOp => OpShape'
BY DEF OpShape, NoOp, Ops

LEMMA InitShape == op = NoOp => OpShape
BY DEF OpShape, NoOp, Ops

\* A request gives the call the workspaces it is about.
LEMMA RequestShape ==
    ASSUME OpShape, active \in [ws : Workspace \cup {NoWs}, phase : ActivePhase],
           store \subseteq Workspace, Request
    PROVE  OpShape'
<1>0. NoWs \notin Workspace
  BY RuntimeAssumption
<1>1. ASSUME NEW w \in Workspace, NEW force \in BOOLEAN, Activate(w, force) PROVE OpShape'
  <2>1. PICK s \in Sources(w) :
          op' = [NoOp EXCEPT
                   !.pc = IF s = w /\ ~force THEN "resume"
                          ELSE IF s = NoWs THEN "launch" ELSE "probe",
                   !.call = IF s # w THEN "switch"
                            ELSE IF force THEN "restart" ELSE "resume",
                   !.target = w, !.source = s, !.auth = TRUE]
    BY <1>1 DEF Activate
  <2>2. s \in Workspace \cup {NoWs}
    BY <2>1 DEF Sources
  <2>3. CASE s = w /\ ~force
    <3>1. op' = [NoOp EXCEPT !.pc = "resume", !.call = "resume",
                            !.target = w, !.source = w, !.auth = TRUE]
      BY <2>1, <2>3
    <3> QED BY <3>1, <1>0 DEF OpShape, NoOp, Ops
  <2>4. CASE s = w /\ force
    <3>1. op' = [NoOp EXCEPT !.pc = "probe", !.call = "restart",
                            !.target = w, !.source = w, !.auth = TRUE]
      BY <2>1, <2>4, <1>0
    <3> QED BY <3>1, <1>0 DEF OpShape, NoOp, Ops
  <2>5. CASE s # w /\ s = NoWs
    <3>1. op' = [NoOp EXCEPT !.pc = "launch", !.call = "switch",
                            !.target = w, !.source = NoWs, !.auth = TRUE]
      BY <2>1, <2>5
    <3> QED BY <3>1, <1>0 DEF OpShape, NoOp, Ops
  <2>6. CASE s # w /\ s # NoWs
    <3>1. op' = [NoOp EXCEPT !.pc = "probe", !.call = "switch",
                            !.target = w, !.source = s, !.auth = TRUE]
      BY <2>1, <2>6
    <3> QED BY <3>1, <2>2, <2>6 DEF OpShape, NoOp, Ops
  <2> QED BY <2>3, <2>4, <2>5, <2>6
<1>2. ASSUME NEW w \in Workspace, Deactivate(w) PROVE OpShape'
  BY <1>2 DEF Deactivate, OpShape, NoOp, Ops
<1> QED BY <1>1, <1>2 DEF Request

LEMMA OpStepShape == ASSUME OpShape, OpStep PROVE OpShape'
<1>0. op \in Ops
  BY DEF OpShape
<1> USE DEF Pc
<1>1. CASE Finish
  BY <1>1, NoOpShape DEF Finish
<1>2. CASE Resume
  <2>1. GoTo("save") \/ GoTo("starting")
    BY <1>2 DEF Resume
  <2> QED BY <1>0, <1>2, <2>1, GoToFields DEF Resume, OpShape
<1>3. CASE Probe
  <2>1. GoTo("close") \/ Finish
    BY <1>3 DEF Probe
  <2> QED BY <1>0, <1>1, <1>3, <2>1, GoToFields DEF Probe, OpShape
<1>4. CASE CloseGate
  BY <1>0, <1>4, GoToFields DEF CloseGate, OpShape
<1>5. CASE CheckGate
  <2>1. GoTo("granted") \/ GoTo("refused")
    BY <1>5 DEF CheckGate
  <2> QED BY <1>0, <1>5, <2>1, GoToFields DEF CheckGate, OpShape
<1>6. CASE Refused \/ Stopped \/ Reopen \/ Restored \/ Lost
  BY <1>1, <1>6 DEF Refused, Stopped, Reopen, Restored, Lost, GiveUp
<1>7. CASE Granted
  <2>1. CASE op' = [op EXCEPT !.pc = "stopping", !.ran = TRUE]
    BY <1>0, <1>7, <2>1 DEF Granted, OpShape, Ops
  <2>2. CASE op.call = "stop" /\ GoTo("stopped")
    BY <1>0, <1>7, <2>2, GoToFields DEF Granted, OpShape
  <2>3. CASE op.call # "stop" /\ GoTo("launch")
    BY <1>0, <1>7, <2>3, GoToFields DEF Granted, OpShape
  <2> QED BY <1>7, <2>1, <2>2, <2>3 DEF Granted
<1>8. CASE SourceStopped
  <2>1. CASE op.call = "stop" /\ GoTo("stopped")
    BY <1>0, <1>8, <2>1, GoToFields DEF SourceStopped, OpShape
  <2>2. CASE op.call # "stop" /\ GoTo("launch")
    BY <1>0, <1>8, <2>2, GoToFields DEF SourceStopped, OpShape
  <2> QED BY <1>8, <2>1, <2>2 DEF SourceStopped
<1>9. CASE SourceNotStopped
  <2>1. CASE op.call = "switch" /\ GoTo("restore")
    BY <1>0, <1>9, <2>1, GoToFields DEF SourceNotStopped, OpShape
  <2> QED BY <1>1, <1>9, <2>1 DEF SourceNotStopped, GiveUp
<1>10. CASE Launch
  BY <1>0, <1>10, GoToFields DEF Launch, OpShape
<1>11. CASE Started
  BY <1>0, <1>11, GoToFields DEF Started, OpShape
<1>12. CASE NotStarted
  <2>1. CASE op.call = "restart" /\ GoTo("restore")
    BY <1>0, <1>12, <2>1, GoToFields DEF NotStarted, OpShape
  <2>2. ASSUME op.call = "switch", NEW m \in BOOLEAN,
               op' = [op EXCEPT !.pc = "undo", !.mayRun = m]
        PROVE  OpShape'
    BY <1>0, <1>12, <2>2 DEF NotStarted, OpShape, Ops
  <2> QED BY <1>1, <1>12, <2>1, <2>2 DEF NotStarted
<1>13. CASE Save
  <2>1. CASE op.call = "switch" /\ op.source # NoWs /\ GoTo("reopen")
    BY <1>0, <1>13, <2>1, GoToFields DEF Save, OpShape
  <2> QED BY <1>1, <1>13, <2>1 DEF Save
<1>14. CASE NotSaved
  <2>1. CASE op.call = "restart" /\ GoTo("restore")
    BY <1>0, <1>14, <2>1, GoToFields DEF NotSaved, OpShape
  <2>2. CASE op.call = "switch" /\ op' = [op EXCEPT !.pc = "undo", !.mayRun = TRUE]
    BY <1>0, <1>14, <2>2 DEF NotSaved, OpShape, Ops
  <2> QED BY <1>1, <1>14, <2>1, <2>2 DEF NotSaved
<1>15. CASE op.source # NoWs /\ GoTo("restore") /\ (Undo \/ Undone)
  BY <1>0, <1>15, GoToFields DEF Undo, Undone, OpShape
<1>16. CASE GoTo("undoing") /\ Undo
  BY <1>0, <1>16, GoToFields DEF Undo, OpShape
<1>17. CASE Undo \/ Undone
  BY <1>1, <1>15, <1>16, <1>17 DEF Undo, Undone, AfterUndo
<1>18. CASE Restore
  <2>1. GoTo("restoring") \/ GoTo("restored")
    BY <1>18 DEF Restore
  <2> QED BY <1>0, <1>18, <2>1, GoToFields DEF Restore, OpShape
<1>19. CASE SourceRestarted
  <2>1. GoTo("restored") \/ GoTo("lost")
    BY <1>19 DEF SourceRestarted
  <2> QED BY <1>0, <1>19, <2>1, GoToFields DEF SourceRestarted, OpShape
<1> QED
  BY <1>2, <1>3, <1>4, <1>5, <1>6, <1>7, <1>8, <1>9, <1>10, <1>11, <1>12, <1>13, <1>14, <1>17,
     <1>18, <1>19 DEF OpStep

-----------------------------------------------------------------------------
(* The coordinator under the calls                                         *)

\* What the calls of this module keep of the coordinator's state is what its
\* own theorems say, read with the drainer of this module.
LEMMA SameCoordinator == /\ Act!TypeOK <=> Co!TypeOK
                         /\ Act!GateFollowsDrainer <=> Co!GateFollowsDrainer
                         /\ Act!NoIdleEntries <=> Co!NoIdleEntries
                         /\ Act!GrantIsQuiet <=> Co!GrantIsQuiet
BY DEF Act!TypeOK, Co!TypeOK, Act!Counters, Co!Counters, Act!Drainers, Co!Drainers,
       Act!GateFollowsDrainer, Co!GateFollowsDrainer, Act!Draining, Co!Draining, Act!Of, Co!Of,
       Act!Default, Co!Default, Act!NoIdleEntries, Co!NoIdleEntries,
       Act!IdleAndOpen, Co!IdleAndOpen, Act!Kind, Co!Kind, Act!Observed, Co!Observed,
       Act!GrantIsQuiet, Co!GrantIsQuiet, Act!Holding, Co!Holding

LEMMA SameNext == (Act!Next <=> Co!Next) /\ Act!vars = Co!vars
BY DEF Act!Next, Co!Next, Act!vars, Co!vars, Act!Acquire, Co!Acquire, Act!Release, Co!Release,
       Act!ProbeAnswers, Co!ProbeAnswers, Act!ProbeFails, Co!ProbeFails, Act!CloseGate,
       Co!CloseGate, Act!CheckGate, Co!CheckGate, Act!OpenGate, Co!OpenGate, Act!AddGuard,
       Co!AddGuard, Act!DropGuard, Co!DropGuard, Act!SetProviderActivity,
       Co!SetProviderActivity, Act!SetDrain, Co!SetDrain, Act!ClearDrain, Co!ClearDrain,
       Act!StoreOrForget, Co!StoreOrForget, Act!Store, Co!Store, Act!Forget, Co!Forget,
       Act!IdleAndOpen, Co!IdleAndOpen, Act!CanSwitch, Co!CanSwitch, Act!Of, Co!Of,
       Act!Draining, Co!Draining, Act!Inc, Co!Inc, Act!Dec, Co!Dec, Act!Kind, Co!Kind,
       Act!Observed, Co!Observed, Act!Default, Co!Default, Act!NoDrain, Co!NoDrain

\* Clearing the gate of a workspace whose gate is open changes nothing.
LEMMA ClearOpenGate ==
    ASSUME Act!TypeOK, Act!NoIdleEntries, NEW w \in Workspace,
           ~Act!Draining(w), Act!ClearDrain(w)
    PROVE  UNCHANGED inner
<1>1. CASE w \notin DOMAIN inner
  BY <1>1 DEF Act!ClearDrain
<1>2. CASE w \in DOMAIN inner
  <2>1. inner[w] \in Act!Counters /\ inner[w].drain = FALSE
    BY <1>2 DEF Act!TypeOK, Act!Draining, Act!Of, Act!Counters
  <2>2. [inner[w] EXCEPT !.drain = FALSE] = inner[w]
    BY <2>1 DEF Act!Counters
  <2>3. ~Act!IdleAndOpen(inner[w])
    BY <1>2 DEF Act!NoIdleEntries
  <2>4. inner' = [v \in DOMAIN inner \cup {w} |-> IF v = w THEN inner[w] ELSE inner[v]]
    BY <1>2, <2>2, <2>3 DEF Act!ClearDrain, Act!StoreOrForget, Act!Store
  <2>5. inner = [v \in DOMAIN inner |-> inner[v]]
    BY DEF Act!TypeOK
  <2> QED BY <1>2, <2>4, <2>5
<1> QED BY <1>1, <1>2

\* The drain in progress, by the step the call is at.
Grants == HoldsGrant /\ op.source # NoWs

LEMMA DrainerValue ==
    /\ op.pc = "check" => Drainer = [phase |-> "closing", ws |-> op.source]
    /\ op.pc = "refused" => Drainer = [phase |-> "refused", ws |-> op.source]
    /\ op.pc \notin {"check", "refused"} /\ Grants =>
         Drainer = [phase |-> "granted", ws |-> op.source]
    /\ op.pc \notin {"check", "refused"} /\ ~Grants => Drainer = [phase |-> "idle"]
BY DEF Drainer, Grants, HoldsGrant

LEMMA DrainerValueNext ==
    /\ op'.pc = "check" => Drainer' = [phase |-> "closing", ws |-> op'.source]
    /\ op'.pc = "refused" => Drainer' = [phase |-> "refused", ws |-> op'.source]
    /\ op'.pc \notin {"check", "refused"} /\ Grants' =>
         Drainer' = [phase |-> "granted", ws |-> op'.source]
    /\ op'.pc \notin {"check", "refused"} /\ ~Grants' => Drainer' = [phase |-> "idle"]
BY DEF Drainer, Grants, HoldsGrant

LEMMA NoOpDrains == op' = NoOp => op'.pc = "idle" /\ ~Grants' /\ Drainer' = [phase |-> "idle"]
BY DEF NoOp, Drainer, HoldsGrant, Grants

\* A gate other than that of the drain in progress is open.
LEMMA OtherGatesOpen ==
    ASSUME Act!GateFollowsDrainer, NEW w \in Workspace,
           Drainer.phase = "idle" \/ Drainer.ws # w
    PROVE  ~Act!Draining(w)
BY DEF Act!GateFollowsDrainer

\* A step that keeps the coordinator and the drainer.
LEMMA StuttersDrain ==
    ASSUME UNCHANGED <<inner, guards>>, Drainer' = Drainer
    PROVE  [Act!Next]_(Act!vars)
BY DEF Act!vars

\* The exits open the gate of a drain that was granted or refused.
LEMMA OpensDrain ==
    ASSUME Drainer = [phase |-> "refused", ws |-> op.source]
             \/ Drainer = [phase |-> "granted", ws |-> op.source],
           Drainer' = [phase |-> "idle"],
           Act!ClearDrain(op.source), UNCHANGED guards
    PROVE  [Act!Next]_(Act!vars)
BY DEF Act!Next, Act!OpenGate, Act!NoDrain

CoordInv == Act!TypeOK /\ Act!GateFollowsDrainer /\ Act!NoIdleEntries

\* An exit of a call: it opens the gate it holds, if it holds one.
LEMMA ExitDrain ==
    ASSUME CoordInv, op.source \in Workspace, op.pc # "check",
           op.pc = "refused" \/ Grants \/ Drainer = [phase |-> "idle"],
           Act!ClearDrain(op.source), Finish, UNCHANGED guards
    PROVE  [Act!Next]_(Act!vars)
<1>0. Drainer' = [phase |-> "idle"]
  BY NoOpDrains DEF Finish
<1>1. CASE op.pc = "refused" \/ Grants
  BY <1>0, <1>1, DrainerValue, OpensDrain
<1>2. CASE Drainer = [phase |-> "idle"]
  BY <1>0, <1>2, OtherGatesOpen, ClearOpenGate, StuttersDrain DEF CoordInv
<1> QED BY <1>1, <1>2

LEMMA RequestDrains ==
    ASSUME OpShape, OpShape', Request
    PROVE  [Act!Next]_(Act!vars)
<1>1. op.pc = "idle" /\ UNCHANGED <<inner, guards>>
  BY DEF Request, Activate, Deactivate, Pc, activityVars
<1>2. Drainer = [phase |-> "idle"]
  BY <1>1, DrainerValue DEF Grants, HoldsGrant
<1>3. /\ op'.pc \notin {"check", "refused"}
      /\ op'.pc \in {"resume", "probe", "close", "launch"}
      /\ op'.pc = "launch" => op'.source = NoWs
  <2>1. ASSUME NEW w \in Workspace, NEW force \in BOOLEAN, Activate(w, force)
        PROVE  /\ op'.pc \in {"resume", "probe", "launch"}
               /\ op'.pc = "launch" => op'.source = NoWs
    BY <2>1 DEF Activate, NoOp
  <2>2. ASSUME NEW w \in Workspace, Deactivate(w)
        PROVE  op'.pc \in {"probe", "close"}
    BY <2>2 DEF Deactivate, NoOp
  <2> QED BY <2>1, <2>2 DEF Request
<1>4. ~Grants'
  BY <1>3 DEF Grants, HoldsGrant
<1>5. Drainer' = [phase |-> "idle"]
  BY <1>3, <1>4, DrainerValueNext
<1> QED
  BY <1>1, <1>2, <1>5, StuttersDrain

\* A step to pc that keeps the coordinator, and holds the same grant as before.
LEMMA KeepsDrain ==
    ASSUME op'.source = op.source, Grants' <=> Grants,
           op.pc \notin {"check", "refused"}, op'.pc \notin {"check", "refused"},
           UNCHANGED <<inner, guards>>
    PROVE  [Act!Next]_(Act!vars)
BY DrainerValue, DrainerValueNext, StuttersDrain

\* Every step of a call is a step of the coordinator that Activity allows, or
\* does not touch it.
LEMMA OpStepDrains ==
    ASSUME CoordInv, OpShape, OpShape', OpStep
    PROVE  [Act!Next]_(Act!vars)
<1>0. op \in Ops /\ op' \in Ops
  BY DEF OpShape
<1> USE DEF Pc
<1>i. CASE op'.source = op.source /\ op'.call = op.call /\ UNCHANGED <<inner, guards>>
           /\ \/ op.pc \in {"granted", "stopping"} /\ op.call # "resume"
                   /\ \/ op'.pc \in {"stopping", "stopped", "launch"}
                      \/ op'.pc = "restore" /\ op.call = "switch"
              \/ op.pc \in {"starting", "save", "undo", "undoing", "restore", "restoring"}
                   /\ op'.pc \in {"save", "reopen", "undo", "undoing", "restore", "restoring",
                                  "restored", "lost"}
  <2>1. Grants' <=> Grants
    BY <1>0, <1>i DEF Grants, HoldsGrant, OpShape, Ops
  <2> QED BY <1>i, <2>1, KeepsDrain
<1>f. CASE Finish /\ UNCHANGED <<inner, guards>>
           /\ op.pc \in {"starting", "save", "undo", "undoing"}
           /\ (op.call = "switch" => op.source = NoWs)
  <2>1. ~Grants /\ ~Grants' /\ op'.pc = "idle"
    BY <1>f, NoOpDrains DEF Finish, Grants, HoldsGrant
  <2>2. Drainer' = Drainer
    BY <1>f, <2>1, DrainerValue, DrainerValueNext
  <2> QED BY <1>f, <2>2, StuttersDrain
<1>1. CASE Resume
  <2>1. op.call = "resume" /\ op.target \in Workspace
    BY <1>0, <1>1 DEF Resume, OpShape, Ops
  <2>2. op'.pc \in {"save", "starting"} /\ op'.call = "resume"
    BY <1>0, <1>1, <2>1, GoToFields DEF Resume
  <2>3. Drainer = [phase |-> "idle"] /\ Drainer' = [phase |-> "idle"]
    BY <1>1, <2>1, <2>2, DrainerValue, DrainerValueNext DEF Grants, HoldsGrant, Resume
  <2>4. UNCHANGED inner
    BY <1>1, <2>1, <2>3, OtherGatesOpen, ClearOpenGate DEF CoordInv, Resume
  <2> QED BY <1>1, <2>3, <2>4, StuttersDrain DEF Resume
<1>2. CASE Probe
  <2>1. op.source \in Workspace
    BY <1>0, <1>2 DEF Probe, OpShape, Ops
  <2>2. op'.pc \in {"close", "idle"}
    BY <1>0, <1>2, GoToFields, NoOpDrains DEF Probe, Finish
  <2>3. Drainer = [phase |-> "idle"] /\ Drainer' = [phase |-> "idle"]
    BY <1>2, <2>2, DrainerValue, DrainerValueNext DEF Grants, HoldsGrant, Probe
  <2>4. Unseen \in [Act!Observed -> ObservedCounts]
    BY ActivationAssumption DEF Unseen
  <2>5. CASE Act!SetProviderActivity(op.source, Unseen, TRUE)
    <3>1. Act!ProbeAnswers(op.source, Unseen)
      BY <1>2, <2>3, <2>5 DEF Probe, Act!ProbeAnswers
    <3> QED BY <2>1, <2>4, <3>1 DEF Act!Next
  <2>6. CASE Act!SetProviderActivity(op.source, Unseen, FALSE)
    <3>1. Act!ProbeFails(op.source)
      BY <1>2, <2>3, <2>6 DEF Probe, Act!ProbeFails, Act!NoDrain, Unseen
    <3> QED BY <2>1, <3>1 DEF Act!Next
  <2> QED BY <1>2, <2>5, <2>6 DEF Probe
<1>3. CASE CloseGate
  <2>1. op.source \in Workspace
    BY <1>0, <1>3 DEF CloseGate, OpShape, Ops
  <2>2. op'.pc = "check" /\ op'.source = op.source
    BY <1>0, <1>3, GoToFields DEF CloseGate
  <2>3. Drainer = [phase |-> "idle"] /\ Drainer' = [phase |-> "closing", ws |-> op.source]
    BY <1>3, <2>2, DrainerValue, DrainerValueNext DEF Grants, HoldsGrant, CloseGate
  <2>4. Act!CloseGate(op.source)
    BY <1>3, <2>3 DEF CloseGate, Act!CloseGate, Act!NoDrain
  <2> QED BY <2>1, <2>4 DEF Act!Next
<1>4. CASE CheckGate
  <2>1. op.source # NoWs /\ op.call \in {"switch", "restart", "stop"}
    BY <1>0, <1>4, RuntimeAssumption DEF CheckGate, OpShape, Ops
  <2>2. /\ op'.pc = IF Act!CanSwitch(Act!Of(op.source)) THEN "granted" ELSE "refused"
        /\ op'.source = op.source /\ op'.call = op.call
    BY <1>0, <1>4, GoToFields DEF CheckGate
  <2>3. Drainer = [phase |-> "closing", ws |-> op.source]
    BY <1>4, DrainerValue DEF CheckGate
  <2>4. Drainer' = [phase |-> op'.pc, ws |-> op.source]
    BY <2>1, <2>2, DrainerValueNext DEF Grants, HoldsGrant
  <2>5. Act!CheckGate
    BY <1>4, <2>2, <2>3, <2>4 DEF CheckGate, Act!CheckGate, activityVars
  <2> QED BY <2>5 DEF Act!Next
<1>5. CASE (GiveUp /\ (Refused \/ Restored \/ Pc("stopping"))) \/ Stopped \/ Reopen \/ Lost
  <2>1. op.source \in Workspace
    BY <1>0, <1>5 DEF Refused, Restored, Stopped, Reopen, Lost, OpShape, Ops
  <2>2. op.pc = "refused" \/ Grants \/ Drainer = [phase |-> "idle"]
    BY <1>5, DrainerValue DEF Refused, Restored, Stopped, Reopen, Lost
  <2>3. Act!ClearDrain(op.source) /\ Finish /\ UNCHANGED guards /\ op.pc # "check"
    BY <1>5 DEF Refused, Restored, Stopped, Reopen, Lost, GiveUp
  <2> QED BY <2>1, <2>2, <2>3, ExitDrain
<1>6. CASE Refused \/ Restored
  BY <1>5, <1>6 DEF Refused, Restored
<1>7. CASE Granted
  <2>1. op'.pc \in {"stopping", "stopped", "launch"} /\ op'.source = op.source /\ op'.call = op.call
    BY <1>0, <1>7, GoToFields DEF Granted, Ops
  <2> QED BY <1>i, <1>7, <2>1 DEF Granted, OpShape, activityVars
<1>8. CASE SourceStopped
  <2>1. op'.pc \in {"stopped", "launch"} /\ op'.source = op.source /\ op'.call = op.call
    BY <1>0, <1>8, GoToFields DEF SourceStopped
  <2> QED BY <1>i, <1>8, <2>1 DEF SourceStopped, OpShape, activityVars
<1>9. CASE SourceNotStopped
  <2>1. CASE op.call = "switch" /\ GoTo("restore") /\ UNCHANGED activityVars
    <3>1. op'.pc = "restore" /\ op'.source = op.source /\ op'.call = op.call
      BY <1>0, <2>1, GoToFields
    <3> QED BY <1>i, <1>9, <2>1, <3>1 DEF SourceNotStopped, activityVars
  <2> QED BY <1>5, <1>9, <2>1 DEF SourceNotStopped
<1>10. CASE Launch
  <2>1. /\ op'.pc = "starting" /\ op'.source = op.source /\ op'.call = op.call
        /\ op.call \in {"switch", "restart"}
        /\ op.target \in Workspace
        /\ Act!ClearDrain(op.target) /\ UNCHANGED guards
    <3>1. op'.pc = "starting" /\ op'.source = op.source /\ op'.call = op.call
      BY <1>0, <1>10, GoToFields DEF Launch
    <3> QED BY <1>0, <1>10, <3>1 DEF Launch, OpShape, Ops
  <2>2. CASE op.call = "restart"
    <3>1. op.source = op.target /\ op.source # NoWs
      BY <2>1, <2>2, RuntimeAssumption DEF OpShape
    <3>2. Drainer = [phase |-> "granted", ws |-> op.source] /\ Drainer' = [phase |-> "idle"]
      BY <1>10, <2>1, <2>2, <3>1, DrainerValue, DrainerValueNext DEF Grants, HoldsGrant, Launch
    <3> QED BY <2>1, <3>1, <3>2, OpensDrain
  <2>3. CASE op.call = "switch"
    <3>1. op.source # op.target
      BY <2>3 DEF OpShape
    <3>2. Drainer' = Drainer
      BY <1>10, <2>1, <2>3, DrainerValue, DrainerValueNext DEF Grants, HoldsGrant, Launch
    <3>3. Drainer.phase = "idle" \/ Drainer.ws # op.target
      BY <1>10, <3>1, DrainerValue DEF Launch
    <3>4. UNCHANGED inner
      BY <2>1, <3>3, OtherGatesOpen, ClearOpenGate DEF CoordInv
    <3> QED BY <2>1, <3>2, <3>4, StuttersDrain
  <2> QED BY <2>1, <2>2, <2>3
<1>11. CASE Started
  BY <1>0, <1>i, <1>11, GoToFields DEF Started, activityVars
<1>12. CASE NotStarted
  <2>1. CASE op.call = "restart" /\ GoTo("restore")
    BY <1>0, <1>i, <1>12, <2>1, GoToFields DEF NotStarted, activityVars
  <2>2. ASSUME NEW m \in BOOLEAN, op' = [op EXCEPT !.pc = "undo", !.mayRun = m]
        PROVE  [Act!Next]_(Act!vars)
    <3>1. op'.pc = "undo" /\ op'.source = op.source /\ op'.call = op.call
      BY <1>0, <2>2 DEF Ops
    <3> QED BY <1>i, <1>12, <3>1 DEF NotStarted, activityVars
  <2>3. CASE op.call # "switch" /\ Finish
    BY <1>f, <1>12, <2>3 DEF NotStarted, activityVars
  <2> QED BY <1>12, <2>1, <2>2, <2>3 DEF NotStarted
<1>13. CASE Save
  BY <1>0, <1>i, <1>f, <1>13, GoToFields DEF Save, activityVars
<1>14. CASE NotSaved
  <2>1. CASE op.call = "restart" /\ GoTo("restore")
    BY <1>0, <1>i, <1>14, <2>1, GoToFields DEF NotSaved, activityVars
  <2>2. CASE op' = [op EXCEPT !.pc = "undo", !.mayRun = TRUE]
    <3>1. op'.pc = "undo" /\ op'.source = op.source /\ op'.call = op.call
      BY <1>0, <2>2 DEF Ops
    <3> QED BY <1>i, <1>14, <3>1 DEF NotSaved, activityVars
  <2>3. CASE op.call = "resume" /\ Finish
    BY <1>f, <1>14, <2>3 DEF NotSaved, activityVars
  <2> QED BY <1>14, <2>1, <2>2, <2>3 DEF NotSaved
<1>15. CASE Undo \/ Undone
  <2>1. op.pc \in {"undo", "undoing"} /\ UNCHANGED <<inner, guards>>
    BY <1>15 DEF Undo, Undone, activityVars
  <2>2. CASE GoTo("restore") \/ GoTo("undoing")
    BY <1>0, <1>i, <2>1, <2>2, GoToFields
  <2>3. CASE op.source = NoWs /\ Finish
    BY <1>f, <2>1, <2>3
  <2> QED BY <1>15, <2>2, <2>3 DEF Undo, Undone, AfterUndo
<1>16. CASE Restore \/ SourceRestarted
  <2>1. GoTo("restoring") \/ GoTo("restored") \/ GoTo("lost")
    BY <1>16 DEF Restore, SourceRestarted
  <2> QED BY <1>0, <1>i, <1>16, <2>1, GoToFields DEF Restore, SourceRestarted, activityVars
<1> QED
  BY <1>1, <1>2, <1>3, <1>4, <1>5, <1>6, <1>7, <1>8, <1>9, <1>10, <1>11, <1>12, <1>13, <1>14,
     <1>15, <1>16 DEF OpStep

-----------------------------------------------------------------------------
(* The procedures of a call                                                *)

\* Starting, stopping and ending a procedure keep the table well formed.
LEMMA StartKeepsJobs ==
    ASSUME IInv, NEW c \in Caller, NEW w \in Workspace, StartJob(c, w) \/ StopJob(c, w)
    PROVE  job' \in [Caller -> Jobs] /\ JobsNameWorkspace'
<1>1. PICK pc \in {"check", "begin"} : job' = [job EXCEPT ![c] = [NoJob EXCEPT !.pc = pc, !.ws = w]]
  BY DEF StartJob, StopJob
<1> DEFINE j == [NoJob EXCEPT !.pc = pc, !.ws = w]
<1>2. j \in Jobs /\ j.ws \in Workspace
  BY DEF NoJob, Jobs, Step
<1> HIDE DEF j
<1>3. job' = [job EXCEPT ![c] = j]
  BY <1>1 DEF j
<1> QED BY <1>2, <1>3, PutKeepsJobs

LEMMA EndKeepsJobs ==
    ASSUME IInv, NEW c \in Caller, EndJob(c)
    PROVE  job' \in [Caller -> Jobs] /\ JobsNameWorkspace'
<1>1. NoJob \in Jobs /\ NoJob.pc = "idle"
  BY DEF NoJob, Jobs
<1> QED BY <1>1, PutKeepsJobs DEF EndJob

LEMMA SameJobs == ASSUME IInv, UNCHANGED job
                  PROVE  job' \in [Caller -> Jobs] /\ JobsNameWorkspace'
BY DEF IInv, RuntimeTypeOK, JobsNameWorkspace, Ws

\* A step that leaves the rest of the service alone keeps its invariant.
LEMMA OnlyJobs ==
    ASSUME IInv, job' \in [Caller -> Jobs], JobsNameWorkspace',
           UNCHANGED <<runtime, port, store, deletion>>
    PROVE  IInv'
BY DEF IInv, RuntimeTypeOK, DeletionIsAllowed

ActiveType == active \in [ws : Workspace \cup {NoWs}, phase : ActivePhase]
BootShape == /\ boot \in [pc : {"idle", "starting", "done"}, ws : Workspace \cup {NoWs}]
             /\ boot.pc = "starting" => boot.ws \in Workspace

LEMMA OwnCaller == "activation" \in Caller /\ "boot" \in Caller
BY ActivationAssumption

LEMMA OpStepJobs ==
    ASSUME IInv, OpShape, OpStep
    PROVE  IInv' /\ (ActiveType => ActiveType')
<1>0. /\ op \in Ops /\ (op.pc # "idle" => op.target \in Workspace)
      /\ op.pc \in {"granted", "restore"} => op.source \in Workspace
  BY DEF OpShape, Ops
<1> USE DEF Pc
<1>1. ActiveType => ActiveType'
  <2>1. \/ UNCHANGED active
        \/ \E w \in {op.source, op.target, NoWs} : \E phase \in ActivePhase :
             active' = [ws |-> w, phase |-> phase]
    <3> USE DEF SetActive, Transition, ActivePhase
    <3>1. CASE Resume \/ Probe \/ CloseGate \/ CheckGate \/ Granted \/ Launch \/ Save
      BY <3>1 DEF Resume, Probe, CloseGate, CheckGate, Granted, Launch, Save
    <3>2. CASE GiveUp \/ Stopped \/ Lost \/ NotStarted \/ NotSaved \/ AfterUndo
      BY <3>2 DEF GiveUp, Stopped, Lost, NotStarted, NotSaved, AfterUndo
    <3>3. CASE UNCHANGED active
      BY <3>3
    <3> QED
      BY <3>1, <3>2, <3>3 DEF OpStep, Refused, SourceStopped, SourceNotStopped, Started, Reopen,
           Undo, Undone, Restore, SourceRestarted, Restored, controlVars
  <2> QED BY <1>0, <2>1 DEF ActiveType, Ops
<1>2. UNCHANGED <<runtime, port, store, deletion>>
  BY DEF OpStep, Resume, Probe, CloseGate, CheckGate, Refused, Granted, SourceStopped,
         SourceNotStopped, Stopped, Launch, Started, NotStarted, Save, NotSaved, Reopen, Undo,
         Undone, Restore, SourceRestarted, Restored, Lost, runtimeVars
<1>3. \/ UNCHANGED job \/ EndJob("activation")
      \/ op.pc # "idle" /\ (StartJob("activation", op.target) \/ StopJob("activation", op.target))
      \/ op.pc \in {"granted", "restore"}
           /\ (StartJob("activation", op.source) \/ StopJob("activation", op.source))
  BY DEF OpStep, Resume, Probe, CloseGate, CheckGate, Refused, Granted, SourceStopped,
         SourceNotStopped, Stopped, Launch, Started, NotStarted, Save, NotSaved, Reopen, Undo,
         Undone, Restore, SourceRestarted, Restored, Lost, runtimeVars, JobDone
<1>4. job' \in [Caller -> Jobs] /\ JobsNameWorkspace'
  BY <1>0, <1>3, OwnCaller, StartKeepsJobs, EndKeepsJobs, SameJobs
<1> QED BY <1>1, <1>2, <1>4, OnlyJobs

LEMMA BootJobs ==
    ASSUME IInv, ActiveType, BootShape, BootStart \/ BootEnd
    PROVE  IInv' /\ ActiveType' /\ BootShape'
<1>1. CASE BootStart
  <2>1. PICK w \in Workspace : \/ boot' = [pc |-> "done", ws |-> w] /\ UNCHANGED job
                               \/ boot' = [pc |-> "starting", ws |-> w] /\ StartJob("boot", w)
    BY <1>1, ActivationAssumption DEF BootStart
  <2>2. BootShape'
    BY <2>1 DEF BootShape
  <2>3. job' \in [Caller -> Jobs] /\ JobsNameWorkspace'
    BY <2>1, OwnCaller, StartKeepsJobs, SameJobs
  <2> QED BY <1>1, <2>2, <2>3, OnlyJobs DEF BootStart, ActiveType
<1>2. CASE BootEnd
  <2>1. BootShape' /\ ActiveType'
    BY <1>2 DEF BootEnd, BootShape, ActiveType, SetActive, Transition, ActivePhase
  <2>2. job' \in [Caller -> Jobs] /\ JobsNameWorkspace'
    BY <1>2, OwnCaller, EndKeepsJobs DEF BootEnd
  <2>3. runtime' \in [Workspace -> Phase]
    BY <1>2 DEF BootEnd, MarkError, IInv, RuntimeTypeOK, Phase
  <2> QED BY <1>2, <2>1, <2>2, <2>3 DEF BootEnd, IInv, RuntimeTypeOK, DeletionIsAllowed
<1> QED BY <1>1, <1>2

-----------------------------------------------------------------------------
(* Type correctness, and the coordinator as Activity prescribes            *)

\* What holds between the steps: the service, the call in progress, and the
\* coordinator with the drain of that call.
Coordination == Co!GateInv /\ Co!NoIdleEntries
TypeInv == IInv /\ OpShape /\ ActiveType /\ BootShape /\ Coordination

LEMMA CoordinationParts == Coordination => CoordInv
BY SameCoordinator DEF Coordination, CoordInv, Co!GateInv

LEMMA CoordinationStep == ASSUME Coordination, [Act!Next]_(Act!vars)
                          PROVE  Coordination'
<1>1. [Co!Next]_(Co!vars)
  BY SameNext DEF Act!vars, Co!vars
<1> QED BY <1>1, CoordinatorAssumption, Co!GateInvStep, Co!BusyStep DEF Coordination, Co!GateInv

\* Every step keeps the shape of the call.
LEMMA ShapeStep == ASSUME TypeInv, Next PROVE OpShape'
<1>1. CASE Request
  BY <1>1, RequestShape DEF TypeInv, IInv, RuntimeTypeOK, ActiveType
<1>2. CASE OpStep
  BY <1>2, OpStepShape DEF TypeInv
<1>3. CASE UNCHANGED op
  BY <1>3 DEF TypeInv, OpShape
<1> QED BY <1>1, <1>2, <1>3 DEF Next, BootStart, BootEnd, controlVars

\* Every step is a step of the coordinator that Activity allows, or leaves the
\* coordinator and its drain alone.
LEMMA NextDrains == ASSUME TypeInv, Next PROVE [Act!Next]_(Act!vars)
<1>1. OpShape' /\ CoordInv
  BY ShapeStep, CoordinationParts DEF TypeInv
<1>2. CASE Request
  BY <1>1, <1>2, RequestDrains DEF TypeInv
<1>3. CASE OpStep
  BY <1>1, <1>3, OpStepDrains DEF TypeInv
<1>op. ASSUME UNCHANGED op PROVE Drainer' = Drainer
  BY <1>op DEF Drainer, HoldsGrant
<1>4. CASE UNCHANGED <<activityVars, op>>
  BY <1>4, <1>op, StuttersDrain DEF activityVars
<1>5. CASE Work /\ UNCHANGED op
  <2>1. ASSUME NEW g \in Guard, NEW w \in Workspace, NEW k \in {"mcp", "operation"},
               Act!AddGuard(g, w, k)
        PROVE  Act!Next
    <3>1. Act!Acquire(g, w, k) /\ k \in Act!Kind
      BY <1>5, <1>op, <2>1 DEF Act!Acquire, Act!Kind
    <3> QED BY <3>1 DEF Act!Next
  <2>2. ASSUME NEW g \in Guard, Act!DropGuard(g) PROVE Act!Next
    <3>1. Act!Release(g)
      BY <1>5, <1>op, <2>2 DEF Act!Release
    <3> QED BY <3>1 DEF Act!Next
  <2> QED BY <1>5, <2>1, <2>2 DEF Work
<1>6. ASSUME NEW w \in Workspace, StatusProbe(w), UNCHANGED op PROVE Act!Next
  <2>1. Unseen \in [Act!Observed -> ObservedCounts]
    BY ActivationAssumption DEF Unseen
  <2>2. Act!ProbeAnswers(w, Unseen)
    BY <1>6, <1>op DEF StatusProbe, Act!ProbeAnswers
  <2> QED BY <2>1, <2>2 DEF Act!Next
<1> QED
  BY <1>2, <1>3, <1>4, <1>5, <1>6 DEF Next, BootStart, BootEnd, controlVars

LEMMA TypeInvInit == Init => TypeInv
<1> SUFFICES ASSUME Init PROVE TypeInv
  OBVIOUS
<1>1. IInv
  BY InitInvariant DEF Init
<1>2. OpShape
  BY InitShape DEF Init
<1>3. ActiveType /\ BootShape
  BY DEF Init, ActiveType, BootShape, ActivePhase
<1>4. Co!Init
  <2>1. Drainer = [phase |-> "idle"]
    BY DrainerValue DEF Init, NoOp, Grants, HoldsGrant
  <2> QED
    BY <2>1 DEF Init, Co!Init, Co!NoDrain, Act!Default, Co!Default, Act!Kind, Co!Kind,
                Act!Observed, Co!Observed
<1> QED
  BY <1>1, <1>2, <1>3, <1>4, CoordinatorAssumption, Co!GateInit, Co!BusyInit
     DEF TypeInv, Coordination

LEMMA TypeInvStep == TypeInv /\ [Next]_vars => TypeInv'
<1> SUFFICES ASSUME TypeInv, [Next]_vars PROVE TypeInv'
  OBVIOUS
<1>1. CASE UNCHANGED vars
  <2>1. UNCHANGED <<inner, guards, op>>
    BY <1>1 DEF vars, activityVars, controlVars
  <2>2. Drainer' = Drainer
    BY <2>1 DEF Drainer, HoldsGrant
  <2>3. Coordination'
    BY <2>1, <2>2, StuttersDrain, CoordinationStep DEF TypeInv
  <2> QED
    BY <1>1, <2>3 DEF vars, controlVars, runtimeVars, TypeInv, IInv, RuntimeTypeOK,
                      JobsNameWorkspace, DeletionIsAllowed, Ws, OpShape, ActiveType, BootShape
<1>2. CASE Next
  <2>1. OpShape' /\ Coordination'
    BY <1>2, ShapeStep, NextDrains, CoordinationStep DEF TypeInv
  <2>2. IInv' /\ ActiveType' /\ BootShape'
    <3>1. CASE Request
      <4>1. UNCHANGED <<runtime, port, store, job, deletion, active, boot>>
        BY <3>1 DEF Request, Activate, Deactivate, runtimeVars
      <4> QED BY <4>1, SameJobs, OnlyJobs DEF TypeInv, ActiveType, BootShape
    <3>2. CASE OpStep
      <4>1. UNCHANGED boot
        BY <3>2 DEF OpStep, Resume, Probe, CloseGate, CheckGate, Refused, Granted, SourceStopped,
             SourceNotStopped, Stopped, Launch, Started, NotStarted, Save, NotSaved, Reopen, Undo,
             Undone, Restore, SourceRestarted, Restored, Lost, GiveUp
      <4> QED BY <3>2, <4>1, OpStepJobs DEF TypeInv, BootShape
    <3>3. CASE BootStart \/ BootEnd
      BY <3>3, BootJobs DEF TypeInv
    <3>4. CASE UNCHANGED <<active, boot>> /\ ((\E c \in Caller : JobStep(c)) \/ RuntimeEnv)
      BY <3>4, JobStepInvariant, EnvStepInvariant DEF TypeInv, ActiveType, BootShape
    <3>5. CASE UNCHANGED <<controlVars, runtimeVars>>
      BY <3>5, SameJobs, OnlyJobs DEF TypeInv, ActiveType, BootShape, controlVars, runtimeVars
    <3> QED BY <1>2, <3>1, <3>2, <3>3, <3>4, <3>5 DEF Next, controlVars
  <2> QED BY <2>1, <2>2 DEF TypeInv
<1> QED BY <1>1, <1>2

LEMMA Types == Spec => []TypeInv
BY TypeInvInit, TypeInvStep, PTL DEF Spec

\* The types of the service, the coordinator and the call, in every state.
THEOREM ActivationTypeCorrect == Spec => []TypeOK
<1>1. TypeInv => TypeOK
  BY CoordinationParts DEF TypeInv, TypeOK, IInv, CoordInv, OpShape, ActiveType, BootShape
<1> QED BY <1>1, Types, PTL

\* The procedures use the coordinator as Activity prescribes: one drain at a
\* time, and on every exit the gate that was closed is opened.
THEOREM CallsDrain == Spec => ImplementsActivity
<1>1. Init => Act!Init
  <2>1. ASSUME Init PROVE Drainer = [phase |-> "idle"]
    BY <2>1, DrainerValue DEF Init, NoOp, Grants, HoldsGrant
  <2> QED BY <2>1 DEF Init, Act!Init, Act!NoDrain
<1>2. TypeInv /\ [Next]_vars => [Act!Next]_(Act!vars)
  <2>1. ASSUME UNCHANGED vars PROVE [Act!Next]_(Act!vars)
    <3>1. UNCHANGED <<inner, guards, op>>
      BY <2>1 DEF vars, activityVars, controlVars
    <3>2. Drainer' = Drainer
      BY <3>1 DEF Drainer, HoldsGrant
    <3> QED BY <3>1, <3>2, StuttersDrain
  <2> QED BY <2>1, NextDrains
<1> QED BY <1>1, <1>2, Types, PTL DEF Spec, ImplementsActivity, Act!Spec

\* While a call stops the workspace it leaves, launches another in its place or
\* rolls back, no unit of work of that workspace is alive: no tool call, session,
\* turn or operation is cut off by a switch, a restart or a stop.
LeavesQuietly ==
    Grants => \A g \in Guard, k \in Act!Kind : guards[g] # <<op.source, k>>

THEOREM CallsLeaveQuietly == Spec => []LeavesQuietly
<1>1. TypeInv => LeavesQuietly
  <2> SUFFICES ASSUME TypeInv, Grants, NEW g \in Guard, NEW k \in Act!Kind
               PROVE  guards[g] # <<op.source, k>>
    BY DEF LeavesQuietly
  <2>1. Drainer = [phase |-> "granted", ws |-> op.source]
    BY DrainerValue DEF Grants, HoldsGrant
  <2>2. Co!GrantIsQuiet
    BY DEF TypeInv, Coordination, Co!GateInv
  <2> QED BY <2>1, <2>2 DEF Co!GrantIsQuiet, Co!Holding, Act!Kind, Co!Kind
<1> QED BY <1>1, Types, PTL

-----------------------------------------------------------------------------
(* The port                                                                *)

\* With listeners that end only when told to, a running entry owns the port,
\* whatever the calls, the launch and the deletions do to the service.
THEOREM ActivationRunningIsOwner ==
    ASSUME ListenersAreKept PROVE Spec => []RunningOwnsPort
<1>1. Init => RunningOwnsPort
  BY DEF Init, RuntimeInit, RunningOwnsPort, IsRunning
<1>2. TypeInv /\ RunningOwnsPort /\ [Next]_vars => RunningOwnsPort'
  <2> SUFFICES ASSUME TypeInv, RunningOwnsPort, [Next]_vars PROVE RunningOwnsPort'
    OBVIOUS
  <2>0. IInv
    BY DEF TypeInv
  <2>1. CASE UNCHANGED <<runtime, port>>
    BY <2>1 DEF RunningOwnsPort, IsRunning
  <2>2. CASE BootEnd
    BY <2>0, <2>2 DEF BootEnd, MarkError, RunningOwnsPort, IsRunning, IInv, RuntimeTypeOK
  <2>3. CASE (\E c \in Caller : JobStep(c)) \/ RuntimeEnv
    BY <2>0, <2>3, JobKeepsOwner, EnvKeepsOwner
  <2>4. CASE OpStep
    BY <2>1, <2>4, OpStepJobs DEF OpStep, Resume, Probe, CloseGate, CheckGate, Refused, Granted,
       SourceStopped, SourceNotStopped, Stopped, Launch, Started, NotStarted, Save, NotSaved,
       Reopen, Undo, Undone, Restore, SourceRestarted, Restored, Lost, runtimeVars
  <2> QED
    BY <2>1, <2>2, <2>3, <2>4 DEF Next, Request, Activate, Deactivate, BootStart, vars, runtimeVars
<1> QED BY <1>1, <1>2, Types, PTL DEF Spec

-----------------------------------------------------------------------------
(* What runs is the active workspace                                       *)

\* The workspace whose service may run, by the step the call is at.
Owner ==
    IF op.pc = "idle" \/ op.call = "stop" THEN active.ws
    ELSE IF op.call = "switch" /\ op.pc \in {"starting", "save", "reopen", "undo", "undoing"}
         THEN op.target
    ELSE op.source

OnlyOwnerRuns == \A w \in Workspace : IsRunning(w) => w = Owner

\* When its stop returned, or it was found not to run, the source does not run.
SourceIsDown == op.pc \in {"launch", "stopped"} => \A w \in Workspace : IsRunning(w) => w # op.source

\* What the state of the active workspace says of the call in progress.
CallsKnowActive ==
    /\ op.call = "stop" /\ op.auth => active.ws = op.source
    /\ op.call \in {"switch", "restart"} => op.auth
    /\ op.pc = "reopen" => active.ws = op.target

StopSteps == {"begin", "await", "finish", "detach", "stopped", "failed"}

\* The procedure of the call: of which workspace, and that a stop that has
\* removed the entry leaves nothing running, whatever it then reports.
CallsProcedure ==
    LET j == job["activation"]
    IN  /\ op.pc \in {"starting", "undoing"} => j.ws = op.target
        /\ op.pc \in {"stopping", "restoring"} => j.ws = op.source
        /\ op.pc \notin {"starting", "undoing", "stopping", "restoring"} => j.pc = "idle"
        /\ op.pc \in {"stopping", "undoing"} =>
             /\ j.pc \in StopSteps /\ ~j.inStart
             /\ j.pc \in {"detach", "stopped", "failed"} => ~IsRunning(j.ws)

\* Nothing is deleted, and nothing is started when the application launches.
NobodyElse == /\ store = Workspace /\ deletion.pc = "idle"
              /\ boot.pc = "done" /\ job["boot"].pc = "idle"

ServedInv == OnlyOwnerRuns /\ SourceIsDown /\ CallsKnowActive /\ CallsProcedure /\ NobodyElse

\* A procedure makes nothing run but its own workspace, when it spawns.
LEMMA JobRuns ==
    ASSUME IInv, NEW c \in Caller, JobStep(c), NEW w \in Workspace, IsRunning(w)'
    PROVE  IsRunning(w) \/ (job[c].pc = "spawn" /\ w = Ws(c))
<1>0. runtime \in [Workspace -> Phase]
  BY DEF IInv, RuntimeTypeOK
<1> QED
  BY <1>0 DEF JobStep, CheckPort, Spawn, Routes, Verify, BeginStop, AwaitListener, FinishStop,
              Detach, MarkFailedStart, MarkError, IsRunning, At

\* A step of one procedure leaves the others where they are, and its own
\* workspace what it was.
LEMMA JobStays ==
    ASSUME IInv, NEW c \in Caller, JobStep(c)
    PROVE  /\ job[c].pc # "idle"
           /\ job'[c].ws = job[c].ws
           /\ \A d \in Caller \ {c} : job'[d].pc = job[d].pc /\ job'[d].ws = job[d].ws
           /\ UNCHANGED <<store, deletion>>
<1>0. job \in [Caller -> Jobs]
  BY DEF IInv, RuntimeTypeOK
<1>1. ASSUME NEW pc, job' = [job EXCEPT ![c].pc = pc] \/ job' = Woken([job EXCEPT ![c].pc = pc])
      PROVE  /\ job'[c].ws = job[c].ws
             /\ \A d \in Caller \ {c} : job'[d].pc = job[d].pc /\ job'[d].ws = job[d].ws
  BY <1>0, <1>1 DEF Woken, Jobs
<1> USE DEF At
<1>2. CASE CheckPort(c) \/ AwaitListener(c)
  BY <1>1, <1>2 DEF CheckPort, AwaitListener, Reclaim, Goto
<1>3. CASE Spawn(c)
  BY <1>1, <1>3 DEF Spawn, Goto
<1>4. CASE Verify(c) \/ FinishStop(c) \/ Detach(c) \/ MarkFailedStart(c)
  BY <1>1, <1>4 DEF Verify, FinishStop, Detach, MarkFailedStart, Goto
<1>5. CASE Routes(c)
  BY <1>0, <1>1, <1>5 DEF Routes, Goto, Jobs
<1>6. CASE BeginStop(c)
  BY <1>0, <1>1, <1>6 DEF BeginStop, Goto, Jobs
<1> QED BY <1>2, <1>3, <1>4, <1>5, <1>6 DEF JobStep

\* A stop that is not part of a start, while no workspace is deleted.
Stopping(j) == /\ j.pc \in StopSteps /\ ~j.inStart
               /\ j.pc \in {"detach", "stopped", "failed"} => ~IsRunning(j.ws)

LEMMA StopGoesDown ==
    ASSUME IInv, store = Workspace, NEW c \in Caller, Stopping(job[c]), JobStep(c)
    PROVE  Stopping(job[c])'
<1>0. job \in [Caller -> Jobs] /\ runtime \in [Workspace -> Phase] /\ Ws(c) \in Workspace
      /\ ~job[c].inStart
  BY DEF IInv, RuntimeTypeOK, JobsNameWorkspace, Stopping, StopSteps
<1> USE DEF At
<1>1. ASSUME NEW pc, job' = [job EXCEPT ![c].pc = pc] \/ job' = Woken([job EXCEPT ![c].pc = pc])
      PROVE  job'[c].pc = pc /\ job'[c].ws = job[c].ws /\ ~job'[c].inStart
  BY <1>0, <1>1 DEF Woken, Jobs
<1>2. CASE BeginStop(c)
  <2>1. job'[c].pc = "await" /\ ~job'[c].inStart
    BY <1>0, <1>2 DEF BeginStop, Jobs
  <2> QED BY <2>1 DEF Stopping, StopSteps
<1>3. CASE AwaitListener(c)
  <2>1. job'[c].pc = "finish" /\ ~job'[c].inStart
    BY <1>1, <1>3 DEF AwaitListener, Goto, Reclaim
  <2> QED BY <2>1 DEF Stopping, StopSteps
<1>4. CASE FinishStop(c)
  <2>1. job'[c].pc = "detach" /\ ~job'[c].inStart /\ job'[c].ws = Ws(c)
    BY <1>1, <1>4 DEF FinishStop, Goto, Ws
  <2>2. runtime'[Ws(c)] = "none"
    BY <1>0, <1>4 DEF FinishStop
  <2> QED BY <2>1, <2>2 DEF Stopping, StopSteps, IsRunning
<1>5. CASE Detach(c)
  <2>1. job'[c].pc \in {"stopped", "failed"} /\ ~job'[c].inStart /\ job'[c].ws = job[c].ws
    BY <1>0, <1>1, <1>5 DEF Detach, Goto
  <2> QED BY <2>1, <1>5 DEF Stopping, StopSteps, IsRunning, Detach
<1>6. CASE CheckPort(c) \/ Spawn(c) \/ Routes(c) \/ Verify(c) \/ MarkFailedStart(c)
  BY <1>6 DEF Stopping, StopSteps, CheckPort, Spawn, Routes, Verify, MarkFailedStart
<1> QED BY <1>2, <1>3, <1>4, <1>5, <1>6 DEF JobStep

\* What runs beside the procedures makes nothing run and moves no procedure.
LEMMA EnvRuns ==
    ASSUME IInv, deletion.pc = "idle", Deletable = {}, RuntimeEnv
    PROVE  /\ \A w \in Workspace : IsRunning(w)' => IsRunning(w)
           /\ \A d \in Caller : /\ job'[d].pc = job[d].pc /\ job'[d].ws = job[d].ws
                                /\ job'[d].inStart = job[d].inStart
           /\ UNCHANGED <<store, deletion>>
<1>0. job \in [Caller -> Jobs] /\ runtime \in [Workspace -> Phase]
  BY DEF IInv, RuntimeTypeOK
<1>1. UNCHANGED job \/ ListenerEnds
  BY DEF RuntimeEnv, CloseListener, ListenerDies, Refresh, BeginDelete, ForeignBinds,
         ForeignLeaves, DropWorkspace, RemoveProfile, AbortDelete
<1>2. \A d \in Caller : /\ job'[d].pc = job[d].pc /\ job'[d].ws = job[d].ws
                        /\ job'[d].inStart = job[d].inStart
  BY <1>0, <1>1 DEF ListenerEnds, Woken, Jobs
<1>3. /\ \A w \in Workspace : IsRunning(w)' => IsRunning(w)
      /\ UNCHANGED <<store, deletion>>
  BY <1>0 DEF RuntimeEnv, CloseListener, ListenerDies, Refresh, BeginDelete, ForeignBinds,
       ForeignLeaves, DropWorkspace, RemoveProfile, AbortDelete, MarkError, IsRunning
<1> QED BY <1>2, <1>3

\* The steps beside the calls keep what runs.
LEMMA ServedBeside ==
    ASSUME TypeInv, ServedInv, Deletable = {}, UNCHANGED controlVars,
           (\E c \in Caller : JobStep(c)) \/ RuntimeEnv
    PROVE  ServedInv'
<1>0. IInv /\ OpShape /\ UNCHANGED <<op, active, boot>>
  BY DEF TypeInv, controlVars
<1> USE DEF ServedInv, NobodyElse
<1>1. CASE RuntimeEnv
  <2>1. /\ \A w \in Workspace : IsRunning(w)' => IsRunning(w)
        /\ \A d \in Caller : /\ job'[d].pc = job[d].pc /\ job'[d].ws = job[d].ws
                             /\ job'[d].inStart = job[d].inStart
        /\ UNCHANGED <<store, deletion>>
    BY <1>0, <1>1, EnvRuns
  <2>2. job["activation"].ws \in Workspace \/ job["activation"].pc = "idle"
    BY <1>0, OwnCaller DEF IInv, JobsNameWorkspace, Ws
  <2>3. OnlyOwnerRuns' /\ SourceIsDown' /\ CallsKnowActive' /\ NobodyElse'
    BY <1>0, <2>1, OwnCaller DEF OnlyOwnerRuns, Owner, SourceIsDown, CallsKnowActive
  <2>4. CallsProcedure'
    BY <1>0, <2>1, <2>2, OwnCaller DEF CallsProcedure, IsRunning, StopSteps
  <2> QED BY <2>3, <2>4
<1>2. ASSUME NEW c \in Caller, JobStep(c) PROVE ServedInv'
  <2>1. c = "activation"
    BY <1>0, <1>2, JobStays, ActivationAssumption
  <2>2. /\ job["activation"].pc # "idle"
        /\ job'["activation"].ws = job["activation"].ws
        /\ job'["boot"].pc = job["boot"].pc
        /\ UNCHANGED <<store, deletion>>
    BY <1>0, <1>2, <2>1, JobStays, OwnCaller
  <2>3. ASSUME NEW w \in Workspace, IsRunning(w)'
        PROVE  w = Owner /\ (op.pc \in {"launch", "stopped"} => w # op.source)
    <3>1. IsRunning(w) \/ (job["activation"].pc = "spawn" /\ w = job["activation"].ws)
      BY <1>0, <1>2, <2>1, <2>3, JobRuns DEF Ws
    <3>2. CASE job["activation"].pc = "spawn" /\ w = job["activation"].ws
      BY <1>0, <3>2 DEF CallsProcedure, StopSteps, Owner, OpShape, Ops
    <3> QED BY <3>1, <3>2 DEF OnlyOwnerRuns, SourceIsDown
  <2>4. OnlyOwnerRuns' /\ SourceIsDown' /\ CallsKnowActive' /\ NobodyElse'
    BY <1>0, <2>2, <2>3, OwnCaller DEF OnlyOwnerRuns, Owner, SourceIsDown, CallsKnowActive
  <2>5. op.pc \in {"stopping", "undoing"} => Stopping(job["activation"])'
    BY <1>0, <1>2, <2>1, StopGoesDown DEF CallsProcedure, Stopping
  <2>6. CallsProcedure'
    BY <1>0, <2>2, <2>5 DEF CallsProcedure, Stopping, StopSteps, IsRunning
  <2> QED BY <2>4, <2>6
<1> QED BY <1>1, <1>2

\* A request finds running what the state of the active workspace says.
LEMMA ServedRequest ==
    ASSUME TypeInv, ServedInv, Request
    PROVE  ServedInv'
<1>0. /\ op.pc = "idle" /\ op = NoOp /\ NoWs \notin Workspace
      /\ UNCHANGED <<runtime, store, job, deletion, active, boot>>
  BY RuntimeAssumption
     DEF Request, Activate, Deactivate, Pc, TypeInv, OpShape, runtimeVars
<1>1. \A w \in Workspace : IsRunning(w) => w = active.ws
  BY <1>0 DEF ServedInv, OnlyOwnerRuns, Owner
<1> USE DEF ServedInv, NobodyElse
<1>2. ASSUME NEW w \in Workspace, NEW force \in BOOLEAN, Activate(w, force) PROVE ServedInv'
  <2>1. PICK s \in Sources(w) :
          op' = [NoOp EXCEPT
                   !.pc = IF s = w /\ ~force THEN "resume"
                          ELSE IF s = NoWs THEN "launch" ELSE "probe",
                   !.call = IF s # w THEN "switch"
                            ELSE IF force THEN "restart" ELSE "resume",
                   !.target = w, !.source = s, !.auth = TRUE]
    BY <1>2 DEF Activate
  <2>2. s = active.ws
    BY <1>0, <1>1 DEF Sources
  <2>3. /\ op'.pc \in {"resume", "launch", "probe"} /\ op'.source = active.ws /\ op'.auth
        /\ op'.call \in {"switch", "restart", "resume"}
        /\ op'.pc = "launch" => op'.source = NoWs
    BY <2>1, <2>2 DEF NoOp
  <2>4. OnlyOwnerRuns' /\ SourceIsDown'
    BY <1>0, <1>1, <2>3 DEF OnlyOwnerRuns, Owner, SourceIsDown, IsRunning
  <2>5. CallsKnowActive' /\ CallsProcedure'
    BY <1>0, <2>3 DEF CallsKnowActive, CallsProcedure
  <2> QED BY <1>0, <2>4, <2>5
<1>3. ASSUME NEW w \in Workspace, Deactivate(w) PROVE ServedInv'
  <2>1. /\ op'.pc \in {"probe", "close"} /\ op'.source = w /\ op'.call = "stop"
        /\ op'.auth = (active.ws = w)
    BY <1>3 DEF Deactivate, NoOp
  <2>2. OnlyOwnerRuns' /\ SourceIsDown'
    BY <1>0, <1>1, <2>1 DEF OnlyOwnerRuns, Owner, SourceIsDown, IsRunning
  <2>3. CallsKnowActive' /\ CallsProcedure'
    BY <1>0, <2>1 DEF CallsKnowActive, CallsProcedure
  <2> QED BY <1>0, <2>2, <2>3
<1> QED BY <1>2, <1>3 DEF Request

\* The procedure of the call, after it is started, stopped or ended.
LEMMA ProcedureOf ==
    ASSUME IInv, NEW w \in Workspace
    PROVE  /\ StartJob("activation", w) => /\ job'["activation"].pc = "check"
                                           /\ job'["activation"].ws = w
                                           /\ job'["boot"] = job["boot"]
           /\ StopJob("activation", w) => /\ job'["activation"].pc = "begin"
                                          /\ job'["activation"].ws = w
                                          /\ ~job'["activation"].inStart
                                          /\ job'["boot"] = job["boot"]
<1>1. ASSUME NEW j, job' = [job EXCEPT !["activation"] = j]
      PROVE  job'["activation"] = j /\ job'["boot"] = job["boot"]
  BY <1>1, OwnCaller DEF IInv, RuntimeTypeOK
<1>2. ASSUME NEW pc
      PROVE  /\ [NoJob EXCEPT !.pc = pc, !.ws = w].pc = pc
             /\ [NoJob EXCEPT !.pc = pc, !.ws = w].ws = w
             /\ ~[NoJob EXCEPT !.pc = pc, !.ws = w].inStart
  BY DEF NoJob
<1>3. ASSUME StartJob("activation", w)
      PROVE  /\ job'["activation"] = [NoJob EXCEPT !.pc = "check", !.ws = w]
             /\ job'["boot"] = job["boot"]
  BY <1>1, <1>3 DEF StartJob
<1>4. ASSUME StopJob("activation", w)
      PROVE  /\ job'["activation"] = [NoJob EXCEPT !.pc = "begin", !.ws = w]
             /\ job'["boot"] = job["boot"]
  BY <1>1, <1>4 DEF StopJob
<1> QED BY <1>2, <1>3, <1>4

LEMMA ProcedureEnds ==
    ASSUME IInv, EndJob("activation")
    PROVE  job'["activation"].pc = "idle" /\ job'["boot"] = job["boot"]
BY OwnCaller DEF IInv, RuntimeTypeOK, EndJob, NoJob

\* What a step of the call must show of the states it joins.
LEMMA ServedMove ==
    ASSUME ServedInv, UNCHANGED <<runtime, store, deletion, boot>>,
           job'["boot"].pc = job["boot"].pc,
           Owner' = Owner \/ \A w \in Workspace : ~IsRunning(w),
           op'.pc \in {"launch", "stopped"} => \A w \in Workspace : IsRunning(w) => w # op'.source,
           CallsKnowActive', CallsProcedure'
    PROVE  ServedInv'
BY DEF ServedInv, OnlyOwnerRuns, SourceIsDown, NobodyElse, IsRunning

\* An exit of a call, to the state that names the workspace that may run.
LEMMA ServedExit ==
    ASSUME ServedInv, UNCHANGED <<runtime, store, deletion, boot>>,
           job'["activation"].pc = "idle", job'["boot"].pc = job["boot"].pc,
           Finish, active'.ws = Owner \/ \A w \in Workspace : ~IsRunning(w)
    PROVE  ServedInv'
<1>1. op'.pc = "idle" /\ op'.call = "none" /\ Owner' = active'.ws
  BY DEF Finish, NoOp, Owner
<1>2. CallsKnowActive' /\ CallsProcedure'
  BY <1>1 DEF CallsKnowActive, CallsProcedure
<1> QED BY <1>1, <1>2, ServedMove

LEMMA ServedOpStep ==
    ASSUME TypeInv, ServedInv, OpStep
    PROVE  ServedInv'
<1>0. /\ IInv /\ OpShape /\ OpShape' /\ op \in Ops
      /\ op.pc # "idle"
      /\ UNCHANGED <<runtime, port, store, deletion, boot>>
      /\ NoWs \notin Workspace
  <2>1. UNCHANGED <<runtime, port, store, deletion, boot>> /\ op.pc # "idle"
    BY DEF OpStep, Resume, Probe, CloseGate, CheckGate, Refused, Granted, SourceStopped,
       SourceNotStopped, Stopped, Launch, Started, NotStarted, Save, NotSaved, Reopen, Undo,
       Undone, Restore, SourceRestarted, Restored, Lost, GiveUp, runtimeVars, Pc
  <2> QED BY <2>1, OpStepShape, RuntimeAssumption DEF TypeInv, OpShape
<1> USE DEF Pc
<1>own. \A w \in Workspace : IsRunning(w) => w = Owner
  BY DEF ServedInv, OnlyOwnerRuns
<1>act. CallsKnowActive /\ CallsProcedure
  BY DEF ServedInv
<1>job. ASSUME UNCHANGED job
        PROVE  job'["boot"].pc = job["boot"].pc
  BY <1>job
<1>1. CASE Resume
  <2>1. op.call = "resume" /\ op.target \in Workspace /\ op.source = op.target
    BY <1>0, <1>1 DEF Resume, OpShape, Ops
  <2>2. /\ op'.pc \in {"save", "starting"} /\ op'.call = op.call
        /\ op'.source = op.source /\ op'.target = op.target
    BY <1>0, <1>1, GoToFields DEF Resume
  <2>3. Owner' = Owner
    BY <1>1, <2>1, <2>2 DEF Resume, Owner
  <2>4. CallsKnowActive'
    BY <2>1, <2>2 DEF CallsKnowActive
  <2>5. CallsProcedure' /\ job'["boot"].pc = job["boot"].pc
    <3>1. CASE op'.pc = "save" /\ UNCHANGED job
      BY <1>1, <1>act, <3>1 DEF Resume, CallsProcedure
    <3>2. CASE op'.pc = "starting" /\ StartJob("activation", op.target)
      BY <1>0, <2>1, <2>2, <3>2, ProcedureOf DEF CallsProcedure
    <3> QED BY <1>0, <1>1, <3>1, <3>2, GoToFields DEF Resume
  <2> QED BY <1>0, <2>2, <2>3, <2>4, <2>5, ServedMove
<1>2. CASE Probe
  <2>1. UNCHANGED job
    BY <1>2 DEF Probe, runtimeVars
  <2>2. job["activation"].pc = "idle"
    BY <1>2, <1>act DEF Probe, CallsProcedure
  <2>3. CASE GoTo("close") /\ UNCHANGED active
    <3>1. op'.pc = "close" /\ op'.call = op.call /\ op'.source = op.source /\ op'.auth = op.auth
      BY <1>0, <2>3, GoToFields
    <3>2. Owner' = Owner
      BY <1>2, <2>3, <3>1 DEF Owner, Probe
    <3>3. CallsKnowActive' /\ CallsProcedure'
      BY <1>act, <2>1, <2>2, <2>3, <3>1 DEF CallsKnowActive, CallsProcedure
    <3> QED BY <1>0, <2>1, <3>1, <3>2, <3>3, ServedMove
  <2>4. CASE Finish /\ IF op.call = "stop" THEN UNCHANGED active ELSE SetActive(op.source)
    <3>1. active'.ws = Owner
      BY <1>0, <1>2, <2>4 DEF Owner, SetActive, Probe, OpShape, Ops
    <3> QED BY <1>0, <2>1, <2>2, <2>4, <3>1, ServedExit
  <2> QED BY <1>2, <2>3, <2>4 DEF Probe
<1>3. CASE CloseGate
  <2>1. /\ op'.pc = "check" /\ op'.call = op.call /\ op'.source = op.source /\ op'.auth = op.auth
        /\ UNCHANGED job
    BY <1>0, <1>3, GoToFields DEF CloseGate, runtimeVars
  <2>2. (op.auth /\ active' = [ws |-> op.source, phase |-> "Draining"]) \/ UNCHANGED active
    BY <1>3 DEF CloseGate, Transition
  <2>3. Owner' = Owner
    BY <1>3, <1>act, <2>1, <2>2 DEF CloseGate, Owner, CallsKnowActive
  <2>4. CallsKnowActive' /\ CallsProcedure'
    BY <1>3, <1>act, <2>1, <2>2 DEF CloseGate, CallsKnowActive, CallsProcedure
  <2> QED BY <1>0, <2>1, <2>3, <2>4, ServedMove
<1>4. CASE CheckGate
  <2>1. /\ op'.pc \in {"granted", "refused"} /\ op'.call = op.call /\ op'.source = op.source
        /\ op'.auth = op.auth /\ UNCHANGED <<job, active>>
    BY <1>0, <1>4, GoToFields DEF CheckGate, runtimeVars
  <2>2. Owner' = Owner
    BY <1>4, <2>1 DEF CheckGate, Owner
  <2>3. CallsKnowActive' /\ CallsProcedure'
    BY <1>4, <1>act, <2>1 DEF CheckGate, CallsKnowActive, CallsProcedure
  <2> QED BY <1>0, <2>1, <2>2, <2>3, ServedMove
\* The exits that give up: the source stays the active workspace.
<1>5. ASSUME GiveUp, op.pc \in {"refused", "stopping", "restored"},
             job'["activation"].pc = "idle", job'["boot"].pc = job["boot"].pc
      PROVE  ServedInv'
  <2>1. active'.ws = Owner
    BY <1>0, <1>5, <1>act
       DEF GiveUp, SetActive, Owner, CallsKnowActive, OpShape, Ops
  <2> QED BY <1>0, <1>5, <2>1, ServedExit DEF GiveUp
<1>6. CASE Refused \/ Restored
  BY <1>5, <1>6, <1>act DEF Refused, Restored, runtimeVars, CallsProcedure
<1>7. CASE Granted
  <2>1. op.source \in Workspace /\ op.call \in {"switch", "restart", "stop"}
    BY <1>0, <1>7 DEF Granted, OpShape, Ops
  <2>2. /\ op'.pc \in {"stopping", "stopped", "launch"} /\ op'.source = op.source
        /\ op'.call = op.call /\ op'.target = op.target /\ op'.auth = op.auth /\ UNCHANGED active
    BY <1>0, <1>7, GoToFields DEF Granted, Ops
  <2>3. Owner' = Owner
    BY <1>7, <2>1, <2>2 DEF Granted, Owner
  <2>4. CallsKnowActive'
    BY <1>act, <2>1, <2>2 DEF CallsKnowActive
  <2>5. CASE op'.pc = "stopping" /\ StopJob("activation", op.source)
    <3>1. CallsProcedure' /\ job'["boot"].pc = job["boot"].pc
      BY <1>0, <2>1, <2>2, <2>5, ProcedureOf DEF CallsProcedure, StopSteps
    <3> QED BY <1>0, <2>3, <2>4, <2>5, <3>1, ServedMove
  <2>6. CASE op'.pc \in {"stopped", "launch"} /\ ~IsRunning(op.source) /\ UNCHANGED job
    <3>1. CallsProcedure'
      BY <1>7, <1>act, <2>6 DEF Granted, CallsProcedure
    <3> QED BY <1>0, <2>2, <2>3, <2>4, <2>6, <3>1, ServedMove
  <2> QED BY <1>0, <1>7, <2>5, <2>6, GoToFields DEF Granted, Ops
<1>8. CASE SourceStopped
  <2>1. /\ op'.pc \in {"stopped", "launch"} /\ op'.source = op.source
        /\ op'.call = op.call /\ op'.auth = op.auth /\ UNCHANGED active
    BY <1>0, <1>8, GoToFields DEF SourceStopped
  <2>2. ~IsRunning(op.source) /\ EndJob("activation")
    BY <1>8, <1>act DEF SourceStopped, JobDone, JobResult, CallsProcedure
  <2>3. Owner' = Owner
    BY <1>0, <1>8, <2>1 DEF SourceStopped, Owner, OpShape
  <2>4. job'["activation"].pc = "idle" /\ job'["boot"].pc = job["boot"].pc
    BY <1>0, <2>2, ProcedureEnds
  <2>5. CallsKnowActive' /\ CallsProcedure'
    BY <1>act, <2>1, <2>4 DEF CallsKnowActive, CallsProcedure
  <2> QED BY <1>0, <2>1, <2>2, <2>3, <2>4, <2>5, ServedMove
<1>9. CASE SourceNotStopped
  <2>1. op.pc = "stopping" /\ job'["activation"].pc = "idle" /\ job'["boot"].pc = job["boot"].pc
    BY <1>0, <1>9, ProcedureEnds DEF SourceNotStopped, JobDone
  <2>2. CASE op.call = "switch" /\ GoTo("restore") /\ UNCHANGED active
    <3>1. op'.pc = "restore" /\ op'.source = op.source /\ op'.call = op.call /\ op'.auth = op.auth
      BY <1>0, <2>2, GoToFields
    <3>2. Owner' = Owner /\ CallsKnowActive' /\ CallsProcedure'
      BY <1>act, <2>1, <2>2, <3>1 DEF Owner, CallsKnowActive, CallsProcedure
    <3> QED BY <1>0, <2>1, <3>1, <3>2, ServedMove
  <2> QED BY <1>5, <1>9, <2>1, <2>2 DEF SourceNotStopped
<1>10. CASE Stopped
  <2>1. UNCHANGED job /\ job["activation"].pc = "idle" /\ op.call = "stop"
    BY <1>0, <1>10, <1>act DEF Stopped, runtimeVars, CallsProcedure, OpShape, Ops
  <2>2. CASE op.auth
    <3>1. \A w \in Workspace : ~IsRunning(w)
      BY <1>10, <1>own, <1>act, <2>1, <2>2
         DEF Stopped, ServedInv, SourceIsDown, Owner, CallsKnowActive
    <3> QED BY <1>0, <1>10, <2>1, <3>1, ServedExit DEF Stopped
  <2>3. CASE ~op.auth
    <3>1. active'.ws = Owner
      BY <1>10, <2>1, <2>3 DEF Stopped, Owner
    <3> QED BY <1>0, <1>10, <2>1, <3>1, ServedExit DEF Stopped
  <2> QED BY <2>2, <2>3
<1>11. CASE Launch
  <2>1. /\ op'.pc = "starting" /\ op'.source = op.source /\ op'.target = op.target
        /\ op'.call = op.call /\ op'.auth = op.auth
    BY <1>0, <1>11, GoToFields DEF Launch
  <2>2. op.call \in {"switch", "restart"} /\ op.target \in Workspace
    BY <1>0, <1>11 DEF Launch, OpShape, Ops
  <2>3. CallsProcedure' /\ job'["boot"].pc = job["boot"].pc
    BY <1>0, <1>11, <2>1, <2>2, ProcedureOf DEF Launch, CallsProcedure
  <2>4. \A w \in Workspace : ~IsRunning(w)
    BY <1>11, <1>own, <2>2 DEF Launch, ServedInv, SourceIsDown, Owner
  <2>5. CallsKnowActive'
    BY <1>act, <2>1, <2>2 DEF CallsKnowActive
  <2> QED BY <1>0, <2>1, <2>3, <2>4, <2>5, ServedMove
<1>12. CASE Started
  <2>1. /\ op'.pc = "save" /\ op'.source = op.source /\ op'.target = op.target
        /\ op'.call = op.call /\ op'.auth = op.auth /\ UNCHANGED active
    BY <1>0, <1>12, GoToFields DEF Started
  <2>2. job'["activation"].pc = "idle" /\ job'["boot"].pc = job["boot"].pc
    BY <1>0, <1>12, ProcedureEnds DEF Started, JobDone
  <2>3. Owner' = Owner
    BY <1>0, <1>12, <2>1 DEF Started, Owner, OpShape
  <2>4. CallsKnowActive' /\ CallsProcedure'
    BY <1>act, <2>1, <2>2 DEF CallsKnowActive, CallsProcedure
  <2> QED BY <1>0, <2>1, <2>2, <2>3, <2>4, ServedMove
\* A start that failed, or a save: the error names the target, or is undone.
<1>undo. ASSUME op.pc \in {"starting", "save"}, op.call = "switch", UNCHANGED active,
                NEW m \in BOOLEAN, op' = [op EXCEPT !.pc = "undo", !.mayRun = m],
                job'["activation"].pc = "idle", job'["boot"].pc = job["boot"].pc
         PROVE  ServedInv'
  <2>1. /\ op'.pc = "undo" /\ op'.source = op.source /\ op'.target = op.target
        /\ op'.call = op.call /\ op'.auth = op.auth
    BY <1>0, <1>undo DEF Ops
  <2>2. Owner' = Owner /\ CallsKnowActive' /\ CallsProcedure'
    BY <1>act, <1>undo, <2>1 DEF Owner, CallsKnowActive, CallsProcedure
  <2> QED BY <1>0, <1>undo, <2>1, <2>2, ServedMove
<1>back. ASSUME op.pc \in {"starting", "save"}, op.call = "restart", UNCHANGED active,
                GoTo("restore"),
                job'["activation"].pc = "idle", job'["boot"].pc = job["boot"].pc
         PROVE  ServedInv'
  <2>1. op'.pc = "restore" /\ op'.source = op.source /\ op'.call = op.call /\ op'.auth = op.auth
    BY <1>0, <1>back, GoToFields
  <2>2. Owner' = Owner /\ CallsKnowActive' /\ CallsProcedure'
    BY <1>act, <1>back, <2>1 DEF Owner, CallsKnowActive, CallsProcedure
  <2> QED BY <1>0, <1>back, <2>1, <2>2, ServedMove
<1>err. ASSUME op.pc \in {"starting", "save"}, Finish, active'.ws = op.target,
               job'["activation"].pc = "idle", job'["boot"].pc = job["boot"].pc
        PROVE  ServedInv'
  <2>1. Owner = op.target
    BY <1>0, <1>err DEF Owner, OpShape, Ops
  <2> QED BY <1>0, <1>err, <2>1, ServedExit
<1>13. CASE NotStarted
  <2>1. op.pc = "starting" /\ job'["activation"].pc = "idle" /\ job'["boot"].pc = job["boot"].pc
    BY <1>0, <1>13, ProcedureEnds DEF NotStarted, JobDone
  <2>2. \/ Transition(op.target, "Error") /\ Finish
        \/ op.call = "restart" /\ GoTo("restore") /\ UNCHANGED active
        \/ /\ op.call = "switch" /\ UNCHANGED active
           /\ \E m \in BOOLEAN : op' = [op EXCEPT !.pc = "undo", !.mayRun = m]
    BY <1>13 DEF NotStarted
  <2>3. CASE Transition(op.target, "Error") /\ Finish
    BY <1>err, <2>1, <2>3 DEF Transition
  <2>4. CASE op.call = "restart" /\ GoTo("restore") /\ UNCHANGED active
    BY <1>back, <2>1, <2>4
  <2>5. CASE /\ op.call = "switch" /\ UNCHANGED active
             /\ \E m \in BOOLEAN : op' = [op EXCEPT !.pc = "undo", !.mayRun = m]
    BY <1>undo, <2>1, <2>5
  <2> QED BY <2>2, <2>3, <2>4, <2>5
<1>14. CASE Save
  <2>1. UNCHANGED job /\ job["activation"].pc = "idle" /\ active'.ws = op.target
    BY <1>14, <1>act DEF Save, runtimeVars, CallsProcedure, SetActive
  <2>2. CASE op.call = "switch" /\ GoTo("reopen")
    <3>1. /\ op'.pc = "reopen" /\ op'.source = op.source /\ op'.target = op.target
          /\ op'.call = op.call /\ op'.auth = op.auth
      BY <1>0, <2>2, GoToFields
    <3>2. Owner' = Owner /\ CallsKnowActive' /\ CallsProcedure'
      BY <1>14, <1>act, <2>1, <2>2, <3>1 DEF Save, Owner, CallsKnowActive, CallsProcedure
    <3> QED BY <1>0, <2>1, <3>1, <3>2, ServedMove
  <2> QED BY <1>14, <1>err, <2>1, <2>2 DEF Save
<1>15. CASE NotSaved
  <2>1. UNCHANGED job /\ job["activation"].pc = "idle"
    BY <1>15, <1>act DEF NotSaved, runtimeVars, CallsProcedure
  <2>2. CASE op.call = "resume" /\ Transition(op.target, "Error") /\ Finish
    BY <1>15, <1>err, <2>1, <2>2 DEF NotSaved, Transition
  <2>3. CASE op.call = "restart" /\ GoTo("restore") /\ UNCHANGED active
    BY <1>15, <1>back, <2>1, <2>3 DEF NotSaved
  <2>4. CASE /\ op.call = "switch" /\ UNCHANGED active
             /\ op' = [op EXCEPT !.pc = "undo", !.mayRun = TRUE]
    BY <1>15, <1>undo, <2>1, <2>4 DEF NotSaved
  <2> QED BY <1>15, <2>2, <2>3, <2>4 DEF NotSaved
<1>16. CASE Reopen
  <2>1. /\ op.call = "switch" /\ UNCHANGED <<job, active>>
        /\ job["activation"].pc = "idle" /\ active.ws = op.target
    BY <1>0, <1>16, <1>act
       DEF Reopen, OpShape, Ops, runtimeVars, CallsProcedure, CallsKnowActive
  <2>2. active'.ws = Owner
    BY <1>16, <2>1 DEF Reopen, Owner
  <2> QED BY <1>0, <1>16, <2>1, <2>2, ServedExit DEF Reopen
\* The target is down: the source may run again, if there is one.
<1>17. ASSUME AfterUndo, op.call = "switch", \A w \in Workspace : ~IsRunning(w),
              job'["activation"].pc = "idle", job'["boot"].pc = job["boot"].pc
       PROVE  ServedInv'
  <2>1. CASE Transition(NoWs, "Error") /\ Finish
    BY <1>0, <1>17, <2>1, ServedExit DEF Transition
  <2>2. CASE GoTo("restore") /\ UNCHANGED active
    <3>1. op'.pc = "restore" /\ op'.source = op.source /\ op'.call = op.call /\ op'.auth = op.auth
      BY <1>0, <2>2, GoToFields
    <3>2. CallsKnowActive' /\ CallsProcedure'
      BY <1>17, <1>act, <3>1 DEF CallsKnowActive, CallsProcedure
    <3> QED BY <1>0, <1>17, <3>1, <3>2, ServedMove
  <2> QED BY <1>17, <2>1, <2>2 DEF AfterUndo
<1>18. CASE Undo
  <2>1. op.call = "switch" /\ op.target \in Workspace
    BY <1>0, <1>18 DEF Undo, OpShape, Ops
  <2>2. Owner = op.target
    BY <1>18, <2>1 DEF Undo, Owner
  <2>3. CASE ~IsRunning(op.target) /\ AfterUndo /\ UNCHANGED job
    BY <1>17, <1>18, <1>own, <1>act, <2>1, <2>2, <2>3 DEF Undo, CallsProcedure
  <2>4. CASE StopJob("activation", op.target) /\ GoTo("undoing") /\ UNCHANGED active
    <3>1. /\ op'.pc = "undoing" /\ op'.source = op.source /\ op'.target = op.target
          /\ op'.call = op.call /\ op'.auth = op.auth
      BY <1>0, <2>4, GoToFields
    <3>2. CallsProcedure' /\ job'["boot"].pc = job["boot"].pc
      BY <1>0, <2>1, <2>4, <3>1, ProcedureOf DEF CallsProcedure, StopSteps
    <3>3. Owner' = Owner /\ CallsKnowActive'
      BY <1>act, <2>1, <2>2, <2>4, <3>1 DEF Owner, CallsKnowActive
    <3> QED BY <1>0, <3>1, <3>2, <3>3, ServedMove
  <2> QED BY <1>18, <2>3, <2>4 DEF Undo
<1>19. CASE Undone
  <2>1. op.call = "switch" /\ job["activation"].ws = op.target
    BY <1>0, <1>19, <1>act DEF Undone, OpShape, Ops, CallsProcedure
  <2>2. \A w \in Workspace : ~IsRunning(w)
    BY <1>19, <1>own, <1>act, <2>1 DEF Undone, JobDone, JobResult, CallsProcedure, Owner
  <2>3. job'["activation"].pc = "idle" /\ job'["boot"].pc = job["boot"].pc
    BY <1>0, <1>19, ProcedureEnds DEF Undone, JobDone
  <2> QED BY <1>17, <1>19, <2>1, <2>2, <2>3 DEF Undone
<1>20. CASE Restore
  <2>1. op.source \in Workspace /\ op.call \in {"switch", "restart"}
    BY <1>0, <1>20 DEF Restore, OpShape, Ops
  <2>2. /\ op'.pc \in {"restoring", "restored"} /\ op'.source = op.source
        /\ op'.call = op.call /\ op'.auth = op.auth /\ UNCHANGED active
    BY <1>0, <1>20, GoToFields DEF Restore
  <2>3. Owner' = Owner /\ CallsKnowActive'
    BY <1>20, <1>act, <2>1, <2>2 DEF Restore, Owner, CallsKnowActive
  <2>4. CallsProcedure' /\ job'["boot"].pc = job["boot"].pc
    <3>1. CASE op'.pc = "restoring" /\ StartJob("activation", op.source)
      BY <1>0, <2>1, <2>2, <3>1, ProcedureOf DEF CallsProcedure
    <3>2. CASE op'.pc = "restored" /\ UNCHANGED job
      BY <1>20, <1>act, <3>2 DEF Restore, CallsProcedure
    <3> QED BY <1>0, <1>20, <3>1, <3>2, GoToFields DEF Restore
  <2> QED BY <1>0, <2>2, <2>3, <2>4, ServedMove
<1>21. CASE SourceRestarted
  <2>1. op.call \in {"switch", "restart"}
    BY <1>0, <1>21 DEF SourceRestarted, OpShape, Ops
  <2>2. /\ op'.pc \in {"restored", "lost"} /\ op'.source = op.source
        /\ op'.call = op.call /\ op'.auth = op.auth /\ UNCHANGED active
    BY <1>0, <1>21, GoToFields DEF SourceRestarted
  <2>3. job'["activation"].pc = "idle" /\ job'["boot"].pc = job["boot"].pc
    BY <1>0, <1>21, ProcedureEnds DEF SourceRestarted, JobDone
  <2>4. Owner' = Owner /\ CallsKnowActive' /\ CallsProcedure'
    BY <1>21, <1>act, <2>1, <2>2, <2>3 DEF SourceRestarted, Owner, CallsKnowActive, CallsProcedure
  <2> QED BY <1>0, <2>2, <2>3, <2>4, ServedMove
<1>22. CASE Lost
  <2>1. /\ op.call \in {"switch", "restart"} /\ UNCHANGED job
        /\ job["activation"].pc = "idle" /\ active'.ws = op.source
    BY <1>0, <1>22, <1>act DEF Lost, OpShape, Ops, runtimeVars, CallsProcedure, Transition
  <2>2. active'.ws = Owner
    BY <1>22, <2>1 DEF Lost, Owner
  <2> QED BY <1>0, <1>22, <2>1, <2>2, ServedExit DEF Lost
<1> QED
  BY <1>1, <1>2, <1>3, <1>4, <1>6, <1>7, <1>8, <1>9, <1>10, <1>11, <1>12, <1>13, <1>14, <1>15,
     <1>16, <1>18, <1>19, <1>20, <1>21, <1>22 DEF OpStep

\* The conditions of the run `activation`: nothing is deleted, and nothing is
\* started at launch, beside the calls.
OneAtATime == Deletable = {} /\ BootChoice = {}

LEMMA ServedInit == ASSUME OneAtATime, Init PROVE ServedInv
<1>1. /\ \A w \in Workspace : ~IsRunning(w)
      /\ \A c \in Caller : job[c] = NoJob
      /\ store = Workspace /\ deletion.pc = "idle" /\ boot.pc = "done" /\ op = NoOp
  BY DEF Init, RuntimeInit, IsRunning, OneAtATime
<1> QED
  BY <1>1, OwnCaller DEF ServedInv, OnlyOwnerRuns, SourceIsDown, CallsKnowActive, CallsProcedure,
                         NobodyElse, NoOp, NoJob

LEMMA ServedStep == ASSUME OneAtATime, TypeInv, ServedInv, [Next]_vars PROVE ServedInv'
<1> USE DEF OneAtATime
<1>1. CASE UNCHANGED <<controlVars, runtimeVars>>
  BY <1>1 DEF controlVars, runtimeVars, ServedInv, OnlyOwnerRuns, SourceIsDown, CallsKnowActive,
              CallsProcedure, NobodyElse, Owner, IsRunning
<1>2. CASE Request
  BY <1>2, ServedRequest
<1>3. CASE OpStep
  BY <1>3, ServedOpStep
<1>4. CASE UNCHANGED controlVars /\ ((\E c \in Caller : JobStep(c)) \/ RuntimeEnv)
  BY <1>4, ServedBeside
<1>5. ~(BootStart \/ BootEnd)
  BY DEF ServedInv, NobodyElse, BootStart, BootEnd
<1> QED
  BY <1>1, <1>2, <1>3, <1>4, <1>5 DEF Next, vars

\* A workspace whose service runs is the active one whenever no call is in
\* progress, whatever failed and was rolled back on the way.
THEOREM RunningIsActive == ASSUME OneAtATime PROVE Spec => []ServedIsActive
<1>1. Init => ServedInv
  BY ServedInit
<1>2. TypeInv /\ ServedInv /\ [Next]_vars => ServedInv'
  BY ServedStep
<1>3. ServedInv => ServedIsActive
  BY DEF ServedInv, OnlyOwnerRuns, Owner, ServedIsActive, Quiescent
<1> QED BY <1>1, <1>2, <1>3, Types, PTL DEF Spec

\* While a switch is in progress, too, at most one service runs: that of the
\* workspace left or of the one chosen, never both.
OneRuns == \A v, w \in Workspace : IsRunning(v) /\ IsRunning(w) => v = w

THEOREM OneIsServed == ASSUME OneAtATime PROVE Spec => []OneRuns
<1>1. Init => ServedInv
  BY ServedInit
<1>2. TypeInv /\ ServedInv /\ [Next]_vars => ServedInv'
  BY ServedStep
<1>3. ServedInv => OneRuns
  BY DEF ServedInv, OnlyOwnerRuns, OneRuns
<1> QED BY <1>1, <1>2, <1>3, Types, PTL DEF Spec

-----------------------------------------------------------------------------
(* What a call reports of the services                                     *)

\* A start that reports its service running, a save and a rollback that come
\* after it find the service running still.
ReportInv ==
    /\ op.pc = "save" => IsRunning(op.target)
    /\ op.pc = "restored" /\ op.ran => IsRunning(op.source)
    /\ op.pc \in {"starting", "restoring"} /\ job["activation"].pc = "isRunning" =>
         IsRunning(job["activation"].ws)

\* A procedure that reports its service running has verified it.
LEMMA VerifiedRuns ==
    ASSUME IInv, NEW c \in Caller, JobStep(c), job'[c].pc = "isRunning"
    PROVE  IsRunning(job[c].ws)'
<1>0. job \in [Caller -> Jobs]
  BY DEF IInv, RuntimeTypeOK
<1>1. ASSUME NEW pc, job' = [job EXCEPT ![c].pc = pc] \/ job' = Woken([job EXCEPT ![c].pc = pc])
      PROVE  job'[c].pc = pc /\ job'[c].ws = job[c].ws
  BY <1>0, <1>1 DEF Woken, Jobs
<1> USE DEF At, Goto
<1>2. CASE CheckPort(c) \/ AwaitListener(c)
  BY <1>1, <1>2 DEF CheckPort, AwaitListener, Reclaim
<1>3. CASE Spawn(c)
  BY <1>1, <1>3 DEF Spawn
<1>4. CASE FinishStop(c) \/ Detach(c) \/ MarkFailedStart(c)
  BY <1>1, <1>4 DEF FinishStop, Detach, MarkFailedStart
<1>5. CASE Routes(c)
  BY <1>0, <1>1, <1>5 DEF Routes, Jobs
<1>6. CASE BeginStop(c)
  BY <1>0, <1>1, <1>6 DEF BeginStop, Jobs
<1>7. CASE Verify(c)
  BY <1>1, <1>7 DEF Verify, IsRunning, Ws
<1> QED BY <1>2, <1>3, <1>4, <1>5, <1>6, <1>7 DEF JobStep

\* Nothing beside the procedures stops a service whose listener is kept.
LEMMA EnvKeepsRunning ==
    ASSUME IInv, deletion.pc = "idle", RunningOwnsPort, ListenersAreKept, RuntimeEnv,
           NEW w \in Workspace, IsRunning(w)
    PROVE  IsRunning(w)'
<1>0. port = w /\ port # Free
  BY FreeIsNobody DEF RunningOwnsPort
<1> QED
  BY <1>0 DEF RuntimeEnv, CloseListener, ListenerDies, Refresh, BeginDelete, ForeignBinds,
              ForeignLeaves, DropWorkspace, RemoveProfile, AbortDelete, IsRunning

LEMMA ReportOpStep ==
    ASSUME TypeInv, ServedInv, ReportInv, OpStep
    PROVE  ReportInv'
<1>0. /\ IInv /\ OpShape /\ op \in Ops /\ CallsProcedure /\ ServedInv'
      /\ UNCHANGED runtime
  <2>1. UNCHANGED runtime
    BY DEF OpStep, Resume, Probe, CloseGate, CheckGate, Refused, Granted, SourceStopped,
       SourceNotStopped, Stopped, Launch, Started, NotStarted, Save, NotSaved, Reopen, Undo,
       Undone, Restore, SourceRestarted, Restored, Lost, runtimeVars
  <2> QED BY <2>1, ServedOpStep DEF TypeInv, OpShape, ServedInv
<1> USE DEF Pc
<1>1. CASE op'.pc \notin {"save", "restored", "starting", "restoring"}
  BY <1>1 DEF ReportInv
<1>2. CASE Resume
  <2>1. op.target \in Workspace
    BY <1>0, <1>2 DEF Resume, OpShape
  <2>2. CASE GoTo("save") /\ IsRunning(op.target)
    BY <1>0, <2>2, GoToFields DEF ReportInv, IsRunning
  <2>3. CASE GoTo("starting") /\ StartJob("activation", op.target)
    BY <1>0, <2>1, <2>3, GoToFields, ProcedureOf DEF ReportInv
  <2> QED BY <1>2, <2>2, <2>3 DEF Resume
<1>3. CASE Launch
  <2>1. op.target \in Workspace /\ op'.pc = "starting"
    BY <1>0, <1>3, GoToFields DEF Launch, OpShape
  <2> QED BY <1>0, <1>3, <2>1, ProcedureOf DEF Launch, ReportInv
<1>4. CASE Started
  <2>1. IsRunning(op.target)
    BY <1>0, <1>4 DEF Started, JobDone, JobResult, ReportInv, CallsProcedure
  <2> QED BY <1>0, <1>4, <2>1, GoToFields DEF Started, ReportInv, IsRunning
<1>5. CASE Restore
  <2>1. op.source \in Workspace
    BY <1>0, <1>5 DEF Restore, OpShape, Ops
  <2>2. CASE GoTo("restoring") /\ StartJob("activation", op.source)
    BY <1>0, <2>1, <2>2, GoToFields, ProcedureOf DEF ReportInv
  <2>3. CASE GoTo("restored") /\ (op.ran => IsRunning(op.source))
    BY <1>0, <2>3, GoToFields DEF ReportInv, IsRunning
  <2> QED BY <1>5, <2>2, <2>3 DEF Restore
<1>6. CASE SourceRestarted
  <2>1. CASE JobDone("isRunning") /\ GoTo("restored")
    <3>1. IsRunning(op.source)
      BY <1>0, <1>6, <2>1 DEF SourceRestarted, JobDone, JobResult, ReportInv, CallsProcedure
    <3> QED BY <1>0, <2>1, <3>1, GoToFields DEF ReportInv, IsRunning
  <2>2. CASE GoTo("lost")
    BY <1>0, <1>1, <2>2, GoToFields
  <2> QED BY <1>6, <2>1, <2>2 DEF SourceRestarted
<1>end. ASSUME Finish PROVE ReportInv'
  BY <1>1, <1>end DEF Finish, NoOp
<1>go. ASSUME NEW pc \in {"close", "check", "granted", "refused", "stopped", "launch", "restore",
                          "reopen", "undoing"}, GoTo(pc)
       PROVE  ReportInv'
  BY <1>0, <1>1, <1>go, GoToFields
<1>set. ASSUME NEW pc \in {"stopping", "undo"}, NEW m \in BOOLEAN,
               op' = [op EXCEPT !.pc = pc, !.ran = m] \/ op' = [op EXCEPT !.pc = pc, !.mayRun = m]
        PROVE  ReportInv'
  BY <1>0, <1>1, <1>set DEF Ops
<1>7. CASE Probe \/ CloseGate \/ CheckGate
  BY <1>7, <1>end, <1>go DEF Probe, CloseGate, CheckGate
<1>8. CASE Refused \/ Restored \/ Stopped \/ Reopen \/ Lost
  BY <1>1, <1>8 DEF Refused, Restored, GiveUp, Stopped, Reopen, Lost, Finish, NoOp
<1>9. CASE Granted \/ SourceStopped \/ SourceNotStopped
  BY <1>9, <1>end, <1>go, <1>set DEF Granted, SourceStopped, SourceNotStopped, GiveUp
<1>10. CASE NotStarted \/ Save \/ NotSaved
  BY <1>10, <1>end, <1>go, <1>set DEF NotStarted, Save, NotSaved
<1>11. CASE Undo \/ Undone
  BY <1>11, <1>end, <1>go DEF Undo, Undone, AfterUndo
<1> QED
  BY <1>2, <1>3, <1>4, <1>5, <1>6, <1>7, <1>8, <1>9, <1>10, <1>11 DEF OpStep

LEMMA ReportStep ==
    ASSUME OneAtATime, ListenersAreKept, TypeInv, ServedInv, RunningOwnsPort, ReportInv,
           [Next]_vars
    PROVE  ReportInv'
<1>0. IInv /\ OpShape /\ op \in Ops /\ NobodyElse /\ CallsProcedure /\ NoWs \notin Workspace
  BY RuntimeAssumption DEF TypeInv, ServedInv, OpShape
<1>1. CASE UNCHANGED <<controlVars, runtimeVars>>
  BY <1>1 DEF controlVars, runtimeVars, ReportInv, IsRunning
<1>2. CASE Request
  <2>1. op'.pc \notin {"save", "restored", "starting", "restoring"}
    <3>1. ASSUME NEW w \in Workspace, NEW force \in BOOLEAN, Activate(w, force)
          PROVE  op'.pc \in {"resume", "launch", "probe"}
      BY <3>1 DEF Activate, NoOp
    <3>2. ASSUME NEW w \in Workspace, Deactivate(w)
          PROVE  op'.pc \in {"probe", "close"}
      BY <3>2 DEF Deactivate, NoOp
    <3> QED BY <1>2, <3>1, <3>2 DEF Request
  <2> QED BY <2>1 DEF ReportInv
<1>3. CASE OpStep
  BY <1>3, ReportOpStep
<1>4. ASSUME UNCHANGED controlVars, NEW c \in Caller, JobStep(c) PROVE ReportInv'
  <2>1. c = "activation" /\ job["activation"].pc # "idle"
        /\ job'["activation"].ws = job["activation"].ws
    BY <1>0, <1>4, JobStays, ActivationAssumption DEF NobodyElse
  <2>2. op.pc \notin {"save", "restored"}
    BY <1>0, <2>1 DEF CallsProcedure
  <2>3. job'["activation"].pc = "isRunning" => IsRunning(job["activation"].ws)'
    BY <1>0, <1>4, <2>1, VerifiedRuns
  <2> QED BY <1>4, <2>1, <2>2, <2>3 DEF ReportInv, controlVars, IsRunning
<1>5. CASE UNCHANGED controlVars /\ RuntimeEnv
  <2>1. \A w \in Workspace : IsRunning(w) => IsRunning(w)'
    BY <1>0, <1>5, EnvKeepsRunning DEF NobodyElse
  <2>2. job'["activation"].pc = job["activation"].pc /\ job'["activation"].ws = job["activation"].ws
    BY <1>0, <1>5, EnvRuns, OwnCaller DEF NobodyElse, OneAtATime
  <2>3. /\ op.pc \in {"save", "restoring", "restored"} => op.target \in Workspace
        /\ op.pc \in {"restored"} => op.source \in Workspace
        /\ job["activation"].pc # "idle" => job["activation"].ws \in Workspace
    BY <1>0, OwnCaller DEF OpShape, Ops, IInv, JobsNameWorkspace, Ws
  <2> QED BY <1>5, <2>1, <2>2, <2>3 DEF ReportInv, controlVars
<1>6. ~(BootStart \/ BootEnd)
  BY <1>0 DEF NobodyElse, BootStart, BootEnd
<1> QED
  BY <1>1, <1>2, <1>3, <1>4, <1>5, <1>6 DEF Next, vars

\* What a call reports is so: a switch, restart or resume that succeeds leaves its
\* target served, and a rollback that succeeds has the source running if it ran.
THEOREM CallsReportTruth ==
    ASSUME OneAtATime, ListenersAreKept PROVE Spec => ReportsAreTrue
<1>1. Init => ServedInv /\ ReportInv
  BY ServedInit DEF Init, NoOp, ReportInv
<1>2. TypeInv /\ ServedInv /\ RunningOwnsPort /\ ReportInv /\ [Next]_vars => ServedInv' /\ ReportInv'
  BY ServedStep, ReportStep
<1>3. ReportInv => RollbackRestores
  BY DEF ReportInv, RollbackRestores, Pc
<1>4. TypeInv /\ ServedInv /\ ReportInv /\ [Next]_vars =>
        [Pc("save") /\ active'.phase = "Active" /\ active' # active => IsRunning(active.ws)']_vars
  <2> SUFFICES ASSUME ServedInv, ReportInv, Next, Pc("save"), active' # active,
                      active'.phase = "Active"
               PROVE  IsRunning(active.ws)'
    BY DEF vars, controlVars
  <2>1. CASE Save
    BY <2>1 DEF Save, SetActive, ReportInv, runtimeVars, IsRunning, Pc
  <2>2. CASE NotSaved
    BY <2>2 DEF NotSaved, Transition
  <2>3. ~(BootStart \/ BootEnd)
    BY DEF ServedInv, NobodyElse, BootStart, BootEnd
  <2>4. ~UNCHANGED active
    OBVIOUS
  <2>5. ~OpStep \/ Save \/ NotSaved
    BY DEF OpStep, Resume, Probe, CloseGate, CheckGate, Refused, Granted, SourceStopped,
       SourceNotStopped, Stopped, Launch, Started, NotStarted, Reopen, Undo, Undone, Restore,
       SourceRestarted, Restored, Lost, Pc
  <2> QED
    BY <2>1, <2>2, <2>3, <2>4, <2>5 DEF Next, Request, Activate, Deactivate, controlVars
<1> QED
  BY <1>1, <1>2, <1>3, <1>4, Types, ActivationRunningIsOwner, PTL
     DEF Spec, ReportsAreTrue, ActivatedIsServed

=============================================================================
