------------------------ MODULE WorkspaceActivation ------------------------
(***************************************************************************)
(* Choosing, restarting and stopping the active workspace                  *)
(* (workspace/activation.rs).  One call at a time holds the                *)
(* `workspace_activation` lock; it drains the workspace it leaves, stops   *)
(* and starts services through RuntimeService, and rolls back when a step  *)
(* fails.  Beside it run the work that holds activity guards, the status   *)
(* commands, workspace deletion and the start made when the application    *)
(* launches, which does not take the lock.                                 *)
(***************************************************************************)
EXTENDS RuntimeService

CONSTANTS Guard, ObservedCounts, MaxCount, NoWork,   \* see Activity
          CallFaults,   \* "probe", "save": failures of the activation itself
          BootChoice    \* what the launch may select; {} if not configured

ASSUME ActivationAssumption ==
    /\ Caller = {"activation", "boot"}
    /\ CallFaults \subseteq {"probe", "save"}
    /\ BootChoice \subseteq Workspace
    /\ IsFiniteSet(Guard)
    /\ MaxCount \in Nat \ {0} /\ Cardinality(Guard) <= MaxCount
    /\ ObservedCounts \subseteq Nat /\ 0 \in ObservedCounts
    /\ NoWork \notin Workspace \X {"mcp", "exec", "turn", "operation"}

VARIABLES inner, guards,   \* see Activity
          active,          \* the ActiveWorkspaceState
          op,              \* the call that holds `workspace_activation`
          boot             \* auto_start_configured_mcp

controlVars == <<active, op, boot>>
activityVars == <<inner, guards>>
vars == <<runtimeVars, activityVars, controlVars>>

ActivePhase == {"None", "Activating", "Active", "Draining", "Switching", "Error"}

\* `source` is the workspace being left (or restarted, or stopped), `ran`
\* whether its service was running, `auth` whether it was the active one.
\* What is stopped on the way back is `mayRun` or seen to be running.
Ops == [pc : {"idle", "resume", "probe", "close", "check", "refused", "granted",
              "stopping", "stopped", "launch", "starting", "save", "reopen",
              "undo", "undoing", "restore", "restoring", "restored", "lost"},
        call : {"none", "resume", "restart", "switch", "stop"},
        target : Workspace \cup {NoWs}, source : Workspace \cup {NoWs},
        ran : BOOLEAN, auth : BOOLEAN, mayRun : BOOLEAN]
NoOp == [pc |-> "idle", call |-> "none", target |-> NoWs, source |-> NoWs,
         ran |-> FALSE, auth |-> FALSE, mayRun |-> FALSE]

-----------------------------------------------------------------------------
(* The gate of the workspace being left, as Activity sees its drainer.     *)

HoldsGrant ==
    \/ op.call \in {"switch", "restart", "stop"}
         /\ op.pc \in {"granted", "stopping", "stopped", "launch"}
    \/ op.call = "switch"
         /\ op.pc \in {"starting", "save", "reopen", "undo", "undoing",
                       "restore", "restoring", "restored", "lost"}

Drainer ==
    CASE op.pc = "check"   -> [phase |-> "closing", ws |-> op.source]
      [] op.pc = "refused" -> [phase |-> "refused", ws |-> op.source]
      [] HoldsGrant /\ op.source # NoWs -> [phase |-> "granted", ws |-> op.source]
      [] OTHER -> [phase |-> "idle"]

Act == INSTANCE Activity WITH drainer <- Drainer

Unseen == [o \in Act!Observed |-> 0]

-----------------------------------------------------------------------------
\* Mutant of SetActive: a phase the state does not have.
SetRunning(w) == active' = [ws |-> w, phase |-> "Running"]
SetActive(w) == active' = [ws |-> w, phase |-> "Active"]
Transition(w, phase) == active' = [ws |-> w, phase |-> phase]

Pc(pc) == op.pc = pc
GoTo(pc) == op' = [op EXCEPT !.pc = pc]
Finish == op' = NoOp

JobResult == job["activation"].pc
JobDone(r) == JobResult = r /\ EndJob("activation")

\* active.workspace_id, else the target or another workspace found running.
Sources(w) ==
    IF active.ws # NoWs THEN {active.ws}
    ELSE IF IsRunning(w) THEN {w}
    ELSE LET others == {v \in store \ {w} : IsRunning(v)}
         IN  IF others # {} THEN others ELSE {NoWs}

Activate(w, force) ==
    /\ Pc("idle")
    /\ w \in store
    /\ \E s \in Sources(w) :
          op' = [NoOp EXCEPT
                   !.pc = IF s = w /\ ~force THEN "resume"
                          ELSE IF s = NoWs THEN "launch" ELSE "probe",
                   !.call = IF s # w THEN "switch"
                            ELSE IF force THEN "restart" ELSE "resume",
                   !.target = w, !.source = s, !.auth = TRUE]
    /\ UNCHANGED <<active, boot, activityVars, runtimeVars>>

Deactivate(w) ==
    /\ Pc("idle")
    /\ w \in store
    /\ op' = [NoOp EXCEPT !.pc = IF active.ws = w THEN "probe" ELSE "close",
                          !.call = "stop", !.target = w, !.source = w,
                          !.auth = (active.ws = w)]
    /\ UNCHANGED <<active, boot, activityVars, runtimeVars>>

\* The active workspace is activated again: nothing to drain.
Resume ==
    /\ Pc("resume")
    /\ Act!ClearDrain(op.target)
    /\ \/ /\ IsRunning(op.target)
          /\ GoTo("save")
          /\ UNCHANGED <<active, job>>
       \/ /\ ~IsRunning(op.target)
          /\ Transition(op.source, "Activating")
          /\ StartJob("activation", op.target)
          /\ GoTo("starting")
    /\ UNCHANGED <<guards, boot, runtime, port, store, deletion>>

\* refresh_provider_activity on the workspace to be left.
Probe ==
    /\ Pc("probe")
    /\ \/ /\ Act!SetProviderActivity(op.source, Unseen, TRUE)
          /\ GoTo("close")
          /\ UNCHANGED active
       \/ /\ "probe" \in CallFaults
          /\ Act!SetProviderActivity(op.source, Unseen, FALSE)
          /\ IF op.call = "stop" THEN UNCHANGED active ELSE SetActive(op.source)
          /\ Finish
    /\ UNCHANGED <<guards, boot, runtimeVars>>

CloseGate ==
    /\ Pc("close")
    /\ Act!SetDrain(op.source)
    /\ IF op.auth THEN Transition(op.source, "Draining") ELSE UNCHANGED active
    /\ GoTo("check")
    /\ UNCHANGED <<guards, boot, runtimeVars>>

CheckGate ==
    /\ Pc("check")
    /\ GoTo(IF Act!CanSwitch(Act!Of(op.source)) THEN "granted" ELSE "refused")
    /\ UNCHANGED <<active, boot, activityVars, runtimeVars>>

\* Mutant of GiveUp: an exit that forgets the gate.
GiveUpClosed ==
    /\ IF op.auth THEN SetActive(op.source) ELSE UNCHANGED active
    /\ Finish
    /\ UNCHANGED <<inner, guards, boot>>

\* The exits that open the gate of the source and leave it the active one.
GiveUp ==
    /\ Act!ClearDrain(op.source)
    /\ IF op.auth THEN SetActive(op.source) ELSE UNCHANGED active
    /\ Finish
    /\ UNCHANGED <<guards, boot>>

Refused == Pc("refused") /\ GiveUp /\ UNCHANGED runtimeVars

Granted ==
    /\ Pc("granted")
    /\ \/ /\ IsRunning(op.source)
          /\ op' = [op EXCEPT !.pc = "stopping", !.ran = TRUE]
          /\ StopJob("activation", op.source)
       \/ /\ ~IsRunning(op.source)
          /\ GoTo(IF op.call = "stop" THEN "stopped" ELSE "launch")
          /\ UNCHANGED job
    /\ UNCHANGED <<active, boot, activityVars, runtime, port, store, deletion>>

SourceStopped ==
    /\ Pc("stopping")
    /\ JobDone("stopped")
    /\ GoTo(IF op.call = "stop" THEN "stopped" ELSE "launch")
    /\ UNCHANGED <<active, boot, activityVars, runtime, port, store, deletion>>

SourceNotStopped ==
    /\ Pc("stopping")
    /\ JobDone("failed")
    /\ \/ op.call \in {"stop", "restart"} /\ GiveUp
       \/ op.call = "switch" /\ GoTo("restore")
            /\ UNCHANGED <<active, boot, activityVars>>
    /\ UNCHANGED <<runtime, port, store, deletion>>

Stopped ==
    /\ Pc("stopped")
    /\ Act!ClearDrain(op.source)
    /\ IF op.auth THEN Transition(NoWs, "None") ELSE UNCHANGED active
    /\ Finish
    /\ UNCHANGED <<guards, boot, runtimeVars>>

Launch ==
    /\ Pc("launch")
    /\ Transition(op.source, IF op.call = "switch" /\ op.source # NoWs
                             THEN "Switching" ELSE "Activating")
    /\ Act!ClearDrain(op.target)
    /\ StartJob("activation", op.target)
    /\ GoTo("starting")
    /\ UNCHANGED <<guards, boot, runtime, port, store, deletion>>

\* Mutant of Started: that the listener runs is not verified.
StartedUnverified ==
    /\ Pc("starting")
    /\ JobDone("isRunning") \/ JobDone("notRunning")
    /\ GoTo("save")
    /\ UNCHANGED <<active, boot, activityVars, runtime, port, store, deletion>>

Started ==
    /\ Pc("starting")
    /\ JobDone("isRunning")
    /\ GoTo("save")
    /\ UNCHANGED <<active, boot, activityVars, runtime, port, store, deletion>>

NotStarted ==
    /\ Pc("starting")
    /\ \E r \in {"notRunning", "failed"} :
         /\ JobDone(r)
         /\ \/ /\ op.call = "resume" \/ (op.call = "restart" /\ r = "notRunning")
               /\ Transition(op.target, "Error")
               /\ Finish
            \/ /\ op.call = "restart" /\ r = "failed"
               /\ GoTo("restore")
               /\ UNCHANGED active
            \/ /\ op.call = "switch"
               /\ op' = [op EXCEPT !.pc = "undo", !.mayRun = (r = "notRunning")]
               /\ UNCHANGED active
    /\ UNCHANGED <<boot, activityVars, runtime, port, store, deletion>>

\* persist_last_workspace, then set_active_workspace.
Save ==
    /\ Pc("save")
    /\ SetActive(op.target)
    /\ IF op.call = "switch" /\ op.source # NoWs THEN GoTo("reopen") ELSE Finish
    /\ UNCHANGED <<boot, activityVars, runtimeVars>>

NotSaved ==
    /\ Pc("save")
    /\ "save" \in CallFaults
    /\ \/ op.call = "resume" /\ Transition(op.target, "Error") /\ Finish
       \/ op.call = "restart" /\ GoTo("restore") /\ UNCHANGED active
       \/ op.call = "switch" /\ op' = [op EXCEPT !.pc = "undo", !.mayRun = TRUE]
                             /\ UNCHANGED active
    /\ UNCHANGED <<boot, activityVars, runtimeVars>>

Reopen ==
    /\ Pc("reopen")
    /\ Act!ClearDrain(op.source)
    /\ Finish
    /\ UNCHANGED <<active, guards, boot, runtimeVars>>

\* rollback_after_target_failure: the target is stopped, ignoring any error.
AfterUndo == IF op.source # NoWs
             THEN GoTo("restore") /\ UNCHANGED active
             ELSE Transition(NoWs, "Error") /\ Finish

\* Mutant of Undo: a target that started and could not be saved is left running.
UndoNothing ==
    /\ Pc("undo")
    /\ AfterUndo
    /\ UNCHANGED <<boot, activityVars, runtimeVars>>

Undo ==
    /\ Pc("undo")
    /\ \/ /\ op.mayRun \/ IsRunning(op.target)
          /\ StopJob("activation", op.target)
          /\ GoTo("undoing")
          /\ UNCHANGED active
       \/ /\ ~(op.mayRun \/ IsRunning(op.target))
          /\ AfterUndo
          /\ UNCHANGED job
    /\ UNCHANGED <<boot, activityVars, runtime, port, store, deletion>>

\* Mutant of Undone: the error of stopping the target is not ignored.
UndoneStopped ==
    /\ Pc("undoing")
    /\ JobDone("stopped")
    /\ AfterUndo
    /\ UNCHANGED <<boot, activityVars, runtime, port, store, deletion>>

Undone ==
    /\ Pc("undoing")
    /\ JobDone("stopped") \/ JobDone("failed")
    /\ AfterUndo
    /\ UNCHANGED <<boot, activityVars, runtime, port, store, deletion>>

\* Mutant of Restore: only the gate and the state are rolled back.
RestoreStateOnly ==
    /\ Pc("restore")
    /\ GoTo("restored")
    /\ UNCHANGED <<active, boot, activityVars, runtimeVars>>

\* rollback_source: the source runs again if it ran before.
Restore ==
    /\ Pc("restore")
    /\ \/ /\ op.ran /\ ~IsRunning(op.source)
          /\ StartJob("activation", op.source)
          /\ GoTo("restoring")
       \/ /\ op.ran => IsRunning(op.source)
          /\ GoTo("restored")
          /\ UNCHANGED job
    /\ UNCHANGED <<active, boot, activityVars, runtime, port, store, deletion>>

SourceRestarted ==
    /\ Pc("restoring")
    /\ \/ JobDone("isRunning") /\ GoTo("restored")
       \/ (JobDone("notRunning") \/ JobDone("failed")) /\ GoTo("lost")
    /\ UNCHANGED <<active, boot, activityVars, runtime, port, store, deletion>>

Restored == Pc("restored") /\ GiveUp /\ UNCHANGED runtimeVars

\* Mutant of Lost: the gate of a source that cannot be restarted stays closed.
LostClosed ==
    /\ Pc("lost")
    /\ Transition(op.source, "Error")
    /\ Finish
    /\ UNCHANGED <<activityVars, boot, runtimeVars>>

Lost ==
    /\ Pc("lost")
    /\ Act!ClearDrain(op.source)
    /\ Transition(op.source, "Error")
    /\ Finish
    /\ UNCHANGED <<guards, boot, runtimeVars>>

OpStep == \/ Resume \/ Probe \/ CloseGate \/ CheckGate \/ Refused \/ Granted
          \/ SourceStopped \/ SourceNotStopped \/ Stopped
          \/ Launch \/ Started \/ NotStarted \/ Save \/ NotSaved \/ Reopen
          \/ Undo \/ Undone \/ Restore \/ SourceRestarted \/ Restored \/ Lost

Request == \E w \in Workspace : \/ \E force \in BOOLEAN : Activate(w, force)
                                \/ Deactivate(w)

-----------------------------------------------------------------------------
(* auto_start_configured_mcp, once, without the lock.                      *)

BootStart ==
    /\ boot.pc = "idle"
    /\ \E w \in BootChoice \cap store :
         \/ /\ IsRunning(w)
            /\ boot' = [pc |-> "done", ws |-> w]
            /\ UNCHANGED job
         \/ /\ ~IsRunning(w)
            /\ boot' = [pc |-> "starting", ws |-> w]
            /\ StartJob("boot", w)
    /\ UNCHANGED <<active, op, activityVars, runtime, port, store, deletion>>

BootEnd ==
    /\ boot.pc = "starting"
    /\ job["boot"].pc \in {"isRunning", "notRunning", "failed"}
    /\ boot' = [boot EXCEPT !.pc = "done"]
    /\ EndJob("boot")
    /\ \/ /\ job["boot"].pc = "failed"
          /\ MarkError(boot.ws)
          /\ Transition(boot.ws, "Error")
       \/ /\ job["boot"].pc # "failed"
          /\ SetActive(boot.ws)
          /\ UNCHANGED runtime
    /\ UNCHANGED <<op, activityVars, port, store, deletion>>

-----------------------------------------------------------------------------
(* The work and the probes.  A tool call needs the listener; the sessions  *)
(* of the desktop acquire their guards from any workspace.                 *)

Work == \/ \E g \in Guard, w \in Workspace :
             \/ port = w /\ IsRunning(w) /\ Act!AddGuard(g, w, "mcp")
             \/ w \in store /\ Act!AddGuard(g, w, "operation")
        \/ \E g \in Guard : Act!DropGuard(g)

StatusProbe(w) == /\ Act!SetProviderActivity(w, Unseen, TRUE)
                  /\ UNCHANGED guards

-----------------------------------------------------------------------------
Init == /\ RuntimeInit
        /\ inner = [w \in {} |-> Act!Default]
        /\ guards = [g \in Guard |-> NoWork]
        /\ active = [ws |-> NoWs, phase |-> "None"]
        /\ op = NoOp
        /\ boot = [pc |-> IF BootChoice = {} THEN "done" ELSE "idle", ws |-> NoWs]

Next == \/ Request
        \/ OpStep
        \/ BootStart \/ BootEnd
        \/ (\E c \in Caller : JobStep(c)) /\ UNCHANGED <<activityVars, controlVars>>
        \/ RuntimeEnv /\ UNCHANGED <<activityVars, controlVars>>
        \/ Work /\ UNCHANGED <<controlVars, runtimeVars>>
        \/ (\E w \in Workspace : StatusProbe(w)) /\ UNCHANGED <<controlVars, runtimeVars>>

\* Every task is polled; a listener told to stop does, or is aborted.  Nothing
\* is assumed of the work, of the user or of other programs.
Fairness == /\ WF_vars(OpStep)
            /\ \A c \in Caller : WF_vars(JobStep(c) /\ UNCHANGED <<activityVars, controlVars>>)
            /\ \A w \in Workspace :
                 WF_vars(CloseListener(w) /\ UNCHANGED <<activityVars, controlVars>>)

Spec == Init /\ [][Next]_vars
FairSpec == Spec /\ Fairness

-----------------------------------------------------------------------------
TypeOK == /\ RuntimeTypeOK
          /\ Act!TypeOK
          /\ active \in [ws : Workspace \cup {NoWs}, phase : ActivePhase]
          /\ op \in Ops
          /\ boot \in [pc : {"idle", "starting", "done"}, ws : Workspace \cup {NoWs}]

\* The procedures use the coordinator as Activity prescribes: one drain at a
\* time, and on every exit, success, refusal, failure or rollback, the gate
\* that was closed is opened.  With Activity's theorems: no service is left
\* or stopped for a switch while work of that workspace is in progress.
ImplementsActivity == Act!Spec

Quiescent == op.pc = "idle" /\ boot.pc = "done" /\ deletion.pc = "idle"

\* A workspace whose service runs is the active one, whatever failed and was
\* rolled back: two are never served, and none is served unnoticed.
ServedIsActive ==
    Quiescent => \A w \in Workspace : IsRunning(w) => active.ws = w

\* A call that makes a workspace the active one leaves it served, although a
\* start reports success when its listener could not be spawned.
ActivatedIsServed ==
    [][Pc("save") /\ active'.phase = "Active" /\ active' # active
          => IsRunning(active.ws)']_vars

\* A rollback that reports success has the source running again if it was
\* running when the switch or restart began.
RollbackRestores == Pc("restored") /\ op.ran => IsRunning(op.source)

\* What a call reports of the services is so: a switch that succeeds has its
\* target served, a rollback that succeeds has the source as it was.
ReportsAreTrue == []RollbackRestores /\ ActivatedIsServed

\* Every call ends, and the lock is released.
CallEnds == ~Pc("idle") ~> Pc("idle")

\* A gate that was closed is opened again.
GateReopens == \A w \in Workspace : Act!Draining(w) ~> ~Act!Draining(w)
=============================================================================
