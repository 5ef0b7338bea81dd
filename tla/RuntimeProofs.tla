---------------------------- MODULE RuntimeProofs ----------------------------
(***************************************************************************)
(* Proofs about the MCP service of RuntimeService, for any number of       *)
(* workspaces and callers: the types, that a running entry owns the port,  *)
(* and that no entry is left refusing starts.                              *)
(***************************************************************************)
EXTENDS RuntimeService, TLAPS

\* A procedure and a deletion in progress name their workspace.
JobsNameWorkspace == \A c \in Caller : job[c].pc # "idle" => Ws(c) \in Workspace
DeletionIsAllowed == deletion.pc # "idle" => deletion.ws \in Deletable

IInv == RuntimeTypeOK /\ JobsNameWorkspace /\ DeletionIsAllowed

\* The procedures in jobs2 are those of jobs, at other steps.
SamePlaces(jobs, jobs2) == \A c \in Caller : /\ jobs2[c].ws = jobs[c].ws
                                             /\ jobs2[c].pc = jobs[c].pc

-----------------------------------------------------------------------------
(* Changes of the table of jobs                                            *)

\* Moving a procedure to another step keeps the table well formed.
LEMMA GotoKeepsJobs ==
    ASSUME IInv, NEW c \in Caller, NEW pc \in Step \cup Result,
           job[c].pc # "idle", Goto(c, pc)
    PROVE  /\ job' \in [Caller -> Jobs]
           /\ JobsNameWorkspace'
BY DEF IInv, RuntimeTypeOK, JobsNameWorkspace, Goto, Jobs, Ws

\* Waking the callers that await a listener changes neither step nor workspace.
LEMMA WokenKeepsJobs ==
    ASSUME NEW jobs \in [Caller -> Jobs]
    PROVE  /\ Woken(jobs) \in [Caller -> Jobs]
           /\ SamePlaces(jobs, Woken(jobs))
BY DEF Woken, Jobs, SamePlaces

LEMMA WokenKeepsInvariant ==
    ASSUME NEW jobs \in [Caller -> Jobs], job' = Woken(jobs),
           \A c \in Caller : jobs[c].pc # "idle" => jobs[c].ws \in Workspace
    PROVE  job' \in [Caller -> Jobs] /\ JobsNameWorkspace'
BY WokenKeepsJobs DEF SamePlaces, JobsNameWorkspace, Ws

\* The same after the procedure of c moved on.
LEMMA WokenAfterMove ==
    ASSUME IInv, NEW c \in Caller, NEW pc \in Step \cup Result,
           job[c].pc # "idle", job' = Woken([job EXCEPT ![c].pc = pc])
    PROVE  job' \in [Caller -> Jobs] /\ JobsNameWorkspace'
<1> DEFINE jobs == [job EXCEPT ![c].pc = pc]
<1>1. jobs \in [Caller -> Jobs]
  BY DEF IInv, RuntimeTypeOK, Jobs
<1>2. \A d \in Caller : jobs[d].pc # "idle" => jobs[d].ws \in Workspace
  BY DEF IInv, RuntimeTypeOK, JobsNameWorkspace, Ws, Jobs
<1> HIDE DEF jobs
<1>3. job' = Woken(jobs)
  BY DEF jobs
<1> QED
  BY <1>1, <1>2, <1>3, WokenKeepsInvariant

-----------------------------------------------------------------------------
(* Type correctness                                                        *)

LEMMA InitInvariant == RuntimeInit => IInv
BY DEF RuntimeInit, IInv, RuntimeTypeOK, JobsNameWorkspace, DeletionIsAllowed,
       Phase, Jobs, NoJob, Ws

\* A step that changes only what the procedures share.
LEMMA JobStepInvariant == ASSUME IInv, NEW c \in Caller, JobStep(c)
                          PROVE  IInv'
<1> USE DEF At
<1>0. /\ runtime \in [Workspace -> Phase] /\ port \in Workspace \cup {Free, Foreign}
      /\ store \subseteq Workspace /\ job \in [Caller -> Jobs]
  BY DEF IInv, RuntimeTypeOK
<1>ws. ASSUME job[c].pc # "idle" PROVE Ws(c) \in Workspace
  BY <1>ws DEF IInv, JobsNameWorkspace
<1>del. ASSUME UNCHANGED deletion
        PROVE  /\ DeletionIsAllowed'
               /\ deletion' \in [pc : {"idle", "drop", "remove"}, ws : Workspace \cup {NoWs}]
  BY <1>del DEF IInv, RuntimeTypeOK, DeletionIsAllowed
<1>1. CASE CheckPort(c)
  <2>1. port' \in Workspace \cup {Free, Foreign}
    BY <1>1, <1>0 DEF CheckPort, Reclaim
  <2>2. job' \in [Caller -> Jobs] /\ JobsNameWorkspace'
    <3>1. CASE Goto(c, "spawn") \/ Goto(c, "failed")
      BY <1>1, <3>1, GotoKeepsJobs DEF CheckPort, Step, Result
    <3>2. CASE Reclaim(c, "spawn")
      BY <1>1, <3>2, WokenAfterMove DEF CheckPort, Reclaim, Step
    <3> QED BY <1>1, <3>1, <3>2 DEF CheckPort
  <2> QED BY <1>1, <1>0, <1>del, <2>1, <2>2 DEF CheckPort, IInv, RuntimeTypeOK
<1>2. CASE Spawn(c)
  <2>1. runtime' \in [Workspace -> Phase] /\ port' \in Workspace \cup {Free, Foreign}
    BY <1>2, <1>0, <1>ws DEF Spawn, Phase
  <2>2. job' \in [Caller -> Jobs] /\ JobsNameWorkspace'
    <3>1. CASE Goto(c, "routes") \/ Goto(c, "failed")
      BY <1>2, <3>1, GotoKeepsJobs DEF Spawn, Step, Result
    <3>2. CASE job' = Woken([job EXCEPT ![c].pc = "routes"])
      BY <1>2, <3>2, WokenAfterMove DEF Spawn, Step
    <3> QED BY <1>2, <3>1, <3>2 DEF Spawn
  <2> QED BY <1>2, <1>0, <1>del, <2>1, <2>2 DEF Spawn, IInv, RuntimeTypeOK
<1>3. CASE Routes(c)
  <2>1. job' \in [Caller -> Jobs] /\ JobsNameWorkspace'
    <3>1. CASE Goto(c, "verify") \/ Goto(c, "failed")
      BY <1>3, <3>1, GotoKeepsJobs DEF Routes, Step, Result
    <3>2. CASE job' = [job EXCEPT ![c].pc = "begin", ![c].inStart = TRUE]
      BY <1>3, <3>2, <1>0, <1>ws DEF Routes, Jobs, Step, JobsNameWorkspace, Ws, IInv
    <3> QED BY <1>3, <3>1, <3>2 DEF Routes
  <2> QED BY <1>3, <1>0, <1>del, <2>1 DEF Routes, IInv, RuntimeTypeOK
<1>4. CASE Verify(c)
  <2>1. job' \in [Caller -> Jobs] /\ JobsNameWorkspace'
    BY <1>4, GotoKeepsJobs DEF Verify, Step, Result
  <2> QED BY <1>4, <1>0, <1>del, <2>1 DEF Verify, IInv, RuntimeTypeOK
<1>5. CASE BeginStop(c)
  <2>1. runtime' \in [Workspace -> Phase]
    BY <1>5, <1>0, <1>ws DEF BeginStop, Phase
  <2>2. job' \in [Caller -> Jobs] /\ JobsNameWorkspace'
    <3>1. CASE Ws(c) \notin store
      <4>1. Goto(c, "mark") \/ Goto(c, "failed")
        BY <1>5, <3>1 DEF BeginStop
      <4> QED BY <1>5, <4>1, GotoKeepsJobs DEF BeginStop, Step, Result
    <3>2. CASE job' = [job EXCEPT ![c].pc = "await",
                                  ![c].awaits = IsRunning(Ws(c)) /\ port = Ws(c)]
      <4> DEFINE took == IsRunning(Ws(c)) /\ port = Ws(c)
      <4>1. took \in BOOLEAN
        BY DEF IsRunning
      <4>2. job' = [job EXCEPT ![c].pc = "await", ![c].awaits = took]
        BY <3>2
      <4>3. job[c].pc # "idle"
        BY <1>5 DEF BeginStop
      <4> HIDE DEF took
      <4>4. job' \in [Caller -> Jobs]
        BY <4>1, <4>2, <1>0 DEF Jobs, Step
      <4>5. SamePlaces([job EXCEPT ![c].pc = "await"], job')
        BY <4>2, <1>0 DEF SamePlaces, Jobs
      <4>6. JobsNameWorkspace'
        BY <4>3, <4>5, <1>0, <1>ws DEF SamePlaces, JobsNameWorkspace, Ws, IInv, Jobs
      <4> QED BY <4>4, <4>6
    <3> QED BY <1>5, <3>1, <3>2 DEF BeginStop
  <2> QED BY <1>5, <1>0, <1>del, <2>1, <2>2 DEF BeginStop, IInv, RuntimeTypeOK
<1>6. CASE AwaitListener(c)
  <2>1. port' \in Workspace \cup {Free, Foreign}
    BY <1>6, <1>0 DEF AwaitListener, Reclaim
  <2>2. job' \in [Caller -> Jobs] /\ JobsNameWorkspace'
    <3>1. CASE Goto(c, "finish")
      BY <1>6, <3>1, GotoKeepsJobs DEF AwaitListener, Step
    <3>2. CASE Reclaim(c, "finish")
      BY <1>6, <3>2, WokenAfterMove DEF AwaitListener, Reclaim, Step
    <3> QED BY <1>6, <3>1, <3>2 DEF AwaitListener
  <2> QED BY <1>6, <1>0, <1>del, <2>1, <2>2 DEF AwaitListener, IInv, RuntimeTypeOK
<1>7. CASE FinishStop(c)
  <2>1. job' \in [Caller -> Jobs] /\ JobsNameWorkspace'
    BY <1>7, GotoKeepsJobs DEF FinishStop, Step
  <2>2. runtime' \in [Workspace -> Phase]
    BY <1>7, <1>0 DEF FinishStop, Phase
  <2> QED BY <1>7, <1>0, <1>del, <2>1, <2>2 DEF FinishStop, IInv, RuntimeTypeOK
<1>8. CASE Detach(c)
  <2>1. Goto(c, "mark") \/ Goto(c, "stopped") \/ Goto(c, "failed")
    BY <1>8 DEF Detach
  <2>2. job' \in [Caller -> Jobs] /\ JobsNameWorkspace'
    BY <1>8, <2>1, GotoKeepsJobs DEF Detach, Step, Result
  <2> QED BY <1>8, <1>0, <1>del, <2>2 DEF Detach, IInv, RuntimeTypeOK
<1>9. CASE MarkFailedStart(c)
  <2>1. job' \in [Caller -> Jobs] /\ JobsNameWorkspace'
    BY <1>9, GotoKeepsJobs DEF MarkFailedStart, Result
  <2>2. runtime' \in [Workspace -> Phase]
    BY <1>9, <1>0 DEF MarkFailedStart, MarkError, Phase
  <2> QED BY <1>9, <1>0, <1>del, <2>1, <2>2 DEF MarkFailedStart, IInv, RuntimeTypeOK
<1> QED
  BY <1>1, <1>2, <1>3, <1>4, <1>5, <1>6, <1>7, <1>8, <1>9 DEF JobStep

\* A listener that ends leaves the procedures where they were.
LEMMA ListenerEndKeepsJobs ==
    ASSUME IInv, ListenerEnds
    PROVE  /\ port' \in Workspace \cup {Free, Foreign}
           /\ job' \in [Caller -> Jobs] /\ JobsNameWorkspace'
BY WokenKeepsInvariant DEF IInv, RuntimeTypeOK, ListenerEnds, JobsNameWorkspace, Ws

LEMMA EnvStepInvariant == ASSUME IInv, RuntimeEnv
                          PROVE  IInv'
<1> USE DEF At
<1>0. /\ runtime \in [Workspace -> Phase] /\ port \in Workspace \cup {Free, Foreign}
      /\ store \subseteq Workspace /\ job \in [Caller -> Jobs]
      /\ deletion \in [pc : {"idle", "drop", "remove"}, ws : Workspace \cup {NoWs}]
  BY DEF IInv, RuntimeTypeOK
<1>jobs. ASSUME UNCHANGED job PROVE job' \in [Caller -> Jobs] /\ JobsNameWorkspace'
  BY <1>jobs DEF IInv, RuntimeTypeOK, JobsNameWorkspace, Ws
<1>del. ASSUME UNCHANGED deletion
        PROVE  /\ DeletionIsAllowed'
               /\ deletion' \in [pc : {"idle", "drop", "remove"}, ws : Workspace \cup {NoWs}]
  BY <1>del DEF IInv, RuntimeTypeOK, DeletionIsAllowed
<1>1. ASSUME NEW w \in Workspace, CloseListener(w) \/ ListenerDies(w)
      PROVE  IInv'
  BY <1>1, <1>0, <1>del, ListenerEndKeepsJobs
     DEF CloseListener, ListenerDies, IInv, RuntimeTypeOK
<1>2. ASSUME NEW w \in Workspace, Refresh(w) PROVE IInv'
  BY <1>2, <1>0, <1>jobs, <1>del DEF Refresh, MarkError, Phase, IInv, RuntimeTypeOK
<1>3. ASSUME NEW w \in Workspace, BeginDelete(w) PROVE IInv'
  <2>1. /\ deletion' \in [pc : {"idle", "drop", "remove"}, ws : Workspace \cup {NoWs}]
        /\ DeletionIsAllowed'
    BY <1>3 DEF BeginDelete, DeletionIsAllowed
  <2> QED BY <1>3, <1>0, <1>jobs, <2>1 DEF BeginDelete, IInv, RuntimeTypeOK
<1>4. CASE ForeignBinds \/ ForeignLeaves
  BY <1>4, <1>0, <1>jobs, <1>del DEF ForeignBinds, ForeignLeaves, IInv, RuntimeTypeOK
<1>5. CASE DropWorkspace
  <2>1. runtime' \in [Workspace -> Phase]
    BY <1>5, <1>0 DEF DropWorkspace, Phase
  <2>2. /\ port' \in Workspace \cup {Free, Foreign}
        /\ job' \in [Caller -> Jobs] /\ JobsNameWorkspace'
    <3>1. CASE ListenerEnds
      BY <3>1, ListenerEndKeepsJobs
    <3>2. CASE UNCHANGED <<port, job>>
      BY <3>2, <1>0, <1>jobs
    <3> QED BY <1>5, <3>1, <3>2 DEF DropWorkspace
  <2>3. /\ deletion' \in [pc : {"idle", "drop", "remove"}, ws : Workspace \cup {NoWs}]
        /\ DeletionIsAllowed'
    BY <1>5, <1>0 DEF DropWorkspace, IInv, DeletionIsAllowed
  <2> QED BY <1>5, <1>0, <2>1, <2>2, <2>3 DEF DropWorkspace, IInv, RuntimeTypeOK
<1>6. CASE RemoveProfile \/ AbortDelete
  <2>1. /\ deletion' \in [pc : {"idle", "drop", "remove"}, ws : Workspace \cup {NoWs}]
        /\ DeletionIsAllowed'
    BY <1>6 DEF RemoveProfile, AbortDelete, DeletionIsAllowed
  <2> QED
    BY <1>6, <1>0, <1>jobs, <2>1 DEF RemoveProfile, AbortDelete, IInv, RuntimeTypeOK
<1> QED
  BY <1>1, <1>2, <1>3, <1>4, <1>5, <1>6 DEF RuntimeEnv

\* Putting a well-formed record in the place of a procedure keeps the table.
LEMMA PutKeepsJobs ==
    ASSUME IInv, NEW c \in Caller, NEW j \in Jobs, job' = [job EXCEPT ![c] = j],
           j.pc # "idle" => j.ws \in Workspace
    PROVE  job' \in [Caller -> Jobs] /\ JobsNameWorkspace'
<1>1. job \in [Caller -> Jobs]
  BY DEF IInv, RuntimeTypeOK
<1>2. job' \in [Caller -> Jobs]
  BY <1>1
<1>3. ASSUME NEW d \in Caller, job'[d].pc # "idle" PROVE job'[d].ws \in Workspace
  <2>1. CASE d = c
    BY <1>1, <1>3, <2>1
  <2>2. CASE d # c
    BY <1>1, <1>3, <2>2 DEF IInv, JobsNameWorkspace, Ws
  <2> QED BY <2>1, <2>2
<1> QED
  BY <1>2, <1>3 DEF JobsNameWorkspace, Ws

LEMMA CallStepInvariant == ASSUME IInv, NEW c \in Caller, Call(c) \/ Return(c)
                           PROVE  IInv'
<1> DEFINE called(w, pc) == [NoJob EXCEPT !.pc = pc, !.ws = w]
<1>1. ASSUME NEW w \in Workspace, NEW pc \in {"check", "begin"}
      PROVE  /\ called(w, pc) \in Jobs
             /\ called(w, pc).ws = w
  BY <1>1 DEF NoJob, Jobs, Step
<1>2. job' \in [Caller -> Jobs] /\ JobsNameWorkspace'
  <2>1. ASSUME NEW w \in Workspace, NEW pc \in {"check", "begin"},
               job' = [job EXCEPT ![c] = called(w, pc)]
        PROVE  job' \in [Caller -> Jobs] /\ JobsNameWorkspace'
    <3>1. called(w, pc) \in Jobs /\ called(w, pc).ws \in Workspace
      BY <1>1
    <3> HIDE DEF called
    <3> QED BY <2>1, <3>1, PutKeepsJobs
  <2>2. ASSUME NEW w \in Workspace, StartJob(c, w) \/ StopJob(c, w)
        PROVE  job' \in [Caller -> Jobs] /\ JobsNameWorkspace'
    <3>1. job' = [job EXCEPT ![c] = called(w, "check")]
             \/ job' = [job EXCEPT ![c] = called(w, "begin")]
      BY <2>2 DEF StartJob, StopJob
    <3> HIDE DEF called
    <3> QED BY <2>1, <3>1
  <2>3. CASE EndJob(c)
    <3>1. NoJob \in Jobs /\ NoJob.pc = "idle"
      BY DEF NoJob, Jobs
    <3>2. job' = [job EXCEPT ![c] = NoJob]
      BY <2>3 DEF EndJob
    <3> QED BY <3>1, <3>2, PutKeepsJobs
  <2> QED BY <2>2, <2>3 DEF Call, Return
<1> QED
  BY <1>2 DEF Call, Return, IInv, RuntimeTypeOK, DeletionIsAllowed

LEMMA StepInvariant == IInv /\ [RuntimeNext]_runtimeVars => IInv'
<1> SUFFICES ASSUME IInv, [RuntimeNext]_runtimeVars PROVE IInv'
  OBVIOUS
<1>1. CASE UNCHANGED runtimeVars
  BY <1>1 DEF runtimeVars, IInv, RuntimeTypeOK, JobsNameWorkspace, DeletionIsAllowed, Ws
<1>2. CASE RuntimeNext
  BY <1>2, JobStepInvariant, EnvStepInvariant, CallStepInvariant DEF RuntimeNext
<1> QED BY <1>1, <1>2

\* The service's state is well typed, whatever callers, status refreshes and
\* deletions do, and every procedure and deletion in progress has a workspace.
THEOREM RuntimeTypeCorrect == RuntimeSpec => []RuntimeTypeOK
<1>1. IInv => RuntimeTypeOK
  BY DEF IInv
<1> QED BY <1>1, InitInvariant, StepInvariant, PTL DEF RuntimeSpec

-----------------------------------------------------------------------------
(* A running entry owns the port                                           *)

\* The assumptions of the run `activation`: listeners end only when told to, and
\* the platform does not close ports of its own process.
ListenersAreKept == "listener" \notin Faults /\ Reclaims = FALSE

\* While nobody of the workspaces holds the port, no entry is running.
LEMMA NobodyRunning == ASSUME RunningOwnsPort, port \notin Workspace
                       PROVE  \A w \in Workspace : ~IsRunning(w)
BY DEF RunningOwnsPort

LEMMA FreeIsNobody == Free \notin Workspace /\ Foreign \notin Workspace
BY RuntimeAssumption

LEMMA JobKeepsOwner ==
    ASSUME IInv, RunningOwnsPort, ListenersAreKept, NEW c \in Caller, JobStep(c)
    PROVE  RunningOwnsPort'
<1> USE DEF ListenersAreKept, At
<1>0. runtime \in [Workspace -> Phase] /\ (job[c].pc # "idle" => Ws(c) \in Workspace)
  BY DEF IInv, RuntimeTypeOK, JobsNameWorkspace
<1>1. CASE UNCHANGED <<runtime, port>>
  BY <1>1 DEF RunningOwnsPort, IsRunning
<1>2. CASE Spawn(c)
  <2>1. CASE UNCHANGED <<runtime, port>>
    BY <2>1, <1>1
  <2>2. CASE UNCHANGED port /\ \E p \in {"starting", "none"} : runtime' = [runtime EXCEPT ![Ws(c)] = p]
    BY <2>2, <1>0, <1>2 DEF Spawn, RunningOwnsPort, IsRunning
  <2>3. CASE port = Free /\ \/ runtime' = [runtime EXCEPT ![Ws(c)] = "running"] /\ port' = Ws(c)
                            \/ runtime' = [runtime EXCEPT ![Ws(c)] = "error"]
    <3>1. \A w \in Workspace : runtime[w] # "running"
      BY <2>3, FreeIsNobody, NobodyRunning DEF IsRunning
    <3> QED BY <2>3, <3>1, <1>0, <1>2 DEF Spawn, RunningOwnsPort, IsRunning
  <2> QED BY <1>2, <2>1, <2>2, <2>3 DEF Spawn
<1>3. CASE BeginStop(c) \/ FinishStop(c) \/ MarkFailedStart(c)
  BY <1>3, <1>0 DEF BeginStop, FinishStop, MarkFailedStart, MarkError, RunningOwnsPort, IsRunning
<1>4. CASE CheckPort(c) \/ AwaitListener(c)
  BY <1>1, <1>4 DEF CheckPort, AwaitListener, Reclaim
<1>5. CASE Routes(c) \/ Verify(c) \/ Detach(c)
  BY <1>1, <1>5 DEF Routes, Verify, Detach
<1> QED
  BY <1>2, <1>3, <1>4, <1>5 DEF JobStep

LEMMA EnvKeepsOwner ==
    ASSUME IInv, RunningOwnsPort, ListenersAreKept, RuntimeEnv
    PROVE  RunningOwnsPort'
<1> USE DEF ListenersAreKept
<1>0. runtime \in [Workspace -> Phase] /\ deletion.ws \in Workspace \cup {NoWs}
  BY DEF IInv, RuntimeTypeOK
<1>1. ASSUME NEW w \in Workspace, CloseListener(w) PROVE RunningOwnsPort'
  BY <1>1 DEF CloseListener, Closing, RunningOwnsPort, IsRunning
<1>2. ASSUME NEW w \in Workspace, ListenerDies(w) PROVE RunningOwnsPort'
  BY <1>2 DEF ListenerDies
<1>3. ASSUME NEW w \in Workspace, Refresh(w) PROVE RunningOwnsPort'
  BY <1>0, <1>3 DEF Refresh, MarkError, RunningOwnsPort, IsRunning
<1>4. CASE (\E w \in Workspace : BeginDelete(w)) \/ RemoveProfile \/ AbortDelete
  BY <1>4 DEF BeginDelete, RemoveProfile, AbortDelete, RunningOwnsPort, IsRunning
<1>5. CASE ForeignBinds \/ ForeignLeaves
  BY <1>5, FreeIsNobody, NobodyRunning
     DEF ForeignBinds, ForeignLeaves, RunningOwnsPort, IsRunning
<1>6. CASE DropWorkspace
  <2>1. \A v \in Workspace : runtime'[v] = "running" => runtime[v] = "running" /\ v # deletion.ws
    BY <1>0, <1>6 DEF DropWorkspace
  <2>2. CASE port' = port
    BY <2>1, <2>2 DEF RunningOwnsPort, IsRunning
  <2>3. CASE port = deletion.ws \/ \E v \in Workspace : Closing(v)
    <3>1. \A v \in Workspace : runtime'[v] # "running"
      BY <2>1, <2>3 DEF Closing, RunningOwnsPort, IsRunning
    <3> QED BY <3>1 DEF RunningOwnsPort, IsRunning
  <2> QED BY <1>6, <2>2, <2>3 DEF DropWorkspace
<1> QED
  BY <1>1, <1>2, <1>3, <1>4, <1>5, <1>6 DEF RuntimeEnv

\* A running entry is the one whose listener holds the port, whatever the two
\* long procedures of starting and stopping, the status refreshes and the
\* deletions do between each other's awaits (runtime/supervisor.rs, start).
THEOREM RunningIsOwner == ASSUME ListenersAreKept PROVE RuntimeSpec => []RunningOwnsPort
<1>1. RuntimeInit => RunningOwnsPort
  BY DEF RuntimeInit, RunningOwnsPort, IsRunning
<1>2. IInv /\ RunningOwnsPort /\ [RuntimeNext]_runtimeVars => RunningOwnsPort'
  <2> SUFFICES ASSUME IInv, RunningOwnsPort, [RuntimeNext]_runtimeVars
               PROVE  RunningOwnsPort'
    OBVIOUS
  <2>1. CASE UNCHANGED <<runtime, port>>
    BY <2>1 DEF RunningOwnsPort, IsRunning
  <2>2. CASE \E c \in Caller : JobStep(c)
    BY <2>2, JobKeepsOwner
  <2>3. CASE RuntimeEnv
    BY <2>3, EnvKeepsOwner
  <2> QED
    BY <2>1, <2>2, <2>3 DEF RuntimeNext, Call, Return, runtimeVars
<1> QED BY <1>1, <1>2, InitInvariant, StepInvariant, PTL DEF RuntimeSpec

-----------------------------------------------------------------------------
(* An entry that is being stopped is removed                               *)

\* The procedures that are about to remove the entry of w.
Removing(w) == {c \in Caller : Ws(c) = w /\ job[c].pc \in {"await", "finish"}}

\* Entries other than those of S stay as they are or leave "stopping", and the
\* procedures about to remove them are not disturbed.
LEMMA StoppersStay ==
    ASSUME StoppingIsBeingStopped, NEW S \in SUBSET Workspace,
           \A w \in Workspace \ S : runtime'[w] = "stopping" => runtime[w] = "stopping",
           \A w \in Workspace \ S : Removing(w) \subseteq Removing(w)',
           \A w \in S : runtime'[w] = "stopping" => Removing(w)' # {}
    PROVE  StoppingIsBeingStopped'
<1>1. ASSUME NEW w \in Workspace, runtime'[w] = "stopping" PROVE Removing(w)' # {}
  <2>1. CASE w \in S
    BY <1>1, <2>1
  <2>2. CASE w \notin S
    BY <1>1, <2>2 DEF StoppingIsBeingStopped, Removing
  <2> QED BY <2>1, <2>2
<1> QED BY <1>1 DEF StoppingIsBeingStopped, Removing

\* A step that moves one procedure, wakes others or calls and returns removes
\* no procedure from await and finish but the one it moves.
LEMMA GotoKeepsOthers ==
    ASSUME IInv, NEW c \in Caller, NEW pc \in Step \cup Result,
           Goto(c, pc) \/ job' = Woken([job EXCEPT ![c].pc = pc])
    PROVE  /\ \A d \in Caller \ {c} : job'[d].pc = job[d].pc /\ job'[d].ws = job[d].ws
           /\ job'[c].pc = pc /\ job'[c].ws = job[c].ws
<1>1. job \in [Caller -> Jobs]
  BY DEF IInv, RuntimeTypeOK
<1>2. CASE Goto(c, pc)
  BY <1>1, <1>2 DEF Goto, Jobs
<1>3. CASE job' = Woken([job EXCEPT ![c].pc = pc])
  <2>1. [job EXCEPT ![c].pc = pc] \in [Caller -> Jobs]
    BY <1>1 DEF Jobs
  <2>2. SamePlaces([job EXCEPT ![c].pc = pc], job')
    BY <1>3, <2>1, WokenKeepsJobs
  <2> QED BY <1>1, <2>2 DEF SamePlaces, Jobs
<1> QED BY <1>2, <1>3

LEMMA JobKeepsStoppers ==
    ASSUME IInv, StoppingIsBeingStopped, NEW c \in Caller, JobStep(c)
    PROVE  StoppingIsBeingStopped'
<1> USE DEF At
<1>0. runtime \in [Workspace -> Phase] /\ (job[c].pc # "idle" => Ws(c) \in Workspace)
  BY DEF IInv, RuntimeTypeOK, JobsNameWorkspace
<1>1. ASSUME NEW pc \in Step \cup Result, job[c].pc \notin {"await", "finish", "idle"},
             Goto(c, pc) \/ job' = Woken([job EXCEPT ![c].pc = pc]),
             \A w \in Workspace : runtime'[w] = "stopping" => runtime[w] = "stopping"
      PROVE  StoppingIsBeingStopped'
  <2>1. \A w \in Workspace : Removing(w) \subseteq Removing(w)'
    BY <1>1, GotoKeepsOthers DEF Removing, Ws
  <2> QED BY <1>1, <2>1, StoppersStay
<1>2. CASE CheckPort(c)
  BY <1>1, <1>2 DEF CheckPort, Reclaim, Step, Result
<1>3. CASE Spawn(c)
  <2>1. \A w \in Workspace : runtime'[w] = "stopping" => runtime[w] = "stopping"
    BY <1>0, <1>3 DEF Spawn
  <2>2. \E pc \in {"routes", "failed"} : \/ Goto(c, pc)
                                         \/ job' = Woken([job EXCEPT ![c].pc = pc])
    BY <1>3 DEF Spawn
  <2> QED BY <1>1, <1>3, <2>1, <2>2 DEF Spawn, Step, Result
<1>4. CASE Routes(c)
  <2>1. CASE job' = [job EXCEPT ![c].pc = "begin", ![c].inStart = TRUE]
    <3>1. \A d \in Caller : job'[d].ws = job[d].ws /\ (d # c => job'[d].pc = job[d].pc)
      BY <2>1 DEF IInv, RuntimeTypeOK, Jobs
    <3>2. \A w \in Workspace : Removing(w) \subseteq Removing(w)'
      BY <1>4, <3>1 DEF Routes, Removing, Ws
    <3> QED BY <1>4, <3>2, StoppersStay DEF Routes
  <2>2. CASE Goto(c, "verify") \/ Goto(c, "failed")
    BY <1>1, <1>4, <2>2 DEF Routes, Step, Result
  <2> QED BY <1>4, <2>1, <2>2 DEF Routes
<1>5. CASE Verify(c)
  BY <1>1, <1>5 DEF Verify, Step, Result
<1>6. CASE BeginStop(c)
  <2>1. CASE Ws(c) \notin store
    <3>1. Goto(c, "mark") \/ Goto(c, "failed")
      BY <1>6, <2>1 DEF BeginStop
    <3> QED BY <1>1, <1>6, <2>1, <3>1 DEF BeginStop, Step, Result
  <2>2. CASE job' = [job EXCEPT ![c].pc = "await",
                                ![c].awaits = IsRunning(Ws(c)) /\ port = Ws(c)]
    <3>1. \A d \in Caller : job'[d].ws = job[d].ws /\ (d # c => job'[d].pc = job[d].pc)
      BY <2>2 DEF IInv, RuntimeTypeOK, Jobs
    <3>2. job'[c].pc = "await"
      BY <2>2 DEF IInv, RuntimeTypeOK, Jobs
    <3>3. \A w \in Workspace : Removing(w) \subseteq Removing(w)'
      BY <1>6, <3>1 DEF BeginStop, Removing, Ws
    <3>4. PICK v \in Workspace : v = Ws(c)
      BY <1>0, <1>6 DEF BeginStop
    <3>5. \A w \in Workspace \ {v} : runtime'[w] = "stopping" => runtime[w] = "stopping"
      BY <1>0, <1>6, <3>4 DEF BeginStop
    <3>6. Removing(v)' # {}
      BY <3>1, <3>2, <3>4 DEF Removing, Ws
    <3> QED BY <3>3, <3>5, <3>6, StoppersStay
  <2> QED BY <1>6, <2>1, <2>2 DEF BeginStop
<1>7. CASE AwaitListener(c)
  <2>1. Goto(c, "finish") \/ job' = Woken([job EXCEPT ![c].pc = "finish"])
    BY <1>7 DEF AwaitListener, Reclaim
  <2>2. \A w \in Workspace : Removing(w) \subseteq Removing(w)'
    BY <1>7, <2>1, GotoKeepsOthers DEF Removing, Ws, Step
  <2> QED BY <1>7, <2>2, StoppersStay DEF AwaitListener
<1>8. CASE FinishStop(c)
  <2>1. PICK v \in Workspace : v = Ws(c)
    BY <1>0, <1>8 DEF FinishStop
  <2>2. \A w \in Workspace \ {v} : Removing(w) \subseteq Removing(w)'
    BY <1>8, <2>1, GotoKeepsOthers DEF FinishStop, Removing, Ws, Step
  <2>3. /\ \A w \in Workspace : runtime'[w] = "stopping" => runtime[w] = "stopping"
        /\ runtime'[v] # "stopping"
    BY <1>0, <1>8, <2>1 DEF FinishStop
  <2>4. \A w \in {v} : runtime'[w] = "stopping" => Removing(w)' # {}
    BY <2>3
  <2>5. {v} \in SUBSET Workspace
    OBVIOUS
  <2> QED BY <2>2, <2>3, <2>4, <2>5, StoppersStay
<1>9. CASE Detach(c)
  BY <1>1, <1>9 DEF Detach, Step, Result
<1>10. CASE MarkFailedStart(c)
  <2>1. \A w \in Workspace : runtime'[w] = "stopping" => runtime[w] = "stopping"
    BY <1>0, <1>10 DEF MarkFailedStart, MarkError
  <2> QED BY <1>1, <1>10, <2>1 DEF MarkFailedStart, Step, Result
<1> QED
  BY <1>2, <1>3, <1>4, <1>5, <1>6, <1>7, <1>8, <1>9, <1>10 DEF JobStep

\* What runs beside the procedures marks no entry "stopping" and moves no
\* procedure.
LEMMA EnvKeepsStoppers ==
    ASSUME IInv, StoppingIsBeingStopped, RuntimeEnv
    PROVE  StoppingIsBeingStopped'
<1>0. runtime \in [Workspace -> Phase] /\ job \in [Caller -> Jobs]
  BY DEF IInv, RuntimeTypeOK
<1>1. \A w \in Workspace : runtime'[w] = "stopping" => runtime[w] = "stopping"
  BY <1>0 DEF RuntimeEnv, CloseListener, ListenerDies, Refresh, MarkError, BeginDelete,
              ForeignBinds, ForeignLeaves, DropWorkspace, RemoveProfile, AbortDelete
<1>2. UNCHANGED job \/ job' = Woken(job)
  BY DEF RuntimeEnv, CloseListener, ListenerDies, Refresh, BeginDelete, ListenerEnds,
         ForeignBinds, ForeignLeaves, DropWorkspace, RemoveProfile, AbortDelete
<1>3. SamePlaces(job, job')
  BY <1>0, <1>2, WokenKeepsJobs DEF SamePlaces
<1>4. \A w \in Workspace : Removing(w) \subseteq Removing(w)'
  BY <1>3 DEF SamePlaces, Removing, Ws
<1> QED BY <1>1, <1>4, StoppersStay

\* An entry left at "stopping" would refuse every start of its workspace until
\* the application is restarted; there is none, for any number of workspaces
\* and callers (commands/runtime.rs, stop_mcp_service).
THEOREM NothingIsStuckStopping == RuntimeSpec => []StoppingIsBeingStopped
<1>1. RuntimeInit => StoppingIsBeingStopped
  BY DEF RuntimeInit, StoppingIsBeingStopped
<1>2. IInv /\ StoppingIsBeingStopped /\ [RuntimeNext]_runtimeVars => StoppingIsBeingStopped'
  <2> SUFFICES ASSUME IInv, StoppingIsBeingStopped, [RuntimeNext]_runtimeVars
               PROVE  StoppingIsBeingStopped'
    OBVIOUS
  <2>1. CASE UNCHANGED runtimeVars
    BY <2>1 DEF runtimeVars, StoppingIsBeingStopped, Ws
  <2>2. ASSUME NEW c \in Caller, Call(c) \/ Return(c) PROVE StoppingIsBeingStopped'
    <3>1. /\ job[c].pc \notin {"await", "finish"}
          /\ \A d \in Caller \ {c} : job'[d] = job[d]
          /\ UNCHANGED runtime
      BY <2>2 DEF Call, Return, At, StartJob, StopJob, EndJob, Result, IInv, RuntimeTypeOK
    <3>2. \A w \in Workspace : Removing(w) \subseteq Removing(w)'
      BY <3>1 DEF Removing, Ws
    <3> QED BY <3>1, <3>2, StoppersStay
  <2> QED
    BY <2>1, <2>2, JobKeepsStoppers, EnvKeepsStoppers DEF RuntimeNext
<1> QED BY <1>1, <1>2, InitInvariant, StepInvariant, PTL DEF RuntimeSpec
=============================================================================
