--------------------------- MODULE RuntimeService ---------------------------
(***************************************************************************)
(* The MCP service of a workspace: the runtime supervisor's table of       *)
(* entries (runtime/supervisor.rs), the one port every workspace's listener*)
(* binds (the global port of the application settings, runtime/port.rs)    *)
(* and the asynchronous start and stop procedures (commands/runtime.rs).   *)
(* A procedure is a job of its caller; between two of its awaits other     *)
(* jobs, status refreshes, deletions and the listeners themselves run.     *)
(*                                                                         *)
(* An entry that is dropped or overwritten drops the listener's shutdown   *)
(* sender with it, which shuts the listener down: so a listener closes when*)
(* its workspace's entry is not "running".                                 *)
(***************************************************************************)
EXTENDS Integers, FiniteSets

CONSTANTS Workspace,   \* workspace ids
          Caller,      \* who runs start and stop procedures
          Faults,      \* the kinds of failure that may happen
          Reclaims,    \* the platform can close a port of its own process
          Deletable,   \* the workspaces the user may delete
          Free,        \* the port has no listener
          Foreign,     \* the port is held by another program
          NoWs         \* no workspace

FaultKind == {"os",        \* asking the system who listens, or the key store
              "bind",      \* the path, the secret or the bind is refused
              "routes",    \* synchronizing routes or saving the public URL
              "tunnel",    \* starting the tunnel
              "detach",    \* stopping the tunnel
              "listener",  \* the listener dies by itself
              "foreign"}   \* another program binds the port

ASSUME RuntimeAssumption ==
    /\ Faults \subseteq FaultKind
    /\ Reclaims \in BOOLEAN
    /\ Deletable \subseteq Workspace
    /\ {Free, Foreign, NoWs} \cap Workspace = {}
    /\ Free # Foreign

VARIABLES runtime,   \* [Workspace -> phase of its entry; "none" if absent]
          port,      \* who listens on the port
          store,     \* the saved workspaces
          job,       \* [Caller -> the procedure it runs]
          deletion   \* the delete_workspace command in progress

runtimeVars == <<runtime, port, store, job, deletion>>

Phase == {"none", "starting", "running", "stopping", "error"}

Result == {"isRunning", "notRunning", "failed", "stopped"}
Step == {"check", "spawn", "routes", "verify", "begin", "await", "finish", "detach", "mark"}

\* `inStart`: a stop made by a start whose tunnel failed.
\* `awaits`: the stop took the handle of a listener that has not ended yet.
Jobs == [pc : Step \cup Result \cup {"idle"}, ws : Workspace \cup {NoWs},
         inStart : BOOLEAN, awaits : BOOLEAN]
NoJob == [pc |-> "idle", ws |-> NoWs, inStart |-> FALSE, awaits |-> FALSE]

RuntimeInit == /\ runtime = [w \in Workspace |-> "none"]
               /\ port \in {Free} \cup (IF "foreign" \in Faults THEN {Foreign} ELSE {})
               /\ store = Workspace
               /\ job = [c \in Caller |-> NoJob]
               /\ deletion = [pc |-> "idle", ws |-> NoWs]

IsRunning(w) == runtime[w] = "running"

\* Mutant of Closing: the running entry does not keep the shutdown sender.
ClosingAtOnce(w) == port = w

\* The listeners that have been told to stop, or lost their entry.
Closing(w) == port = w /\ ~IsRunning(w)

-----------------------------------------------------------------------------
Ws(c) == job[c].ws
At(c, pc) == job[c].pc = pc
Goto(c, pc) == job' = [job EXCEPT ![c].pc = pc]

StartJob(c, w) == job' = [job EXCEPT ![c] = [NoJob EXCEPT !.pc = "check", !.ws = w]]
StopJob(c, w)  == job' = [job EXCEPT ![c] = [NoJob EXCEPT !.pc = "begin", !.ws = w]]
EndJob(c)      == job' = [job EXCEPT ![c] = NoJob]

\* Mutant of ListenerEnds: nobody who awaits the listener is woken.
ListenerEndsUnseen == port' = Free /\ UNCHANGED job

\* The listener on the port ends, by itself or reclaimed: whoever took its
\* handle is woken.
Woken(jobs) == [c \in Caller |-> IF jobs[c].ws = port
                                 THEN [jobs[c] EXCEPT !.awaits = FALSE]
                                 ELSE jobs[c]]
ListenerEnds == port' = Free /\ job' = Woken(job)

Reclaim(c, pc) == /\ Reclaims
                  /\ port \in Workspace
                  /\ port' = Free
                  /\ job' = Woken([job EXCEPT ![c].pc = pc])

\* start_mcp_service up to ensure_port_available.  A port held by this very
\* process is waited for; when the wait times out it is reclaimed where the
\* platform can, whoever's listener it is.
CheckPort(c) ==
    /\ At(c, "check")
    /\ UNCHANGED <<runtime, store, deletion>>
    /\ \/ Ws(c) \in store /\ port = Free /\ Goto(c, "spawn") /\ UNCHANGED port
       \/ Ws(c) \in store /\ Reclaim(c, "spawn")
       \/ /\ \/ Ws(c) \notin store
             \/ "os" \in Faults
             \/ port = Foreign
             \/ port \in Workspace /\ ~Reclaims
          /\ Goto(c, "failed")
          /\ UNCHANGED port

\* RuntimeSupervisor::start, under the runtime lock.
Spawn(c) ==
    /\ At(c, "spawn")
    /\ UNCHANGED <<store, deletion>>
    /\ \/ /\ runtime[Ws(c)] \in {"running", "starting"}
          /\ Goto(c, "routes")
          /\ UNCHANGED <<runtime, port>>
       \/ /\ runtime[Ws(c)] = "stopping"
          /\ Goto(c, "failed")
          /\ UNCHANGED <<runtime, port>>
       \/ /\ runtime[Ws(c)] \in {"none", "error"}
          /\ \/ \* the early `?` returns keep the entry they inserted
                /\ "os" \in Faults
                /\ runtime' = [runtime EXCEPT ![Ws(c)] = "starting"]
                /\ Goto(c, "failed")
                /\ UNCHANGED port
             \/ \* busy, and still busy after the wait: the entry is removed
                /\ port # Free /\ ~(port \in Workspace /\ Reclaims)
                /\ runtime' = [runtime EXCEPT ![Ws(c)] = "none"]
                /\ Goto(c, "failed")
                /\ UNCHANGED port
             \/ \* free or reclaimed; spawn_listener binds before it returns
                /\ port = Free \/ (port \in Workspace /\ Reclaims)
                /\ runtime' = [runtime EXCEPT ![Ws(c)] = "running"]
                /\ port' = Ws(c)
                /\ job' = Woken([job EXCEPT ![c].pc = "routes"])
             \/ \* spawn_listener fails: an error entry, but no error returned
                /\ "bind" \in Faults
                /\ port = Free \/ (port \in Workspace /\ Reclaims)
                /\ runtime' = [runtime EXCEPT ![Ws(c)] = "error"]
                /\ port' = Free
                /\ job' = Woken([job EXCEPT ![c].pc = "routes"])

\* Routes and tunnel.  An error from the routes or from saving the URL leaves
\* the runtime as it is; an error from the tunnel stops it.
Routes(c) ==
    /\ At(c, "routes")
    /\ \/ Goto(c, "verify")
       \/ "routes" \in Faults /\ Goto(c, "failed")
       \/ "tunnel" \in Faults
            /\ job' = [job EXCEPT ![c].pc = "begin", ![c].inStart = TRUE]
    /\ UNCHANGED <<runtime, port, store, deletion>>

Verify(c) ==
    /\ At(c, "verify")
    /\ \/ Ws(c) \notin store /\ Goto(c, "failed")
       \/ Ws(c) \in store /\ Goto(c, IF IsRunning(Ws(c)) THEN "isRunning" ELSE "notRunning")
    /\ UNCHANGED <<runtime, port, store, deletion>>

\* stop_mcp_service up to begin_stop, which takes the handle if there is one.
BeginStop(c) ==
    /\ At(c, "begin")
    /\ \/ /\ Ws(c) \notin store
          /\ Goto(c, IF job[c].inStart THEN "mark" ELSE "failed")
          /\ UNCHANGED runtime
       \/ /\ Ws(c) \in store
          /\ job' = [job EXCEPT ![c].pc = "await",
                                ![c].awaits = IsRunning(Ws(c)) /\ port = Ws(c)]
          /\ runtime' = [runtime EXCEPT ![Ws(c)] = IF @ = "none" THEN @ ELSE "stopping"]
    /\ UNCHANGED <<port, store, deletion>>

\* Mutant of AwaitListener: a stop gives up when the port is not released.
AwaitOrGiveUp(c) ==
    /\ At(c, "await")
    /\ ~job[c].awaits
    /\ \/ port = Free /\ Goto(c, "finish") /\ UNCHANGED port
       \/ port # Free /\ Goto(c, "failed") /\ UNCHANGED port
       \/ Reclaim(c, "finish")
    /\ UNCHANGED <<runtime, store, deletion>>

\* await_listener_shutdown: the own listener ends (it is aborted after 3 s);
\* then the port is waited for and, if this process still holds it, reclaimed
\* where the platform can.
AwaitListener(c) ==
    /\ At(c, "await")
    /\ ~job[c].awaits
    /\ \/ Goto(c, "finish") /\ UNCHANGED port
       \/ Reclaim(c, "finish")
    /\ UNCHANGED <<runtime, store, deletion>>

FinishStop(c) ==
    /\ At(c, "finish")
    /\ runtime' = [runtime EXCEPT ![Ws(c)] = "none"]
    /\ Goto(c, "detach")
    /\ UNCHANGED <<port, store, deletion>>

\* stop_for_runtime and the routes; a start that failed ignores their error.
Detach(c) ==
    /\ At(c, "detach")
    /\ \/ Goto(c, IF job[c].inStart THEN "mark" ELSE "stopped")
       \/ "detach" \in Faults /\ Goto(c, IF job[c].inStart THEN "mark" ELSE "failed")
    /\ UNCHANGED <<runtime, port, store, deletion>>

\* mark_error overwrites whatever entry is there.
MarkError(w) == runtime' = [runtime EXCEPT ![w] = "error"]

MarkFailedStart(c) ==
    /\ At(c, "mark")
    /\ MarkError(Ws(c))
    /\ Goto(c, "failed")
    /\ UNCHANGED <<port, store, deletion>>

JobStep(c) == \/ CheckPort(c) \/ Spawn(c) \/ Routes(c) \/ Verify(c)
              \/ BeginStop(c) \/ AwaitListener(c) \/ FinishStop(c) \/ Detach(c)
              \/ MarkFailedStart(c)

-----------------------------------------------------------------------------
(* What runs beside the procedures.                                        *)

\* A listener that was told to stop closes its socket.
CloseListener(w) ==
    /\ Closing(w)
    /\ ListenerEnds
    /\ UNCHANGED <<runtime, store, deletion>>

ListenerDies(w) ==
    /\ "listener" \in Faults
    /\ port = w
    /\ ListenerEnds
    /\ UNCHANGED <<runtime, store, deletion>>

\* get_runtime_status: the third check in a row that finds nobody on the port
\* turns a running entry into an error.  The two before it are not counted
\* here: any check may be the third.
Refresh(w) ==
    /\ w \in store
    /\ IsRunning(w)
    /\ port = Free
    /\ MarkError(w)
    /\ UNCHANGED <<port, store, job, deletion>>

ForeignBinds == /\ "foreign" \in Faults
                /\ port = Free
                /\ port' = Foreign
                /\ UNCHANGED <<runtime, store, job, deletion>>

ForeignLeaves == /\ port = Foreign
                 /\ port' = Free
                 /\ UNCHANGED <<runtime, store, job, deletion>>

\* delete_workspace: the profile is looked up, its tunnel dropped, its entry
\* dropped with the listener, and the profile removed; no lock spans the
\* three, and no gate is asked.
BeginDelete(w) ==
    /\ deletion.pc = "idle"
    /\ w \in store \cap Deletable
    /\ deletion' = [pc |-> "drop", ws |-> w]
    /\ UNCHANGED <<runtime, port, store, job>>

\* drop_workspace tells the listener to stop and waits, under the runtime lock,
\* for the port of the profile as it was saved; the listener is on the port of
\* the application settings, which need not be the same.  So the listener ends
\* within the wait, is reclaimed after it, or is still on its port when the
\* entry is gone: its task is aborted at most, and never awaited.
DropWorkspace ==
    LET w == deletion.ws
    IN  /\ deletion.pc = "drop"
        /\ runtime' = [runtime EXCEPT ![w] = "none"]
        /\ deletion' = [deletion EXCEPT !.pc = "remove"]
        /\ \/ UNCHANGED <<port, job>>
           \/ /\ port = w \/ (\E v \in Workspace : Closing(v)) \/ (Reclaims /\ port \in Workspace)
              /\ ListenerEnds
        /\ UNCHANGED store

RemoveProfile ==
    /\ deletion.pc = "remove"
    /\ store' = store \ {deletion.ws}
    /\ deletion' = [pc |-> "idle", ws |-> NoWs]
    /\ UNCHANGED <<runtime, port, job>>

AbortDelete ==
    /\ deletion.pc = "drop"
    /\ "detach" \in Faults
    /\ deletion' = [pc |-> "idle", ws |-> NoWs]
    /\ UNCHANGED <<runtime, port, store, job>>

RuntimeEnv == \/ \E w \in Workspace : CloseListener(w) \/ ListenerDies(w)
                                        \/ Refresh(w) \/ BeginDelete(w)
              \/ ForeignBinds \/ ForeignLeaves
              \/ DropWorkspace \/ RemoveProfile \/ AbortDelete

-----------------------------------------------------------------------------
(* The service with callers that start and stop workspaces as they please. *)

Call(c) == /\ At(c, "idle")
           /\ \E w \in Workspace : StartJob(c, w) \/ StopJob(c, w)
           /\ UNCHANGED <<runtime, port, store, deletion>>

Return(c) == /\ job[c].pc \in Result
             /\ EndJob(c)
             /\ UNCHANGED <<runtime, port, store, deletion>>

RuntimeNext == \/ \E c \in Caller : Call(c) \/ Return(c) \/ JobStep(c)
               \/ RuntimeEnv

\* The runtime polls every task; a listener told to stop does (or is aborted).
RuntimeFairness == /\ \A c \in Caller : WF_runtimeVars(JobStep(c))
                   /\ \A w \in Workspace : WF_runtimeVars(CloseListener(w))

RuntimeSpec == RuntimeInit /\ [][RuntimeNext]_runtimeVars /\ RuntimeFairness

-----------------------------------------------------------------------------
RuntimeTypeOK ==
    /\ runtime \in [Workspace -> Phase]
    /\ port \in Workspace \cup {Free, Foreign}
    /\ store \subseteq Workspace
    /\ job \in [Caller -> Jobs]
    /\ deletion \in [pc : {"idle", "drop", "remove"}, ws : Workspace \cup {NoWs}]

\* As long as no listener dies by itself or has its port reclaimed, a running
\* entry is the one that owns the port: two callers that start two workspaces
\* at once never end with two of them running, and no stop, deletion or
\* failed start leaves an entry running without its listener.
RunningOwnsPort == \A w \in Workspace : IsRunning(w) => port = w

\* An entry that is being stopped refuses every start of its workspace
\* (runtime/supervisor.rs, start).  Whatever stops, starts, failures and
\* deletions overlap, and wherever the saved profile vanishes between two of
\* their steps, some procedure is still under way that removes the entry.
StoppingIsBeingStopped ==
    \A w \in Workspace : runtime[w] = "stopping" =>
        \E c \in Caller : Ws(c) = w /\ job[c].pc \in {"await", "finish"}

\* What the comment in await_listener_shutdown_blocking asks of its callers'
\* wait, "the listening port must really be released": a deletion returns from
\* dropping the runtime only when the workspace's listener is off the port.
DropReleasesPort ==
    [][deletion.pc = "drop" /\ deletion'.pc = "remove" => port' # deletion.ws]_runtimeVars

\* A start or a stop ends, whatever runs beside it.
JobEnds == \A c \in Caller : ~At(c, "idle") ~> job[c].pc \in Result
=============================================================================
