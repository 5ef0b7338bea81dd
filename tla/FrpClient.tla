------------------------------ MODULE FrpClient ------------------------------
(***************************************************************************)
(* The frpc process of one workspace (tunnel/frp/client.rs, and            *)
(* restart_workspace_frpc of tunnel/supervisor.rs).  What tells a process  *)
(* from the last life of the application, or from another instance of it,  *)
(* is a pid file; an operation lock file serialises the instances.  An     *)
(* instance may end wherever it waits: its frpc lives on, and its lock     *)
(* file stays behind with the pid of a dead process in it.                 *)
(***************************************************************************)
EXTENDS Naturals, FiniteSets

CONSTANTS Instance,  \* the instances of the application that may run at once
          Pid,       \* the process ids frpc may get; ids are reused
          NoPid,     \* none of them
          Free, Dead \* the lock file is absent; its holder is no longer alive

VARIABLES live,      \* the frpc processes that run
          recorded,  \* the pid file, or NoPid
          lock,      \* the lock file: who wrote it
          app,       \* [Instance -> what the instance does and knows]
          slipped    \* a frpc got away from the record; see Slips

frpVars == <<live, recorded, lock, app, slipped>>

Steps == {"idle", "lock", "unlink", "own", "clear", "recorded", "spawn",
          "record", "ready", "failed", "release"}

\* `child`: the process it started itself; `wanted`: the operation is to end
\* with a running frpc; `late`: the 35 seconds for retries are over.
Apps == [up : BOOLEAN, pc : Steps, child : Pid \cup {NoPid},
         wanted : BOOLEAN, late : BOOLEAN]
Started == [up |-> TRUE, pc |-> "idle", child |-> NoPid, wanted |-> FALSE, late |-> FALSE]

FrpInit ==
    /\ live = {}
    /\ recorded = NoPid
    /\ lock = Free
    /\ app = [i \in Instance |-> Started]
    /\ slipped = FALSE

-----------------------------------------------------------------------------
At(i, pc) == app[i].up /\ app[i].pc = pc
FrpGoto(i, pc) == app' = [app EXCEPT ![i].pc = pc]
HolderGone == lock = Dead

\* A frpc is lost to the record while it runs: a step of these kinds leaves
\* alive the process that it is about to forget.
Slips(p) == slipped' = (slipped \/ p \in live')
Holds == UNCHANGED slipped

\* A start, a stop, a restart by the health loop, or a change of the routes.
Begin(i) ==
    /\ At(i, "idle")
    /\ \E w \in BOOLEAN :
         app' = [app EXCEPT ![i].pc = "lock", ![i].wanted = w, ![i].late = FALSE]
    /\ UNCHANGED <<live, recorded, lock, slipped>>

\* create_new succeeds for one caller only.
TakeLock(i) ==
    /\ At(i, "lock") /\ lock = Free
    /\ lock' = i
    /\ FrpGoto(i, "own")
    /\ UNCHANGED <<live, recorded, slipped>>

\* The holder is looked up first, and the file removed after.
SeeStaleLock(i) ==
    /\ At(i, "lock") /\ HolderGone
    /\ FrpGoto(i, "unlink")
    /\ UNCHANGED <<live, recorded, lock, slipped>>

Unlink(i) ==
    /\ At(i, "unlink")
    /\ lock' = Free
    /\ FrpGoto(i, "lock")
    /\ UNCHANGED <<live, recorded, slipped>>

\* The fifteen seconds for the lock are over: an error, and nothing was touched.
GiveUpLock(i) ==
    /\ At(i, "lock") /\ lock \in Instance
    /\ FrpGoto(i, "idle")
    /\ UNCHANGED <<live, recorded, lock, slipped>>

\* The handle of its own process leaves the map, and the process is killed.
\* One that survives it is an error; its record stays for the next attempt.
StopOwn(i) ==
    /\ At(i, "own")
    /\ \/ /\ live' = live \ {app[i].child}
          /\ app' = [app EXCEPT ![i].child = NoPid,
                                ![i].pc = IF app[i].child = NoPid THEN "recorded" ELSE "clear"]
       \/ /\ app[i].child \in live /\ UNCHANGED live
          /\ app' = [app EXCEPT ![i].child = NoPid, ![i].pc = "release"]
    /\ UNCHANGED <<recorded, lock, slipped>>

\* The pid file goes, whatever it says by now.
ClearRecord(i) ==
    /\ At(i, "clear")
    /\ recorded' = NoPid
    /\ FrpGoto(i, "recorded")
    /\ UNCHANGED <<live, lock, slipped>>

\* Mutant of StopRecorded: only a process of this life is stopped.
StopRecordedOwn(i) ==
    /\ At(i, "recorded")
    /\ FrpGoto(i, IF recorded # NoPid THEN "clear" ELSE
               IF app[i].wanted THEN "spawn" ELSE "release")
    /\ UNCHANGED <<live, recorded, lock, slipped>>

\* stop_recorded_frpc_instance: the recorded process is killed, unless it is
\* over.  Where the file or the image of the process cannot be read, or the
\* process survives five seconds, it stays recorded and there is an error.  A
\* process whose image is not the recorded one (the program was replaced under
\* it, or the pid is another program's by now) is let be and forgotten.
StopRecorded(i) ==
    /\ At(i, "recorded")
    /\ \/ recorded # NoPid /\ live' = live \ {recorded} /\ FrpGoto(i, "clear") /\ Holds
       \/ recorded # NoPid /\ UNCHANGED live /\ FrpGoto(i, "clear") /\ Slips(recorded)
       \/ FrpGoto(i, "release") /\ UNCHANGED live /\ Holds
       \/ /\ recorded = NoPid
          /\ FrpGoto(i, IF app[i].wanted THEN "spawn" ELSE "release")
          /\ UNCHANGED live /\ Holds
    /\ UNCHANGED <<recorded, lock>>

\* Mutant of SpawnFrpc: the process is recorded once it is ready.
SpawnUnrecorded(i) ==
    /\ At(i, "spawn")
    /\ \/ FrpGoto(i, "release") /\ UNCHANGED live
       \/ \E p \in Pid \ (live \cup {app[j].child : j \in Instance}) :
            /\ live' = live \cup {p}
            /\ app' = [app EXCEPT ![i].child = p, ![i].pc = "ready"]
    /\ UNCHANGED <<recorded, lock, slipped>>

\* spawn_frpc up to the process.  Without the program or a valid configuration
\* there is none.
SpawnFrpc(i) ==
    /\ At(i, "spawn")
    /\ \/ FrpGoto(i, "release") /\ UNCHANGED live
       \/ \E p \in Pid \ (live \cup {app[j].child : j \in Instance}) :
            /\ live' = live \cup {p}
            /\ app' = [app EXCEPT ![i].child = p, ![i].pc = "record"]
    /\ UNCHANGED <<recorded, lock, slipped>>

\* stop_child: the process is killed and awaited for three seconds; that it is
\* over is not looked at.
StopChild(i) == /\ live' \in {live, live \ {app[i].child}}
                /\ Slips(app[i].child)

\* write_managed_frpc_pid; a process that cannot be recorded is stopped.
RecordPid(i) ==
    /\ At(i, "record")
    /\ \/ recorded' = app[i].child /\ FrpGoto(i, "ready") /\ UNCHANGED live /\ Holds
       \/ /\ recorded' \in {recorded, NoPid} /\ StopChild(i)
          /\ app' = [app EXCEPT ![i].child = NoPid, ![i].pc = "release"]
    /\ UNCHANGED lock

\* wait_for_frpc_ready: the log names every proxy; or it names an error, the
\* process ended or eight seconds are over, and the process is stopped.
Ready(i) ==
    /\ At(i, "ready")
    /\ \/ FrpGoto(i, "release") /\ UNCHANGED live /\ Holds
       \/ StopChild(i) /\ app' = [app EXCEPT ![i].child = NoPid, ![i].pc = "failed"]
    /\ UNCHANGED <<recorded, lock>>

\* Mutant of ReadyFailed: "already exists" is tried again without a deadline.
ReadyFailedForever(i) ==
    /\ At(i, "failed")
    /\ recorded' = NoPid
    /\ FrpGoto(i, "spawn")
    /\ UNCHANGED <<live, lock, slipped>>

\* The server still holds the proxy of the last process: try again for 35
\* seconds.  Any other failure ends the operation.
ReadyFailed(i) ==
    /\ At(i, "failed")
    /\ recorded' = NoPid
    /\ \/ FrpGoto(i, "release")
       \/ ~app[i].late /\ FrpGoto(i, "spawn")
    /\ UNCHANGED <<live, lock, slipped>>

FrpDeadline(i) ==
    /\ app[i].pc # "idle" /\ ~app[i].late
    /\ app' = [app EXCEPT ![i].late = TRUE]
    /\ UNCHANGED <<live, recorded, lock, slipped>>

\* The lock is dropped: its file goes, whoever wrote it.
Release(i) ==
    /\ At(i, "release")
    /\ lock' = Free
    /\ FrpGoto(i, "idle")
    /\ UNCHANGED <<live, recorded, slipped>>

\* The application ends; nothing kills its frpc, not the one it was about to
\* record either.
Crash(i) ==
    /\ app[i].up
    /\ app' = [app EXCEPT ![i] = [Started EXCEPT !.up = FALSE]]
    /\ lock' = IF lock = i THEN Dead ELSE lock
    /\ UNCHANGED <<live, recorded>>
    /\ IF app[i].pc = "record" THEN Slips(app[i].child) ELSE Holds

Restart(i) ==
    /\ ~app[i].up
    /\ app' = [app EXCEPT ![i] = Started]
    /\ UNCHANGED <<live, recorded, lock, slipped>>

FrpcDies(p) ==
    /\ p \in live
    /\ live' = live \ {p}
    /\ UNCHANGED <<recorded, lock, app, slipped>>

Operation(i) ==
    \/ TakeLock(i) \/ SeeStaleLock(i) \/ Unlink(i) \/ GiveUpLock(i) \/ StopOwn(i)
    \/ ClearRecord(i) \/ StopRecorded(i) \/ SpawnFrpc(i) \/ RecordPid(i) \/ Ready(i)
    \/ ReadyFailed(i) \/ Release(i)

FrpNext ==
    \/ \E i \in Instance : \/ Begin(i) \/ Operation(i) \/ FrpDeadline(i)
                           \/ Crash(i) \/ Restart(i)
    \/ \E p \in Pid : FrpcDies(p)

\* Every step of an operation waits for something with a deadline of its own,
\* and time passes.  Nothing makes a user begin, nor the application restart.
FrpFairness ==
    \A i \in Instance : /\ WF_frpVars(Operation(i))
                        /\ WF_frpVars(FrpDeadline(i))
FrpSpec == FrpInit /\ [][FrpNext]_frpVars /\ FrpFairness

-----------------------------------------------------------------------------
FrpTypeOK ==
    /\ live \subseteq Pid
    /\ recorded \in Pid \cup {NoPid}
    /\ lock \in Instance \cup {Free, Dead}
    /\ app \in [Instance -> Apps]
    /\ slipped \in BOOLEAN

\* Who may be stopped: the process of the pid file, and the one an instance is
\* about to write into it.
Traced == {recorded} \cup {app[i].child : i \in {j \in Instance : app[j].pc = "record"}}

\* A workspace never has two frpc processes, however often the application
\* crashes between the steps of a restart and starts again: what it left
\* behind is found by its pid file.  (The comment of FrpcOperationLock.)  It
\* is a property of one instance: see README for two.  And not once a process
\* got away: the application ended before it wrote the pid, a process survived
\* the kill of a failed start, or it ran from a program that was replaced.
OneFrpc == slipped \/ Cardinality(live) <= 1

\* No frpc runs without its pid in the file the next life will look in, unless
\* one got away in one of these ways.
NoneForgotten == slipped \/ live \subseteq Traced

\* An operation on the tunnel ends: neither a lock that a dead instance left
\* nor a server that keeps refusing the proxy holds the supervisor for ever.
OperationEnds == \A i \in Instance : app[i].pc # "idle" ~> app[i].pc = "idle"
=============================================================================
