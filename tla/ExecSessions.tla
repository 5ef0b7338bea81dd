---------------------------- MODULE ExecSessions ----------------------------
(***************************************************************************)
(* The commands a client runs through exec_command (tools/exec.rs) and the *)
(* sessions that outlive the call (tools/session.rs): the process, the     *)
(* record of its end, the guard that keeps the workspace busy, the table   *)
(* of sessions clients look ids up in, the task that enforces the deadline *)
(* and evicts, and the calls kill_session, write_stdin and read_output.    *)
(*                                                                         *)
(* The calls of clients run on threads of their own.  What they share with *)
(* the monitor is the mutex of the child, which kill_session holds while   *)
(* it waits for the process; every other use of it is one step here.       *)
(***************************************************************************)
EXTENDS Naturals, FiniteSets

CONSTANTS Session,   \* the ids of the sessions that may be made
          Client,    \* the calls that may be in progress at once
          NoSession  \* none of them

ASSUME ExecAssumption == NoSession \notin Session

VARIABLES process,   \* [Session -> the operating system's view of the process]
          record,    \* [Session -> what the ExecSession says]
          call,      \* [Session -> the step of the exec_command that made it]
          monitor,   \* [Session -> the step of its monitor or eviction task]
          due,       \* the sessions whose deadline has passed
          tty,       \* the sessions that are interactive
          client     \* [Client -> the later call it makes]

vars == <<process, record, call, monitor, due, tty, client>>

Process == {"none", "running", "ended", "killed"}
Reason == {"none", "exited", "timeout", "killed"}
Call == {"none", "input", "loop", "collect", "mark", "kill",
         "refused", "gaveUp", "exited", "timedOut", "kept"}
Monitor == {"off", "armed", "mark", "kill", "evict", "done"}

\* `stored`: in the table; `guard`: the activity guard is held; `exited`: the
\* end of the process was recorded; `reason`: the termination reason.
Record == [stored : BOOLEAN, guard : BOOLEAN, exited : BOOLEAN, reason : Reason]
NoRecord == [stored |-> FALSE, guard |-> FALSE, exited |-> FALSE, reason |-> "none"]

Idle == [pc |-> "idle", s |-> NoSession]
ClientStep == {"kill", "signal", "wait", "settle", "write"}
Clients == {Idle} \cup [pc : ClientStep, s : Session]

Init == /\ process = [s \in Session |-> "none"]
        /\ record = [s \in Session |-> NoRecord]
        /\ call = [s \in Session |-> "none"]
        /\ monitor = [s \in Session |-> "off"]
        /\ due = {}
        /\ tty = {}
        /\ client = [k \in Client |-> Idle]

-----------------------------------------------------------------------------
Alive(s) == process[s] = "running"
GotoCall(s, pc) == call' = [call EXCEPT ![s] = pc]
GotoMonitor(s, pc) == monitor' = [monitor EXCEPT ![s] = pc]
Goto(k, pc) == client' = [client EXCEPT ![k].pc = pc]
Return(k) == client' = [client EXCEPT ![k] = Idle]

\* kill_session holds the child's mutex while it waits for the process.
ChildFree(s) == \A k \in Client : client[k] # [pc |-> "wait", s |-> s]

\* Mutants of Ended: the guard is kept; the reason is the one shown while the
\* process runs.
EndedGuarded(r) == [r EXCEPT !.exited = TRUE,
                             !.reason = IF @ = "none" THEN "exited" ELSE @]
EndedRunning(r) == [r EXCEPT !.exited = TRUE, !.guard = FALSE,
                             !.reason = IF @ = "none" THEN "running" ELSE @]

\* record_exit_status: the first reason stays, the guard is given back.
Ended(r) == [r EXCEPT !.exited = TRUE, !.guard = FALSE,
                      !.reason = IF @ = "none" THEN "exited" ELSE @]

\* Mutant of Refreshed: without asking the process.
RefreshedUnasked(s) == Ended(record[s])

\* refresh_status: try_wait, and the record if the process is over.
Refreshed(s) == IF Alive(s) THEN record[s] ELSE Ended(record[s])
Refresh(s) == record' = [record EXCEPT ![s] = Refreshed(s)]
MarkReason(s, r) == record' = [record EXCEPT ![s].reason = r]
Forget(s) == record' = [record EXCEPT ![s].stored = FALSE]

\* kill_and_wait: the process cannot refuse, and its end is recorded.
KillAndWait(s) ==
    /\ process' = [process EXCEPT ![s] = IF Alive(s) THEN "killed" ELSE @]
    /\ record' = [record EXCEPT ![s] = Ended(record[s])]

-----------------------------------------------------------------------------
(* exec_command, once it resolved the program.                             *)

\* The gate of a draining workspace refuses the guard, or the spawn fails and
\* drops it: nothing is left behind.
Refuse(s) ==
    /\ call[s] = "none"
    /\ GotoCall(s, "refused")
    /\ UNCHANGED <<process, record, monitor, due, tty, client>>

\* The guard is taken before the process is spawned; then the session is put
\* into the table.  A caller that yields at once gets its id without writing
\* the input.
Spawn(s) ==
    /\ call[s] = "none"
    /\ process' = [process EXCEPT ![s] = "running"]
    /\ record' = [record EXCEPT ![s].stored = TRUE, ![s].guard = TRUE]
    /\ tty' \in {tty, tty \cup {s}}
    /\ \/ GotoCall(s, "kept") /\ GotoMonitor(s, "armed")
       \/ GotoCall(s, "loop") /\ UNCHANGED monitor
       \/ s \notin tty' /\ GotoCall(s, "input") /\ UNCHANGED monitor
    /\ UNCHANGED <<due, client>>

\* The write waits for a process that does not read, past the deadline too.
\* It fails when the process is over or closed its input: the call returns an
\* error without the id, and starts no monitor.
WriteInput(s) ==
    /\ call[s] = "input"
    /\ \/ GotoCall(s, "loop")
       \/ GotoCall(s, "gaveUp")
    /\ UNCHANGED <<process, record, monitor, due, tty, client>>

\* One round of the loop: refresh, then the end, the deadline or the yield.
Round(s) ==
    /\ call[s] = "loop"
    /\ Refresh(s)
    /\ \/ ~Alive(s) /\ GotoCall(s, "collect") /\ UNCHANGED monitor
       \/ Alive(s) /\ s \in due \ tty /\ GotoCall(s, "mark") /\ UNCHANGED monitor
       \/ /\ Alive(s) /\ (s \in due => s \in tty)
          /\ GotoCall(s, "kept")
          /\ GotoMonitor(s, "armed")
    /\ UNCHANGED <<process, due, tty, client>>

\* Mutant of ReturnEnd: the session stays in the table.
ReturnEndStored(s) ==
    /\ call[s] = "collect"
    /\ GotoCall(s, "exited")
    /\ UNCHANGED <<process, record, monitor, due, tty, client>>

\* The end is reported in the answer, so the session is not kept.
ReturnEnd(s) ==
    /\ call[s] = "collect"
    /\ Forget(s)
    /\ GotoCall(s, "exited")
    /\ UNCHANGED <<process, monitor, due, tty, client>>

MarkTimeout(s) ==
    /\ call[s] = "mark"
    /\ MarkReason(s, "timeout")
    /\ GotoCall(s, "kill")
    /\ UNCHANGED <<process, monitor, due, tty, client>>

\* The answer names the session, which is evicted a little later.
TimeOut(s) ==
    /\ call[s] = "kill"
    /\ KillAndWait(s)
    /\ GotoCall(s, "timedOut")
    /\ GotoMonitor(s, "evict")
    /\ UNCHANGED <<due, tty, client>>

ExecStep(s) == Round(s) \/ ReturnEnd(s) \/ MarkTimeout(s) \/ TimeOut(s)

-----------------------------------------------------------------------------
(* spawn_timeout_monitor and schedule_session_eviction.                    *)

\* Mutant of Watch: the eviction does not wait for the process.
WatchOnce(s) ==
    /\ monitor[s] = "armed" /\ s \in due
    /\ ChildFree(s)
    /\ Refresh(s)
    /\ GotoMonitor(s, "evict")
    /\ UNCHANGED <<process, call, due, tty, client>>

Watch(s) ==
    /\ monitor[s] = "armed" /\ s \in due
    /\ ChildFree(s)
    /\ Refresh(s)
    /\ GotoMonitor(s, IF Refreshed(s).exited THEN "evict" ELSE "mark")
    /\ UNCHANGED <<process, call, due, tty, client>>

MonitorMarks(s) ==
    /\ monitor[s] = "mark"
    /\ MarkReason(s, "timeout")
    /\ GotoMonitor(s, "kill")
    /\ UNCHANGED <<process, call, due, tty, client>>

MonitorKills(s) ==
    /\ monitor[s] = "kill"
    /\ ChildFree(s)
    /\ KillAndWait(s)
    /\ GotoMonitor(s, "evict")
    /\ UNCHANGED <<call, due, tty, client>>

Evict(s) ==
    /\ monitor[s] = "evict"
    /\ Forget(s)
    /\ GotoMonitor(s, "done")
    /\ UNCHANGED <<process, call, due, tty, client>>

MonitorStep(s) == Watch(s) \/ MonitorMarks(s) \/ MonitorKills(s) \/ Evict(s)

-----------------------------------------------------------------------------
(* The later calls.  A client has the id from the answer of exec_command.  *)

Known(s) == call[s] \in {"kept", "timedOut"} /\ record[s].stored

\* kill_session: is_running, and if it is over the session is forgotten.
Kill(k, s) ==
    /\ client[k] = Idle
    /\ Known(s)
    /\ ChildFree(s)
    /\ \/ /\ Refreshed(s).exited
          /\ record' = [record EXCEPT ![s] = [Refreshed(s) EXCEPT !.stored = FALSE]]
          /\ UNCHANGED client
       \/ /\ ~Refreshed(s).exited
          /\ client' = [client EXCEPT ![k] = [pc |-> "kill", s |-> s]]
          /\ UNCHANGED record
    /\ UNCHANGED <<process, call, monitor, due, tty>>

\* Mutant of MarkKilled: the reason is left to the end of the process.
MarkLater(k) ==
    /\ client[k].pc = "kill"
    /\ Goto(k, "signal")
    /\ UNCHANGED <<process, record, call, monitor, due, tty>>

MarkKilled(k) ==
    /\ client[k].pc = "kill"
    /\ MarkReason(client[k].s, "killed")
    /\ Goto(k, "signal")
    /\ UNCHANGED <<process, call, monitor, due, tty>>

\* The signal; a process may ignore TERM and INT.
Signal(k) ==
    LET s == client[k].s
    IN  /\ client[k].pc = "signal"
        /\ ChildFree(s)
        /\ process' \in {process,
                         [process EXCEPT ![s] = IF Alive(s) THEN "killed" ELSE @]}
        \* either the mutex is taken for the wait, or wait_ms is over before
        /\ Goto(k, "wait") \/ Goto(k, "settle")
        /\ UNCHANGED <<record, call, monitor, due, tty>>

\* Mutant of StopWaiting: there is no wait_ms.
StopWaitingForEnd(k) ==
    /\ client[k].pc = "wait"
    /\ ~Alive(client[k].s)
    /\ Goto(k, "settle")
    /\ UNCHANGED <<process, record, call, monitor, due, tty>>

\* The process ended or wait_ms is over; the mutex is given back.
StopWaiting(k) ==
    /\ client[k].pc = "wait"
    /\ Goto(k, "settle")
    /\ UNCHANGED <<process, record, call, monitor, due, tty>>

\* Mutant of Settle: the session is forgotten whatever became of it.
SettleForgetting(k) ==
    /\ client[k].pc = "settle"
    /\ ChildFree(client[k].s)
    /\ record' = [record EXCEPT ![client[k].s] =
                      [Refreshed(client[k].s) EXCEPT !.stored = FALSE]]
    /\ Return(k)
    /\ UNCHANGED <<process, call, monitor, due, tty>>

\* The answer: killed, and the session is forgotten, or still terminating,
\* and it is kept for another try.
Settle(k) ==
    LET s == client[k].s
    IN  /\ client[k].pc = "settle"
        /\ ChildFree(s)
        /\ record' = [record EXCEPT ![s] =
                         [Refreshed(s) EXCEPT !.stored = @ /\ ~Refreshed(s).exited]]
        /\ Return(k)
        /\ UNCHANGED <<process, call, monitor, due, tty>>

\* read_output, and write_stdin before it writes: both refresh.
Poll(k, s) ==
    /\ client[k] = Idle
    /\ Known(s)
    /\ ChildFree(s)
    /\ Refresh(s)
    /\ \/ UNCHANGED client
       \/ ~Refreshed(s).exited /\ client' = [client EXCEPT ![k] = [pc |-> "write", s |-> s]]
    /\ UNCHANGED <<process, call, monitor, due, tty>>

\* write_stdin writes, waits and refreshes again; a failed write returns
\* without the second refresh.
Wrote(k) ==
    LET s == client[k].s
    IN  /\ client[k].pc = "write"
        /\ \/ ChildFree(s) /\ Refresh(s)
           \/ UNCHANGED record
        /\ Return(k)
        /\ UNCHANGED <<process, call, monitor, due, tty>>

ClientContinues(k) ==
    MarkKilled(k) \/ Signal(k) \/ StopWaiting(k) \/ Settle(k)

-----------------------------------------------------------------------------
ProcessEnds(s) ==
    /\ Alive(s)
    /\ process' = [process EXCEPT ![s] = "ended"]
    /\ UNCHANGED <<record, call, monitor, due, tty, client>>

Deadline(s) ==
    /\ process[s] # "none" /\ s \notin due
    /\ due' = due \cup {s}
    /\ UNCHANGED <<process, record, call, monitor, tty, client>>

Next == \/ \E s \in Session : \/ Refuse(s) \/ Spawn(s) \/ WriteInput(s) \/ ExecStep(s) \/ MonitorStep(s)
                              \/ ProcessEnds(s) \/ Deadline(s)
        \/ \E k \in Client : ClientContinues(k) \/ Wrote(k)
        \/ \E k \in Client, s \in Session : Kill(k, s) \/ Poll(k, s)

\* Time passes and every task is polled; the child's mutex is handed out in
\* the order it is asked for, so that who asks again and again gets it.  A
\* write ends when the process has.  Nothing is assumed of processes, of
\* signals or of what clients call.
Fairness ==
    /\ \A s \in Session : /\ WF_vars(ExecStep(s))
                          /\ WF_vars(~Alive(s) /\ WriteInput(s))
                          /\ WF_vars(Deadline(s))
                          /\ SF_vars(MonitorStep(s))
    /\ \A k \in Client :
         /\ SF_vars(ClientContinues(k))
         /\ WF_vars(client[k].pc = "write" /\ ~Alive(client[k].s) /\ Wrote(k))

Spec == Init /\ [][Next]_vars /\ Fairness

-----------------------------------------------------------------------------
TypeOK == /\ process \in [Session -> Process]
          /\ record \in [Session -> Record]
          /\ call \in [Session -> Call]
          /\ monitor \in [Session -> Monitor]
          /\ due \cup tty \subseteq Session
          /\ client \in [Client -> Clients]

\* While a command runs its workspace is busy and its session is known: the
\* guard is taken before the spawn and given back, and the session forgotten,
\* only when the end is recorded, by whichever of the call, the monitor and the
\* clients sees it first; a command that runs can be killed by its id.
RunningIsCovered ==
    \A s \in Session : Alive(s) => /\ record[s].guard
                                   /\ record[s].stored
                                   /\ ~record[s].exited

\* The reason clients are given: `exited` is said of no process that was
\* killed, and none is said to have timed out before its deadline.
ReasonIsTrue ==
    \A s \in Session : record[s].exited =>
        /\ record[s].reason = "exited" => process[s] = "ended"
        /\ record[s].reason = "timeout" => s \in due

\* Once its input is written every command ends, its workspace is given back
\* and its session is evicted, whether or not a client asks again; except that
\* nobody watches the command of a call that failed to write.
NothingLingers ==
    \A s \in Session :
        call[s] \notin {"none", "refused", "input"} ~>
            \/ call[s] = "gaveUp"
            \/ record[s].exited /\ ~record[s].guard /\ ~record[s].stored

\* A later call returns, although the process may ignore the signal and
\* others hold its mutex.
ClientReturns == \A k \in Client : client[k] # Idle ~> client[k] = Idle
=============================================================================
