----------------------------- MODULE TaskHarness -----------------------------
(***************************************************************************)
(* The tasks of a workspace (harness/state.rs, model.rs, tools.rs) and the *)
(* check that tools/dispatch.rs makes of them before a tool that writes.   *)
(* A task is a file of its own; the harness keeps nothing in memory and    *)
(* takes no lock, every call reads the file, changes its copy and writes   *)
(* it back, and tool calls run on threads of their own.  A task is saved   *)
(* by way of a temporary file that all who save it share: one of them may  *)
(* empty what another has written, or put it in place half written, and    *)
(* then go on to write what is by now the file of the task.                *)
(*                                                                         *)
(* The files of the workspace are a number that every change increases;    *)
(* `head` is the commit they are based on.  Left out: the logs (module     *)
(* OperationLog), state.json, which nothing reads, the objective and the   *)
(* list of files of a task, and the branch beside its head.  Of two        *)
(* writable tasks the code takes the one written last; either is taken     *)
(* here.                                                                   *)
(***************************************************************************)
EXTENDS Naturals, FiniteSets

CONSTANTS Tool,      \* threads that handle a tool call
          Task,      \* ids of tasks
          NoTask,    \* no file of a task; no task of a call
          Blank,     \* a file that was created and not yet written
          Mangled,      \* a file written in part, or by two calls
          MaxTree,   \* bound: changes of the files
          MaxHead,   \* bound: commits
          MaxTool    \* bound: tool calls

VARIABLES tree, head,
          tasks,     \* the files of the tasks
          temp,      \* <id>.json.tmp of a task, one for all who save it
          tool,      \* the tool calls
          called,
          outside,   \* history: tasks whose files changed with no operation in flight
          stale,     \* history: calls that read before another one saved, or whose
                     \* temporary file another one emptied
          raced      \* history: such a call has saved, perhaps for another one to put
                     \* in place, or start_task could not read the file of a task

harnessVars == <<tree, head, tasks, temp, tool, called, outside, stale, raced>>

Statuses == {"active", "paused", "verifying", "failed", "completed",
             "completed_unverified", "rolled_back"}
IsWritable(status) == status \in {"active", "paused", "verifying", "failed"}
\* Mutant of CanTransition: every other status.
CanTransitionAny(from, to) == from # to
CanTransition(from, to) ==
    <<from, to>> \in
      ({"active"} \X {"paused", "verifying", "failed", "completed_unverified"})
      \cup {<<"paused", "active">>}
      \cup ({"verifying"} \X {"completed", "completed_unverified", "failed"})
      \cup ({"failed"} \X {"active", "rolled_back"})

\* What pause_task, resume_task and finish_task ask for.
Asked == {"paused", "active", "verifying", "completed_unverified"}

TaskFile == [status : Statuses, head : 0 .. MaxHead, expected : 0 .. MaxTree]

Broken == {Blank, Mangled}
Files == TaskFile \cup Broken \cup {NoTask}

\* NoTask is no task, and not the file of one; what is broken is neither.
HarnessBounds == /\ NoTask \notin Task /\ NoTask \notin TaskFile
                 /\ Broken \cap (TaskFile \cup {NoTask}) = {} /\ Blank # Mangled
                 /\ MaxTree \in Nat /\ MaxHead \in Nat /\ MaxTool \in Nat

ASSUME HarnessAssumption == HarnessBounds

Idle == [pc |-> "idle", task |-> NoTask, copy |-> NoTask, to |-> "temp"]

HarnessInit ==
    /\ tree = 0 /\ head = 0
    /\ tasks = [t \in Task |-> NoTask] /\ temp = [t \in Task |-> NoTask]
    /\ tool = [c \in Tool |-> Idle] /\ called = 0
    /\ outside = {} /\ stale = {} /\ raced = FALSE

Called(c) ==
    /\ tool[c].pc = "idle" /\ called < MaxTool
    /\ called' = called + 1
ToolGoto(c, pc, t, copy) ==
    tool' = [tool EXCEPT ![c] = [Idle EXCEPT !.pc = pc, !.task = t, !.copy = copy]]

Existing == {t \in Task : tasks[t] \notin Broken \cup {NoTask}}
CurrentTask == {t \in Existing : IsWritable(tasks[t].status)}
Unused == {t \in Task : tasks[t] = NoTask /\ \A c \in Tool : tool[c].task # t}

\* start_task, once no task is found that may be written.  list_tasks passes
\* over a file that it cannot read.
StartTask(c, t) ==
    /\ Called(c) /\ t \in Unused
    /\ ToolGoto(c, "save", t, [status |-> "active", head |-> head, expected |-> tree])
    /\ outside' = outside \ {t}
    /\ raced' = (raced \/ CurrentTask # {})
    /\ UNCHANGED <<tree, head, tasks, temp, stale>>

Transition(c, t, next) ==
    /\ Called(c) /\ t \in Existing
    /\ CanTransition(tasks[t].status, next)
    /\ ToolGoto(c, "save", t, [tasks[t] EXCEPT !.status = next])
    /\ UNCHANGED <<tree, head, tasks, temp, outside, stale, raced>>

\* update_task, in whatever status the task is; its lists of steps are left out.
UpdateSteps(c, t) ==
    /\ Called(c) /\ t \in Existing
    /\ ToolGoto(c, "save", t, tasks[t])
    /\ UNCHANGED <<tree, head, tasks, temp, outside, stale, raced>>

\* check_baseline: the head and the files are those the task expects.
\* Mutant of Matches: the head alone.
MatchesHead(t) == tasks[t].head = head
Matches(t) == tasks[t].head = head /\ tasks[t].expected = tree

\* start_task beside a task, a step the status does not allow, or a tool that
\* finds the files changed: an error, nothing is written.
RefuseCall(c) ==
    /\ Called(c)
    /\ \/ CurrentTask # {}
       \/ \E t \in Existing, next \in Asked : ~CanTransition(tasks[t].status, next)
    /\ UNCHANGED <<tree, head, tasks, temp, tool, outside, stale, raced>>

\* exec_command or apply_patch: with no task it runs unchecked, and so it does
\* beside a task when the tasks cannot be read, for that error is dropped.
BeginOperation(c) ==
    /\ Called(c)
    /\ \/ ToolGoto(c, "run", NoTask, NoTask)
       \/ \E t \in CurrentTask : ToolGoto(c, "check", t, NoTask)
    /\ UNCHANGED <<tree, head, tasks, temp, outside, stale, raced>>

\* check_baseline reads the task again, by now perhaps one that has ended, and
\* compares: an error where it cannot be read, or something has changed.
CheckBaseline(c) ==
    LET t == tool[c].task IN
    /\ tool[c].pc = "check"
    /\ \/ t \in Existing /\ Matches(t) /\ ToolGoto(c, "run", t, NoTask)
       \/ ToolGoto(c, "idle", NoTask, NoTask)
    /\ UNCHANGED <<tree, head, tasks, temp, called, outside, stale, raced>>

\* The tool may change the files and commit them; the task is read again if
\* it has succeeded.
RunTool(c) ==
    /\ tool[c].pc = "run"
    /\ tree' \in tree .. tree + 1 /\ tree' <= MaxTree
    /\ head' \in head .. head + 1 /\ head' <= MaxHead
    /\ \/ ToolGoto(c, "idle", NoTask, NoTask)
       \/ /\ tool[c].task \in Existing
          /\ ToolGoto(c, "capture", tool[c].task, tasks[tool[c].task])
    /\ UNCHANGED <<tasks, temp, called, outside, stale, raced>>

\* refresh_expected_state: the files, all of which are read for it, are those
\* the task is to expect from now on.
CaptureTree(c) ==
    /\ tool[c].pc = "capture"
    /\ ToolGoto(c, "save", tool[c].task, [tool[c].copy EXCEPT !.expected = tree])
    /\ UNCHANGED <<tree, head, tasks, temp, called, outside, stale, raced>>

Saving(c) == tool[c].pc \in {"write", "rename"}
HoldsCopy(c) == Saving(c) \/ tool[c].pc \in {"capture", "save"}
Readers(c) == {o \in Tool \ {c} : HoldsCopy(o)}

\* save_task: fs::write empties the temporary file, also one another call has
\* written and not yet put in place.
SaveTask(c) ==
    LET t == tool[c].task IN
    /\ tool[c].pc = "save"
    /\ temp' = [temp EXCEPT ![t] = Blank]
    /\ tool' = [tool EXCEPT ![c].pc = "write"]
    /\ stale' = stale \cup {o \in Tool \ {c} : Saving(o) /\ tool[o].task = t}
    /\ raced' = (raced \/ c \in stale)
    /\ UNCHANGED <<tree, head, tasks, called, outside>>

\* The bytes go to the file that was opened, wherever it is by now; over those
\* of another call they need not make a whole file.
Over(text, copy) == IF text = Blank THEN {copy} ELSE {copy, Mangled}

Written(c, text) ==
    LET t == tool[c].task IN
    /\ temp' = IF tool[c].to = "temp" THEN [temp EXCEPT ![t] = text] ELSE temp
    /\ tasks' = IF tool[c].to = "task" THEN [tasks EXCEPT ![t] = text] ELSE tasks
    /\ raced' = (raced \/ c \in stale)

WriteTemp(c) ==
    LET t == tool[c].task IN
    /\ tool[c].pc = "write"
    /\ \E text \in Over(IF tool[c].to = "temp" THEN temp[t] ELSE tasks[t], tool[c].copy) :
         Written(c, text)
    /\ tool' = [tool EXCEPT ![c].pc = "rename"]
    /\ stale' = IF tool[c].to = "task" THEN stale \cup Readers(c) ELSE stale
    /\ UNCHANGED <<tree, head, called, outside>>

\* An error; a write that fails may have written a part.
FailSave(c) ==
    /\ Saving(c) \/ tool[c].pc = "save"
    /\ \/ UNCHANGED <<tasks, temp, raced>>
       \/ tool[c].pc = "write" /\ Written(c, Mangled)
    /\ ToolGoto(c, "idle", NoTask, NoTask)
    /\ stale' = (stale \cup Readers(c)) \ {c}
    /\ UNCHANGED <<tree, head, called, outside>>

\* The temporary file takes the place of the file of the task, and who writes
\* the one writes the other from now on.  Where another call was first there is
\* none: an error.
RenameTask(c) ==
    LET t == tool[c].task
        Moved(to) == IF to = "temp" THEN "task" ELSE "gone"
    IN
    /\ tool[c].pc = "rename" /\ temp[t] # NoTask
    /\ tasks' = [tasks EXCEPT ![t] = temp[t]]
    /\ temp' = [temp EXCEPT ![t] = NoTask]
    /\ tool' = [o \in Tool |->
                  IF o = c THEN Idle
                  ELSE IF tool[o].pc = "write" /\ tool[o].task = t
                       THEN [tool[o] EXCEPT !.to = Moved(@)]
                  ELSE tool[o]]
    /\ stale' = (stale \cup Readers(c)) \ {c}
    /\ raced' = (raced \/ c \in stale)
    /\ UNCHANGED <<tree, head, called, outside>>

\* An editor, git in a terminal, or a process an earlier command has left
\* running.
ToolInFlight(c) == tool[c].pc \in {"run", "capture"}
ChangeOutside ==
    /\ \/ tree < MaxTree /\ tree' = tree + 1 /\ UNCHANGED head
       \/ head < MaxHead /\ head' = head + 1 /\ UNCHANGED tree
    /\ outside' = IF \E c \in Tool : ToolInFlight(c) THEN outside
                  ELSE outside \cup {t \in Task : t \notin Unused}
    /\ UNCHANGED <<tasks, temp, tool, called, stale, raced>>

\* The application ends, and its calls with it.
StopHarness ==
    /\ \E c \in Tool : tool[c].pc # "idle"
    /\ tool' = [c \in Tool |-> Idle] /\ stale' = {}
    /\ UNCHANGED <<tree, head, tasks, temp, called, outside, raced>>

HarnessNext ==
    \/ \E c \in Tool :
         \/ \E t \in Task : StartTask(c, t) \/ UpdateSteps(c, t)
         \/ \E t \in Task, next \in Asked : Transition(c, t, next)
         \/ RefuseCall(c) \/ BeginOperation(c) \/ RunTool(c) \/ CaptureTree(c)
         \/ CheckBaseline(c) \/ SaveTask(c) \/ WriteTemp(c) \/ RenameTask(c) \/ FailSave(c)
    \/ ChangeOutside \/ StopHarness

-----------------------------------------------------------------------------
HarnessTypeOK ==
    /\ tree \in 0 .. MaxTree /\ head \in 0 .. MaxHead
    /\ tasks \in [Task -> Files] /\ temp \in [Task -> Files]
    /\ \A c \in Tool :
         /\ tool[c].pc \in {"idle", "check", "run", "capture", "save", "write", "rename"}
         /\ tool[c].task \in Task \cup {NoTask}
         /\ tool[c].copy \in TaskFile \cup {NoTask}
         /\ tool[c].to \in {"temp", "task", "gone"}
    /\ called \in 0 .. MaxTool /\ outside \subseteq Task
    /\ stale \subseteq Tool /\ raced \in BOOLEAN

\* A workspace has one task at most that may be written, and the file of every
\* task is whole, whatever errors and ends of the application cut a save short,
\* as long as no call saves a task after another one has saved since it read.
OneTask ==
    ~raced => /\ Cardinality(CurrentTask) <= 1
              /\ \A t \in Task : tasks[t] \notin Broken

\* A task that has ended stays ended, unless a call holds a copy of it that it
\* read before the last save.
Finished(t) == t \in Existing /\ ~IsWritable(tasks[t].status)
EndIsFinal ==
    \A t \in Task :
      Finished(t) /\ (\A c \in stale : tool[c].task # t) => Finished(t)'

\* No tool that writes runs under a task whose files or head were changed by
\* somebody else while no such tool ran, and before it: not even after a
\* restart, or when the task is saved from an old copy.
OutsideIsSeen ==
    \A c \in Tool :
      tool[c].pc # "run" /\ tool'[c].pc = "run" => tool'[c].task \notin outside

TasksAreTrue == [][OneTask' /\ EndIsFinal /\ OutsideIsSeen]_harnessVars
=============================================================================
