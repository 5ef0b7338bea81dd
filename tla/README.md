# A formal model of Mnelyra

Mnelyra is a desktop application (Rust with Tauri, a Svelte frontend) that serves
one workspace at a time over MCP on one local port, runs Codex sessions in it
through an app-server process, and exposes the port through a tunnel. This
directory holds TLA+ models of its backend (`src-tauri/src`), the TLC
configurations that check them, and proofs about them for TLAPS. Paths below are
relative to `src-tauri/src`.

`PROJECT.json` is the index: the components, the runs with what each shows, a
mutation of the code's model that breaks each property, the source lines each
definition stands for, the hazards, the findings and the theorems.

## The system

| component | state | operations | modelled by |
|---|---|---|---|
| activity coordinator, `activity/` | per workspace: counters of MCP calls, executions, turns and provider operations; counts reported by the provider; the drain flag | `acquire`, `release` (also on drop), `begin_drain`, `can_switch`, `open_gate`, `set_provider_activity` | `Activity`, `WorkGate` |
| runtime supervisor and ports, `runtime/`, `commands/runtime.rs`, `platform/*/net.rs` | a table of entries with a phase and a listener's handle; the one port | `start_mcp_service`, `stop_mcp_service`, `drop_workspace`, `mark_error`, status refresh | `RuntimeService` |
| workspace activation, `workspace/activation.rs`, `commands/activity.rs` | the active workspace and its phase, under the `workspace_activation` lock | activate (resume, restart, switch), deactivate, their rollbacks; the start at launch | `WorkspaceActivation` |
| session events, `session/events.rs` | a bounded log per session with revisions | `append`, `page`, `list` | `SessionEvents` |
| session coordinator, `session/` | bindings of sessions to provider threads, turn guards, pending questions, session states, one monitor task | start, input, compact, cancel, respond; the handling of provider events | `SessionCoordinator` |
| provider adapter, `provider/` | the app-server process, its pending requests, a broadcast channel of events | requests with timeouts, restart of a process that ended, `reconfigure_permission_mode` | partly, `SessionCoordinator` |
| provider checkpoints, `session/memory.rs` | one JSON file per turn, beside the history archive | checkpoint, recall | as calls of `HistoryArchive` |
| catalogue, settings and secrets, `data/`, `workspace/`, `settings/`, `secret/` | one copy in memory behind a mutex and one JSON file | create, edit, delete, port assignment and validation, saves, `SecretStore`, migration | `DataStore`; the migration is left out |
| MCP server, tool dispatch, policy, `mcp/`, `tools/dispatch.rs` | none of their own | exposure, permission and execution checks, then a tool | what surrounds a tool that writes: `TaskHarness`; the listener: `RuntimeService` |
| file, patch, git and image tools, `tools/` | the files of the workspace | read, search, patch, git, images | `PatchTool` for `apply_patch`; the others are left out |
| exec sessions, `tools/exec.rs`, `tools/session.rs` | running commands with buffered output | run, poll, write, kill, evict | `ExecSessions`; paging of the output is left out |
| history archive, `tools/history/` | numbered Markdown files, derived index, manifest and state, a lock file | bootstrap, checkpoint, validate, search, read | `HistoryArchive` |
| harness, `harness/` | one JSON file per task, an event log per task, a log of operations | start, update, pause, resume, finish; the check before a tool that writes; paging of the logs | `TaskHarness`, `OperationLog`; the reports are left out |
| authentication, `auth/` | registered clients, pending codes, secrets that sign tokens | the OAuth code flow, refresh, bearer checks | `OAuthFlow`; the fixed bearer token is left out |
| OpenAI connector, `commands/openai_connector.rs`, `tunnel/openai.rs` | its process, two secrets, a switch | save, start, stop | `OpenAiConnector` |
| tunnel supervisor, `tunnel/supervisor.rs`, `commands/tunnel.rs` | routes, child processes and sessions per workspace; the health of each | start, stop, restart, test, orphan cleanup, health loop | `TunnelSupervisor`; in `RuntimeService` a step that may fail |
| frpc process, `tunnel/frp/` | the process, its pid file, an operation lock file | stop and start, across lives of the application | `FrpClient` |
| tunnel programs, `tunnel/software.rs`, `tunnel/download.rs`, `tunnel/cloudflare.rs` | the files of frpc and cloudflared | install, update, uninstall | `TunnelSoftware` |
| Codex route, `web_models/codex_route.rs` | `config.toml` of Codex, a journal in two files | install, restore, migration of older installs | `CodexRoute` |
| browser turns, `web_models/browser_turn.rs` | the ChatGPT page, the stream of an answer | navigate, submit, stream, complete | `TurnStream` |
| web models bridge, `web_models.rs`, `web_models/proxy.rs` | the window, four atomics, the local endpoint or its helper process | connect, disconnect, exit, start, native drain | `WebBridge` |
| platform, health, update, logs, frontend | none with a protocol | one-shot queries, views | not modelled |

How they interact. `app_state.rs` owns one of each. Commands of the frontend and
MCP requests run as Tokio tasks. A tool call, an execution, a Codex turn and a
provider operation each hold an *activity guard* of their workspace. An
activation takes the `workspace_activation` lock, closes the *gate* of the
workspace it leaves (no new guard), checks that no guard is alive, and then
stops and starts services through the runtime supervisor, whose table has its
own lock that is not held across awaits. The session coordinator asks the
app-server for turns; the app-server's events come back through a broadcast
channel to one monitor task, which gives the guards back.

What is hard here:

- the code between two awaits is atomic and nothing else is: most state is read
  under one lock, used after an await, and written under another;
- three procedures change the runtime table without the activation lock: the
  start at launch, the deletion of a workspace, and the status refresh;
- every failure has a hand-written rollback, and each has to reopen a gate;
- a reply and an event about the same turn take different ways to the same
  record;
- processes (app-server, listener, tunnel) end by themselves, and some (frpc, the
  drain helper) outlive the application;
- several files change one after another, and the application may end between them: the
  route's journal, the archive and what is derived from it, the pid of a process;
- the bridge coordinates operations, requests and probes by atomics alone;
- the data file has two writers, the copy in memory and `SecretStore`, and a write of
  it may fail or be cut off.

## The modules

### WorkGate and Activity

`WorkGate` is what the rest of the program relies on: work enters through an open
gate only, gates are closed one at a time, and a workspace is handed over empty
and stays empty until its gate is opened.

`Activity` is `activity/coordinator.rs`. `inner` is the map of the code: a partial
function whose absent entries read as the default (`unwrap_or_default`), with
entries removed by the tail of every mutator when they are idle and open. One
action is one acquisition of the mutex. `begin_drain` is two, `CloseGate` and
`CheckGate`, because the code releases the mutex between them. `drainer` is what
the holder of `workspace_activation` is doing; it is a history of the protocol
the callers follow, and `WorkspaceActivation` shows that they follow it. `u32`
counters saturate at `MaxCount`; the assumption that no more guards live than
that is the named assumption of the module.

Checked by `activity`: the counters are the number of live guards of each kind
(`CountersMatchGuards`); a granted drain has no work inside (`GrantIsQuiet`); a
gate is closed exactly while the lock holder drains (`GateFollowsDrainer`);
no idle entries pile up (`NoIdleEntries`); the coordinator implements `WorkGate`.
Three guards are two of one kind and one of another on two workspaces, enough for
an entry to be removed and made again under a live guard of another; the
configuration is symmetric in workspaces and in guards.

### RuntimeService

The table of `runtime/supervisor.rs`, the port, and the start and stop procedures
of `commands/runtime.rs`. A procedure is a `job` of its caller and each step is the
code between two awaits. All workspaces share the port, since `apply_global_config`
overwrites the port of every profile. Dropping or overwriting an entry drops the
shutdown sender of its listener, so `Closing` says a listener ends when its entry
is not running. `Faults` switches on the kinds of failure: the system query or the
key store, the bind, the routes, the tunnel, detaching, a listener that dies, another
program on the port. `Reclaims` is the platform's ability to close a port of its
own process.

Checked by `runtime`, with two workspaces, two callers, every kind of failure,
reclaimed ports and a deletion beside them: an entry at "stopping", which refuses every start
of its workspace, has a procedure under way that removes it (`StoppingIsBeingStopped`);
each procedure ends (`JobEnds`). Two callers are every overlap of two procedures.

A deletion waits for the port of the profile as it was saved, not for the global one: in
`DropWorkspace` the listener may end within the wait, be reclaimed after it, or still hold its
port. That it is off the port when the deletion goes on is what a comment promises, and
`runtime_drop` shows violated (see the findings).

`RunningOwnsPort`, that a running entry owns the port and two are never running,
is not asked of that run: an entry whose listener died stays running until a
refresh notices, and meanwhile another workspace may take the port. It is checked
by `activation`, where listeners live until they are told to stop, and proved in
`RuntimeProofs` and, beside the calls, in `ActivationProofs`, for any number of callers
under that hypothesis.

Left out: the counter of the refresh (any check may be the third in a row), and the
choice of the URL.

### WorkspaceActivation

Extends `RuntimeService` with the calls of `workspace/activation.rs` and instantiates
`Activity`, whose `drainer` is a function of the step the call is at (`Drainer`).
`op` is the one call that holds the lock; its `pc` runs through the code's steps,
and each early return is an action or a disjunct of one. Two callers of jobs
exist: the lock holder (`"activation"`) and the start at launch (`"boot"`), which
does not take the lock. The work is one guard that comes and goes anywhere, and
status probes run beside everything.

- `activation`: every fault of services, probes and saves, except listeners that die.
  A running entry owns the port (`RunningOwnsPort`), what is served is the
  active workspace (`ServedIsActive`), a rollback that reports success restored the
  service and a call that reports success leaves the workspace it activated served
  (`ReportsAreTrue`), and the calls use the gates as `Activity`
  says (`ImplementsActivity`): with the theorems about `Activity`, no service is
  stopped while work of its workspace is in progress, and no gate is left closed.
- `activation_live`: with the start at launch, a deletion, dying listeners and reclaimed
  ports, every call releases the lock (`CallEnds`) and every gate is opened again
  (`GateReopens`).

### SessionEvents

`session/events.rs` for one session, and a client that follows the log with a cursor, as the tool
`codex_session_events` offers it. Text is identified by the revision that last changed it. The part
"events" of `desktop` has two runs of the application and a log of two events: it overflows, merges
and is emptied by a restart. The client never shows a hole (`ViewHasNoHole`), and until the restart
every poll delivers all the log holds (`PollDelivers`); together `FollowerSeesAll`, a conjunct of
the run's `FollowersSeeAll`. The client is not in the repository; its merge is what the fields of a
page are for (a `reset` page replaces, any other updates and appends).

### SessionCoordinator

`session/coordinator.rs` over one app-server. A caller's `call` goes through a
command's steps between awaits; `binding` is `CodexBinding`; `monitor` is the task
that handles events, one at a time, in two steps where the code updates the store
first and the binding later. The app-server is modelled from how the code uses it:
it runs one thing at a time in a thread it has loaded, in the order requested;
threads are loaded by `thread/start` and `thread/resume` in this process; turns end,
fail, ask questions and compact by themselves, with the fault `"fast"` also before
the call has recorded their reply (`InTime`). The other faults are the
environment: refused requests, drained workspaces, timeouts, a process that
crashes and is replaced or not, a lagging channel, a change of permissions.

The code has races that it does not guard against, and a caller may be any view of the
interface (`commands/provider.rs:93` takes no lock). They are all in the model, and `astray` is
the history of those that have happened: `LosesGuard` names the four steps by which the guard of
a turn is lost, `ComesLate` the late writes of a state, `LosesEvent` an event that no monitor hears or
that overflowed. A property that a race breaks says until when it holds; each race is one of the
findings or of the disagreements below.

- `sessions`: a session restored from the store and two callers, each of whom may give turns,
  compact, cancel and answer, with questions, automatic compactions, refusals, timeouts, early and
  lost events, drained workspaces and a process that may end. Until a guard is lost, what the app-server
  does is covered by one (`GuardCoversTurn`); while nothing went astray the state shown agrees
  with the work (`ShownState`), no session is busy without work (`BusyMeansTurn`) and a question
  belongs to the turn its session is in (`PendingIsCurrent`).
- `sessions_fault`: tasks are created, turned to and cancelled while the app-server crashes, is
  replaced, or is shut down for a change of permissions: every command returns (`CallEnds`), and every
  guard is given back (`GuardReleased`) unless an event was lost or its turn waits for the user.
- `sessions_uncovered`: without any fault, one cancel is enough to break `TurnIsGuarded`, the
  claim without `astray` (see the findings).

One session is enough because sessions share the monitor and the process only, and an event names
its session; `SessionProofs` has any number. Two turns in a thread (`MaxTurn`) are what it takes
for an event of one to meet the other, two processes (`MaxGen`) for a monitor to listen to the wrong
one. `sessions` has the constraint `GuardsKept`: a state with a lost guard is reached and checked, and what
follows is not explored, since no invariant but the type says anything there. These runs may stop when
every bound is used up, and do not check deadlock for that reason.

### DataStore and OpenAiConnector

`DataStore` is the data of `AppState` and its file (`data/`), with the commands on
workspaces: what each claims, a port and an FRP subdomain, is given out and validated by
`workspace/resources.rs`. `Commit` is a command's change of the copy and its save,
`UpdateFile` the read and write of `SecretStore`, which does not know the copy. A write
may fail and leave the file as it was or cut off (`Torn`), and a file that does not parse
reads as no data (`Read`). `OpenAiConnector` adds the commands of the connector, whose
MCP secret is the one thing the program creates through `SecretStore`: a start reads
or creates it, writes it to the file the process reads, spawns the process, waits and
saves the switch; a save of the settings is two sections of the mutex, and two writes.

Checked by `desktop` (its part "connector"): no two workspaces claim one port or subdomain in the copy or in
the file (`ClaimsDistinct`), and until a write fails the file holds what was saved, also
where `SecretStore` wrote to it (`SavedIsDurable`). Two workspaces, two ports and one
subdomain are a conflict of each kind and an allocation with nothing left; one caller of the
connector suffices to interleave its start and its save with the commands, and one secret
(`MaxToken = 1`) is enough to lose it. The deletion waits for the service and the
tunnel; here it is the removal of the profile only, and the waiting is in
`RuntimeService`. The rollback of a failed tunnel restart, which writes a profile
without validating it, is in `TunnelSupervisor`.

### ExecSessions

A command that a client runs through `exec_command`, and the session that outlives the
call (`tools/exec.rs`, `tools/session.rs`). `record` is `ExecSession` as the properties see
it: whether it is in the table (`stored`), whether its activity guard is held, whether the
end was recorded, and the reason. `call` is the step of the `exec_command` that made the
session; `monitor` the task that enforces the deadline and the eviction it schedules (one
follows the other); `client` the later calls, of which `kill_session` has four steps: it
looks, marks the reason, signals and waits with the mutex of the child, and settles. While
it waits nobody else refreshes or kills (`ChildFree`). The end of a process is recorded by
whoever asks first, and the guard is given back there.

Checked by `services` (its part "exec"), while the process ends when it likes and ignores signals: while a
command runs its workspace is busy and it is in the table, so that it can be killed
(`RunningIsCovered`); no killed process is said to have exited and
none to have timed out early (`ReasonIsTrue`); whatever clients do, in the end nothing
holds the workspace and the session is evicted (`NothingLingers`); a later call returns
(`ClientReturns`). These two, with `OperationEnds` and `DeadIsNoticed` below, are the conjuncts of
`EverythingEnds`. One session is enough because sessions share nothing but the table,
where each has its own key; two calls beside the monitor are two kills and a poll in every
order. Everything may be over, so deadlock is not checked. The output buffers and their
paging, the native diagnostics and the resolution of programs are left out.

### FrpClient

One workspace's frpc process as the operating system sees it (`tunnel/frp/client.rs`,
`restart_workspace_frpc`). `live` is what runs, `recorded` the pid file, `lock` the operation
lock file, and `app` an instance of the application with the step of its operation: take the
lock (removing that of a dead holder in two steps), stop its own child, stop the recorded one,
spawn, record the pid, wait until it is ready (eight seconds), and try again for 35 seconds while the
server still holds the proxy. A kill may fail, the pid may not be written, and an instance may end at
every step, also between the spawn and the record; its frpc lives on. `slipped` is the history of a
frpc that was alive when its record was given up.

Checked by `services` (part "frpc"): every process that runs is recorded or about to be
(`NoneForgotten`), hence there are never two (`OneFrpc`, proved), until one slipped, which is a
disagreement below; and every operation ends (`OperationEnds`). Three process ids are one
more than the properties allow and let ids be reused.

### TunnelSoftware

The files of frpc and cloudflared (`tunnel/software.rs`, `tunnel/download.rs`,
`tunnel/cloudflare.rs`). frpc comes in an archive that is kept and unpacked, cloudflared is
written in place, asked for its version and marked. Any write may stop in the middle, an
uninstallation may come at any time, the application may end, and installations of one program
run beside each other: `install_software`, the launch (`Startup`) and a tunnel that starts (`Ensure`)
each begin one. `Ensure` answers at once where it finds a file (`"found"`), as `ensure_frpc` does.

Checked by `services` (part "software"): an installation that reports success left a whole
program, until another one creates the file anew or it is uninstalled (`OkMeansWhole`), whatever
archive an earlier attempt left. Two installations at once are every overlap of two writers of one
file. The state is finite without a bound.

### TunnelSupervisor

Routes, processes and sessions of the tunnels and the commands on them (`tunnel/supervisor.rs`,
`tunnel/access.rs`, `commands/tunnel.rs`). The supervisor is one Tokio mutex held for a whole
operation, so an operation is one step whose outcomes are a set (`Start`, `Stop`, `Replace`,
`RestartRolling`, `EnsureFrpc`); a command is several steps, with the profile it read first:
sync the routes with the saved profiles, look, act, and after a failure write the profile
back. `line` is what the supervisor keeps of a workspace: the route, the configuration its
frpc runs with, the session's address, its cloudflared child, the pid shown. A process may
end at any time; the health loop finds it in `Heal`.

Checked by `services` (part "tunnels"): a command that fails leaves a line that was up with
its route, its process either serving the old address or none (`FailureKeepsLine`); a start that
succeeds is served as it says (`StartedIsServed`; the two are `AnswersAreTrue`); a dead process is
noticed (`DeadIsNoticed`).
One workspace with two subdomains, an invalid line, Cloudflare and no tunnel is every kind of
replacement; one command runs beside the stops, the saves and the health loop. Conflicts of two
workspaces are `ClaimsDistinct` of `DataStore`, and in the supervisor a refusal (`Conflicts`).

### OAuthFlow

How a client obtains its tokens (`auth/oauth_flow.rs`): registration, the page, the approval,
the exchange of the code in the steps between the two accesses of the table, refresh, expiry.
`url` is the address the server is reached by, which a quick tunnel changes; `secret` the
generation of the runtime, since replacing the secrets makes a new runtime without codes while
requests under way keep the old one. A login stands for its PKCE challenge; whoever presents
another verifier presents that of another login or none.

Checked by `desktop` (part "oauth"): a code is worth one pair of tokens (`CodeOnce`); the pair goes
to the client that was approved and to the login that asked (`GrantMatchesApproval`); tokens are
for the address the exchange came by (`IssuedIsUsable`); together `GrantsAreSound`. Two requests on
one code are the race for
it, two clients and two addresses are every mismatch, one replacement of the secrets is an
exchange on each side of it.

### HistoryArchive

The session archive (`tools/history/`) and the provider checkpoints beside it
(`session/memory.rs`). A document is a session key, the first inputs and the records of
checkpoints; a derived file is represented by the archive it was built from, so "the manifest
is current" is an equality. A call waits for the lock, scans, decides, writes the archive, scans
again, writes the manifest and then the state; it may fail or the application may end between
any two. Search and read take no lock: a search lists the files and then reads one after the other.
Files are also edited by hand (removed or copied), while no call holds the lock; and `state.json` may be
lost, or a read of it fail, which the code takes for no state (`StateFile`, `LoseState`).

Checked by `desktop` (part "history"): revisions of a turn count up from one without repeating a
text (`RevisionsChain`); no call takes away what a file holds or gives a session a second file
(`AppendOnly`); what was answered is stored (`AnsweredIsStored`); the state's revision grows while
`state.json` can be read (`StateRevisionGrows`); a search misses no file that held the word when it
began, although calls write meanwhile and the manifest is behind (`SearchFinds`); a client that reads page by page gets one version of the file (`ReadIsWhole`). The properties of
states are the conjuncts of `ArchiveIsTrue`, those of steps of `ArchiveOnlyGrows`, which the run
checks in `FilesAreTrue` and `RecordsHold`. Two calls in progress
and three in all, two keys, two files of at most two records are two writers of one session, and a
third call on what they left; a page of four bytes against characters of one and three bytes
cuts inside a character.

### CodexRoute

The reversible change of Codex's `config.toml` (`web_models/codex_route.rs`): the line of the
endpoint and the line of the model catalogue that an older version installed, and the journal with
the user's lines in a primary and a recovery file. Each write is a step, after which the process
may end; the user edits the file at any time between two operations. `mine` is the history of
what the user wrote.

Checked by `desktop` (part "route"): the user's line is in the configuration, or ours is and the
journal that would be read has the user's (`UserValueKept`). Two edits are one before and one
after any interruption.

### TurnStream

A request answered through the ChatGPT page (`web_models/browser_turn.rs`): the page before the
answer (reuse or navigation, effort, prompt, click), the stream (`stable_stream_end`, common
prefixes, completed blocks, the gate that holds back what may become a tool call), the
reconciliation of what was streamed with the final text, and the response task that receives the
deltas through a bounded channel. The page may show anything at every render. Text is a sequence
of symbols; white space is left out.

Checked by `desktop` (part "turn"): the task never has to report a divergence or text before a tool
call (`NeverContradicts`); the deltas add up to the announced text, which is the page's unless it was
rewritten (`TextIsWhole`); while an answer is read the page shows one turn (`OwnAnswer`); together
`StreamIsAnswer`. Three
symbols with a marker of two are a message, a marker cut off and a marker with a call; the second
turn is explored after a first whose page was empty at its end, because a turn keeps
nothing of the one before it but the page.

### WebBridge

Connecting and disconnecting (`web_models.rs`, `web_models/proxy.rs`, `lib.rs`) over the flags that
operations, requests and probes share: `mode`, `seen`, `busy`, `closing`. `op` is the step of each
operation between awaits, `turn` a request for a web model, `devtools` the DevTools call in progress with
its guard, `stray` one that was given up, at its deadline of thirty seconds or with the turn that made it
(`DropGuard`), and whose work in the window goes on uncounted,
`helper` the process that drains after this one ended, `thread` what one loaded Codex thread is
bound to. Every step may fail as the code's `?` says, and the process may end anywhere.
`strained` marks the behaviours a property excludes, which are listed at `RouteServed`.

Checked by `desktop` (part "web"): Codex is never left configured for a port nobody holds
(`RouteServed`); the window is closed with no call that holds its guard working in it (`DestroyIsQuiet`;
the calls given up are a disagreement below); after a
disconnect a thread does not go on consuming ChatGPT (`DisconnectedIsNative`; with the first
`EndpointIsRight`). Two operations let one
begin while another's guard is gone. States after a strained step are not explored, since
the properties say nothing there.

### PatchTool

`apply_patch` and `patch_check` (`tools/patch.rs`), one call and the files. `patch` is the call:
its sections, what is staged for each path, the copies (`backup`) and where it is. `StageSection`
applies a section in memory to what is on the disk; `CopyFile` is the first pass of
`commit_staged`, with the copy and the temporary file; `DeleteFile`, `RemoveTarget` and
`ReplaceFile` the second; `GiveUp` and `RestoreBackups` its undoing; `ReturnEarly` is every `?`.
Each operation on a file may fail, and others may write a file at any step. A crash is a behaviour
that stops, since nothing is done about it at the next start.

Checked by `desktop` (part "patch"): a patch is applied whole or not at all (`PatchIsWhole`, a
conjunct of `FilesAreTrue`): success means every file is what its sections make of it one after the other,
an error means nothing changed, and in every state between a file has its old or its new content, or
is missing with the new one in a temporary file beside it. Excepted are the files others
wrote, calls of which a copy could not be read or written back, and the files with a section that
works on what an earlier one made (`Overlooked`), where the code does not do so (see the disagreements). Two files of one line at most and
one below `.git`, all patches of at most two sections out of four per file, two failures: one that
makes the call give up and one while it undoes.

### OperationLog

A log of the harness (`harness/store.rs`: `append_jsonl`, `list_jsonl`), the operations of a
workspace or the events of a task. `writeln!` writes the text and the end of the line one after
the other (`AppendText`, `AppendEnd`), and calls append on threads of their own. A line is the
sequence of the texts written on it; it is a record if it is one whole text. A page stops at the
first line that is not.

Checked by `desktop` (part "log"): a client that goes on from the cursor it was given receives each
record once and in the order of the file, and a record whose append has returned can be read as
long as no two texts met on a line (`LogReadsBack`, a conjunct of `FollowersSeeAll`). Two appenders,
three records, one failed write and one restart: two texts on a line, an empty line, and a text that
was cut off.

### TaskHarness

The tasks (`harness/state.rs`, `harness/model.rs`, `harness/tools.rs`) and what
`tools/dispatch.rs` does before and after a tool that writes. A call reads the file of a task
(`StartTask`, `Transition`, `UpdateSteps`, `RunTool`), changes the copy, and writes it back with no lock:
`SaveTask` empties the temporary file, `WriteTemp` fills it, `RenameTask` puts it in place, and
`FailSave` is an error at each. All calls that save a task share that file, and who has it open writes on
wherever it is moved. `BeginOperation` reads which task is current, with the error dropped;
`CheckBaseline` reads it again and checks the head and the files against those it expects; `CaptureTree` is
the refresh of what it expects, after the tool. `tree` and `head` are the files and the commit, changed by tools and by others
(`ChangeOutside`). `stale` and `raced` say that a copy from before another save is held, and that one was
saved.

Checked by `desktop` (part "harness"), together `TasksAreTrue`, a conjunct of `RecordsHold`: there is
one writable task at most and every task's file is whole, as long as no old copy was saved (`OneTask`);
a task that ended stays ended while no call holds an old copy (`EndIsFinal`); and, whatever is saved from
an old copy, no tool that writes starts under a task whose files were changed by others while no such tool
ran (`OutsideIsSeen`). Two calls at a time on two tasks are a start beside a start and a save
beside a save; three calls with two changes of the files and a commit, four where there is no race, one
change and no commit.

### Services and Desktop

Components that share no state are composed in one system and checked in one run. `Services` puts
`ExecSessions`, `FrpClient`, `TunnelSoftware` and `TunnelSupervisor` together, `Desktop` the other ten;
`MCServices` and `MCDesktop` give them their small instances. The variable `part`, chosen in the initial
state, says which component moves, and the others keep their initial states. The states add up instead of
multiplying, and every component's properties are checked where it moves. Two components that could
interact through shared state are never in two parts. The fairness of a component that does not move
is met, because none of the steps it speaks of is a step of the run. `MCDesktop` has the constraint
`Explored`, which cuts behaviours at what is said in its comment: what is renamed only (the first
call of the archive is by `h1`, for `k1`, with `x1`, the first of the harness by `f1` for `t1`;
callers, keys, texts and tasks are interchangeable), states where every property has gone out of
force, and products of bounds that are reached one by one. No liveness property is checked under
that constraint. Both runs may stop when every bound is used up, and do not check deadlock.

## Fairness

Tokio polls every task that is ready: weak fairness of the steps of the jobs, of the
calls that hold the lock, of the session calls and of the monitor. A listener that
was told to stop ends or is aborted after three seconds: weak fairness of
`CloseListener`. The interface polls the provider's status (`Poll`). A turn
that waits for nobody ends. The steps of a session's monitor and of `kill_session` are
strongly fair, because Tokio's mutex is handed out in the order it is asked for, so that other
calls cannot keep it from them; a write to a process returns once the process has ended. Nothing is
assumed of the user, of other programs, of
work in progress, of questions being answered or of commands being called.
`ImplementsActivity` and `ImplementsWorkGate` are safety properties and use none.

Of the tunnels: each step of an operation on frpc waits for something with a deadline of its own,
and the deadlines pass (`FrpClient`); the health loop
runs every twenty seconds and its pause after a restart ends (`TunnelSupervisor`). Nothing is
assumed of frpc becoming ready, of a lock being released by another program, or of the application
being started again. The other modules state no fairness and only safety properties.

## Findings

Each is a run that TLC shows violated, on a line the code or its docs promise.

- `runtime_drop` (`commands/workspace.rs:55`): a deletion waits for the port its profile was saved
  with, although the comment at `runtime/port.rs:193` asks that the port of the listener be really
  released; it goes on while the listener still holds the global port.
- `sessions_uncovered` (`session/coordinator.rs:521`): events release a binding by session and not
  by turn; the late completion of a turn whose cancel failed releases the next turn. The comment at
  `app_state.rs:125` has the coordinator's guards own the turns (`TurnIsGuarded`).
- `connector_secret` (`tunnel/openai.rs:252`): the secret is created in the file only, and
  the save at the end of the same start (`commands/openai_connector.rs:125`) overwrites
  the file with the copy in memory, which does not have it: the listener refuses the
  process that was just started.
- `web_drain` (`web_models/proxy.rs:359`): a disconnect takes the note that threads have used
  the bridge before it knows whether it succeeds. When restoring the route fails, the disconnect that
  is tried again finds no note and stops the endpoint under a loaded thread, which the comment at
  `web_models.rs:957` promises to keep from breaking.

The models show more disagreements, which no run keeps. Each appears when a passing
run's configuration is changed as said and only the named property is checked:

- the start at launch does not take the activation lock, so an activation asked for meanwhile
  interleaves with it, and the end is a workspace that is served and is not the active one
  (`commands/runtime.rs:37`; `docs/DEVELOPMENT.md:45` promises one active workspace that all
  tools resolve against): `MCActivation` with `BootChoice` as `MCWorkspace`, nothing deletable
  and no faults, `ServedIsActive`;
- a deletion while the workspace is being started leaves its listener running, and every
  way to stop it looks up the profile that is gone (`commands/workspace.rs:54`):
  `MCActivation` with `Deletable` as `OnlyA` and no faults, `ServedIsActive`;
- after a failed start, a refused stop, restart or switch shows as active a workspace that
  nothing serves (`workspace/activation.rs:386`): seen in `MCActivation` with an invariant
  that the active workspace is served;
- revisions start again after a restart, and a cursor ahead of the new log is not reset
  (`session/events.rs:133`): `PollDelivers` without its condition `run = 1`;
- a turn that completes before its id is recorded leaves the session busy with a turn that
  is over (`session/coordinator.rs:375`): `MCSessions`, `BusyMeansTurn` without `astray = {}`;
- two calls on a session that is not bound both resume its thread, and the second inserts its binding
  over the first, which may hold the guard of a turn by then (`session/coordinator.rs:112`, a check and an
  insertion with an await between; `commands/provider.rs:93` takes no lock): `MCSessions`,
  `TurnIsGuarded` with two callers that may call `"input"` only and no faults;
- a cancel whose interrupt failed gives back whatever guard the session has by then
  (`session/coordinator.rs:265`), a turn whose request timed out runs without its guard
  (`provider/app_server.rs:135`), and so does one in a process that was started before the monitor
  noticed the end of the old one, whose sessions it then fails (`session/coordinator.rs:662`): with
  the one above, these are the steps of `LosesGuard`;
- states are also written late: a call that failed marks its session after another call has begun, an
  answer is recorded after its question is gone (`ComesLate`): `ShownState` without `astray = {}`;
- no monitor hears the first events while it subscribes, nor those of a process that replaced the one it
  listens to (`session/coordinator.rs:400`), and it passes over those that overflowed; a session whose
  turn ended so stays busy: `MCSessionsFault`, `GuardReleased` without `astray`;
- a change of permissions checks for active turns and shuts the app-server down after an await
  (`provider/app_server.rs:211`), so that it may end a turn;
- the input is written before the loop that watches the deadline, so a command that does not
  read it runs past its deadline (`tools/exec.rs:279`); if the write fails the call returns without
  the id of the session, no monitor is started, and the end is never recorded
  (`tools/exec.rs:285`): `MCServices`, `NothingLingers` without the exceptions it makes;
- a monitor that saw a process run marks a timeout although a poll recorded its end
  meanwhile, and the reason shown changes (`tools/exec.rs:348`): visible in
  `MCServices` with an action property that a recorded reason stays;
- `read_output` compares an offset in what is retained with the bytes of the whole stream, so that
  once output was dropped there always is a next page (`tools/session.rs:350`): read in the
  code, the paging is not modelled.

Of the tunnels, each visible in the module named or read in the code it maps:

- `restart_tunnel`, `start_tunnel` and `test_tunnel` sync the routes with the saved profiles first,
  so that what a failed replacement restores is the new route, not the one that served
  (`commands/tunnel.rs:122`; the comments at `commands/tunnel.rs:129` and
  `tunnel/supervisor.rs:263` say otherwise): `FailureKeepsLine` without its condition that the
  route is what the process runs;
- the profile that is written back after a failed restart is not validated, and another workspace
  may have taken its subdomain (`commands/tunnel.rs:57`); two routes with one subdomain may also
  come from the sync, which asks for no conflicts;
- the sync makes a session show the address of the saved profile while its process runs the old one;
- a restart by the health loop that fails removes the process from the map and is not tried again,
  since the loop looks at the processes in the map (`tunnel/supervisor.rs:90`);
- the rolling restart from FRP to Cloudflare stops the FRP line before Cloudflare can fail;
- two instances of the application have two frpc of one workspace, because the pid file has room for
  one (`tunnel/frp/client.rs:97`, which says the lock prevents it): `FrpClient` with two instances,
  `OneFrpc`;
- a frpc that runs is lost to the record, and the next start puts a second one beside it, where the
  application ends between the spawn (`tunnel/frp/client.rs:349`) and the pid file (`:354`), where a
  process survives the kill after a failed start or a failed record, since nobody looks whether it is over,
  and where the program was replaced under it, so that its image is not the recorded one
  (`:235`): `NoneForgotten` without `slipped`;
- a tunnel that starts takes any file of frpc for the program (`tunnel/frp/client.rs:192`), also one that
  a crash or an installation beside it left cut off; and of two installations at once one may answer
  that it succeeded while the other has emptied the file: `OkMeansWhole` for `"found"` too, or
  without `crossed`;
- an archive of frpc that was cut off is used again by every installation until frpc is uninstalled,
  and the version marker of cloudflared survives its uninstallation and a failed reinstallation.

Of the history archive:

- content that a turn had in an earlier revision counts as a duplicate, so that a change from A to B
  and back to A leaves B as the latest (`tools/history/mod.rs:291`);
- `current_focus` takes the highest revision over all turns, not the latest record
  (`tools/history/storage.rs:501`);
- the state's revision starts over at one when `state.json` is missing or cannot be read, because every
  writer drops the error (`tools/history/mod.rs:187`, `:318`, `:530`, and `:38` after a provider
  checkpoint): `StateRevisionGrows` without `edits' = edits`;
- a provider checkpoint is written before the refresh; if that fails, the retry writes a second file
  (`session/memory.rs:80`).

Of the web models bridge:

- an install that was interrupted after the recovery file was written leaves a journal that every
  later restore and install refuses, since the configuration is not the installed one; the comment
  at `web_models/codex_route.rs:363` promises the opposite: `CodexRoute`, `Restorable`;
- `config.toml` is read and written without asking whether it changed between, so that an edit
  at that moment is lost (`web_models/codex_route.rs:282`);
- a turn sets and clears the busy flag without looking (`web_models/browser_turn.rs:472`), so that a
  second operation comes in beside the first; `RouteServed`, `DestroyIsQuiet` without `strained`;
- a connect takes any answer on the port for its own bridge, also that of a helper that comes up late
  (`web_models/proxy.rs:213`); one that finds the route installed and cannot bind leaves Codex
  configured for a port nobody holds: `RouteServed` without `strained`;
- a call is given up after thirty seconds (`web_models.rs:1089`) or when the request of its turn is
  dropped (`web_models/browser_turn.rs:696`), and its guard with it, while what it posted to the window goes
  on; a disconnect counts no call and destroys the window under it: `DestroyIsQuiet` with `stray`
  in `Working`;
- when restoring the route returns an error, the endpoint stays in the mode of a drain
  (`web_models.rs:964`);
- a turn that is dropped between the click and the page's showing it leaves a message that the next
  turn may find on a page it took for empty: `OwnAnswer` without `late`.

Of the patch tool, each read in the code that `PatchTool` maps:

- two sections that update one file both start from the file on the disk, and the second replaces
  what the first staged: its changes are lost and the call reports success
  (`tools/patch.rs:66` handles an added file only), though `tools/registry.rs:215` says the patch is applied
  transactionally: `PatchIsWhole` without `Overlooked`;
- when a file to be deleted is gone by the second pass, or cannot be resolved, the call returns
  without undoing what it has replaced (`tools/patch.rs:471`, the `?`), and leaves its temporary
  files: `PatchIsWhole` where an error excepts the files others wrote, and no more;
- when it gives up, the temporary files are removed before the copies are written back
  (`tools/patch.rs:490`); on Windows, where a target is removed before the rename, a crash between
  the two leaves neither content: `PatchIsWhole` without `patch.pc # "undo"`;
- a file that cannot be read is copied as an empty one, and an undo makes it empty: `PatchIsWhole`
  without `spoiled`.

Of the harness:

- a call that read a task before another one finished it writes it back as it was
  (`harness/state.rs:133`): `TasksAreTrue` with `EndIsFinal` without `stale`. Two starts may both find no
  task, where the test at `src-tauri/tests/harness_state.rs:45` says that one writable task is
  allowed: `OneTask` without `raced`;
- all calls that save a task write one temporary file, which each empties first (`harness/store.rs:197`), so
  that the one that is first puts a file in place that is empty, half written or mixed; the task cannot be
  read from then on: `OneTask` without `raced`;
- a tool that writes runs unchecked beside a task when the list of tasks cannot be read, because
  the error is dropped (`tools/dispatch.rs:73`): `BeginOperation`;
- the expected files are refreshed after a tool that succeeded only, and the expected head
  never. After a command that failed with changes, or that made a commit, every later write is
  refused until the task ends, because no tool refreshes what the task expects;
- the text and the end of a line are two writes (`harness/store.rs:132`). Two appends at a
  time, or one after a crash between the two, put two texts on one line, and every page of the log
  ends there from then on: `LogReadsBack` without `mixed`.

## What is proved

`ActivityProofs`, from `ActivityAssumption` (finitely many guards, at most `MaxCount`
alive, zero among the observed counts), for any workspaces and guards:

- `TypeCorrect`, `CountersCorrect`, `GrantedIsQuiet`, `GatesFollowDrainer`: the
  types of the coordinator and the invariants of the run `activity`. They are proved together: the
  counters can only
  be typed if they are the cardinalities of sets of guards (so that adding one
  stays below the saturation and removing one above zero); an entry can only be
  forgotten without loss because an idle, open record is the default one
  (`IdleIsDefault`); and a granted drain is quiet because the second critical section
  saw zero counters, which are the guards, and because the gate stays closed while
  the drainer is not idle.
- `Refinement`: `Spec => ImplementsWorkGate`, from those invariants, one step per action.
- `MapStaysSmall`: `NoIdleEntries`; every mutator ends with the removal of what it left idle, and a
  record that another one reads is not touched.

`RuntimeProofs`, from `RuntimeAssumption`, for any number of workspaces and callers:

- `RuntimeTypeCorrect`: the type invariant, strengthened by two facts without which it
  is not inductive: a job in progress names a workspace, and so does a deletion,
  one of the `Deletable`.
- `RunningIsOwner`: `RunningOwnsPort` under `ListenersAreKept` (listeners do not die by themselves
  and no port is reclaimed). The port changes hands only when it is free or the entry
  of its owner is not running, and an entry becomes running only with the port.
- `NothingIsStuckStopping`: `StoppingIsBeingStopped`, for every choice of faults and deletions: the
  procedure that marks an entry ends only after it has removed it, and a deletion or a failure that
  comes between takes the entry away and leaves none at "stopping".

What a deletion promises of the port (`DropReleasesPort`) does not hold, see the findings.

`ActivationProofs`, from `ActivationAssumption`, for any number of workspaces, callers and units of
work; it extends `RuntimeProofs` and instantiates `ActivityProofs`:

- `ActivationTypeCorrect`: `TypeOK`, for every choice of faults, of deletions and of the start
  at launch. The gates and counters are typed by the invariant of
  `ActivityProofs`, which the calls keep because each of their steps is one of `Activity`.
- `CallsDrain`: `ImplementsActivity`, one lemma per step: a step of a call is one of the drainer or a
  stutter, work comes and goes as guards do, everything else leaves the coordinator alone.
- `CallsLeaveQuietly`: a workspace that a call stops, restarts or switches away from has no unit of
  work. It follows from `GrantIsQuiet` of `Activity` along the refinement, and needs no more
  than which steps come after a granted drain.
- `ActivationRunningIsOwner`: `RunningOwnsPort`, under `ListenersAreKept`, from the lemmas of
  `RuntimeProofs`: the start at launch and the probes are procedures like any other.
- `RunningIsActive` (`ServedIsActive`), `OneIsServed`: whatever failed on the way, what runs between two
  calls is the active workspace, and there are never two. The invariant says, for each step of a call,
  which of source and target may run (`SourceIsDown`, `CallsKnowActive`), whose procedure is in
  progress (`CallsProcedure`, `NobodyElse`), and that nobody else has a running entry (`OnlyOwnerRuns`).
- `CallsReportTruth`: `ReportsAreTrue`, from that invariant and what a call knows of the result of the
  procedure it waited for.

The last three assume `OneAtATime`, that nothing is deleted or started at launch beside
the calls, as in the run `activation`, and the last also `ListenersAreKept`. Neither can be dropped:
the start at launch does not take the lock, and a deletion or a listener that dies takes away
what a call has just started (see the disagreements).

`SessionProofs`, from `SessionAssumption` (finitely many callers), for any number of sessions, callers,
turns and processes:

- `SessionTypeCorrect`: `TypeOK`, for every choice of faults and operations. That no turn number leaves
  `0 .. MaxId` needs a count: a session's last number and the calls that may still ask for a turn of it
  are together at most the bound (`TurnsBounded`).
- `TurnsAreCovered`: `GuardCoversTurn`, without a hypothesis: any callers give turns, cancel and answer,
  the process ends and is replaced, events come early, late or never. Until a step of `LosesGuard` the
  guard is released in three ways, and for each the invariant says why its session is at rest. A call
  that failed asked for a turn and got none; an event that ends a turn is the last one of its session in the
  queue, and no turn begins before it is handled, because the guard stays until then; and once the process
  has ended nothing works (`Covered`, `CoverInv`, one lemma per step).

`LosesGuard` cannot be left out: the run `sessions_uncovered` shows the guard lost to a cancel. That
`ShownState`, `BusyMeansTurn` and `PendingIsCurrent` hold until something goes astray is what the run
`sessions` checks, and is not proved.

`AccessProofs`, on `OpenAiConnector` with `DataStore`, from `DataAssumption`, for any number of workspaces, ports, subdomains and
callers:

- `StoreTypeCorrect`, `ClaimsStayDistinct`, `SavesAreDurable`: the three properties of the
  connector in the run `desktop`, by one inductive invariant, their conjunction. Every step of the
  connector is,
  for the data, one of four (`StepOnData`): the commit of data with distinct claims, a save cut
  off between two such writes, a new secret in what the file holds, a start of the program;
  `StoreStep` shows the invariant for each. A created workspace gets a port nobody claims because
  a non-empty set of ports has a lowest one (`LowestPort`), and a reload after a cut-off write
  finds no claims at all.

`ServicesProofs`, on `Services` and the modules it composes. Of the commands, from `ExecAssumption`, for
any number of commands and of later calls:

- `ExecTypeCorrect`, `RunningStaysCovered`, `ReasonsAreTrue`: the invariants of the
  commands in the run `services`, by one inductive invariant. It adds to them who may rely on what:
  a session that is
  handled was spawned (`HandledIsMade`), a running one has its guard, its place and no recorded
  end (`RunningIsCovered`), who forgets a session relies on an end that happened
  (`EndsHappened`), who kills has left a reason that stands (`KillersGaveReason`), and who speaks of
  a timeout saw the deadline pass (`TimeoutsAreDue`). A reason may replace another, as when a kill
  overtakes a timeout, and each step's lemma says only that a reason for killing stays one.

Of frpc, from `Sole` (one instance of the application), for any number of process ids:

- `FrpTypeCorrect`, `NoFrpcIsForgotten`, `NeverTwoFrpc`: until a process slipped, the one that runs is the
  recorded one or the one about to be recorded, and at the steps that take the record away or
  replace it nothing runs (`GoneBeforeForgotten`), whatever kill or write has failed before. At most one
  process is traced so, hence there are never two. `Sole` is needed: with two instances the properties
  fail; and `slipped` is, as said under the disagreements.

Of the programs and the tunnels, for any number of workspaces, subdomains and commands:

- `InstallationsAreWhole`: `OkMeansWhole`, for any number of installations at once. The invariant adds that
  the one that is about to mark its program has verified it, and that a file nobody crossed is
  what its installation left there (`SoftwareInv`); another creation and an uninstallation mark the jobs they
  cross.
- `AnswersStayTrue`: `AnswersAreTrue`, both its parts. A command acts in one critical section, so that
  the proof is about the outcomes of `Start`, `Replace` and `RestartRolling`: which of them report
  failure, and with which line (`RollBackFails`). The invariant is what a command has read by then:
  its provider is a subdomain that was saved (`CommandsRead`), and one that is rolled
  back has a route to go back to.
- `ServicesTypeCorrect`: `TypesOK`, of all four, from `Sole`.

`AccessProofs`, on `OAuthFlow`, from `OAuthAssumption` (there is an address, the bound of the secrets is a number), for any
logins, clients, addresses and requests:

- `OAuthTypeCorrect`, `CodesAreUsedOnce`, `GrantsAreApproved`, `TokensWorkWhereAsked`, and the three as
  `GrantsStaySound`: a code is in one place, the table, one request that took it, or used up
  (`OnePlace`); that is why two
  requests cannot both be answered, and why the client and the login compared are those approved.

`AccessProofs`, on `CodexRoute`, for any number of edits:

- `UserNeverLoses`: `UserValueKept`, with what each step of an install or a restore knows of the
  files it has written (`WorkKeeps`), and with the fact that a recovery file that is alone and
  in use was written by an install without a catalogue (`RecoveryAlone`).

`AccessProofs`, on `WebBridge`, without a hypothesis, for any number of operations:

- `CodexIsServed`, `WindowIsQuiet` (of the calls that hold their guard), `StaleThreadIsNative`, `EndpointStaysRight`: the invariants of
  the bridge in the run
  `desktop`. Their invariant holds until something strained the bridge: one operation works at a
  time (`Alone`), a disconnect has set the closing flag (`Marked`), has put the route back where it
  waits for calls (`PutBack`) and has seen none where it closes the window (`Quieted`), a
  connect holds the port where it installs the route (`Bound`), and an installed route has its
  port unless the connect that gave it up is about to bind it (`Held`). The third adds that an
  endpoint of this process drains while no connect has come as far as the port since a
  disconnect (`Afterwards`).

`DesktopProofs`, on `Desktop`, from the assumptions of the components, for any number of calls, keys,
turns, files, tasks, events, records and failures: what names nothing is not a name, bounds are
numbers, and the hunks of a patch make a text of a text. The last is assumed (`PatchBounds`) because
applying hunks is a fold over them, about which the provers cannot do the induction; TLC evaluates it on
the patches of the run. The steps of the components are proved in `RecordProofs` and
`AccessProofs`, `DesktopProofs` puts them together:

- `FilesStayTrue`: `FilesAreTrue`, from `ArchiveInv` and `PatchInv`. Of the archive: a call decides
  by the files there are, since it holds the lock when it reads them and until it writes
  (`HoldsTheLock`, `DecidesByNow`); the revisions of a turn are the positions of its records (`Chains`), so that appending the next
  number keeps them; a page ends where a character does (`ReaderInv`), so that pages put together
  are the text; and every file that held the word when a search began, and still exists, is among those it
  has read with the word or has still to read (`SearchInv`), since files only grow. The pages need that an offset is a number, which is why `Offset` counts the characters of
  two bytes instead of summing widths by a fold. Of a patch: one predicate for each phase. While sections
  are applied, what is staged is what the last section of each path makes of the old file
  (`StagePhase`); in both passes, the order hits every file once (`OrderIs`, by the pigeonhole principle),
  so that the files before the current one are the new ones and those after it are the old
  ones, with temporary files beside them (`CopyPhase`, `WritePhase`); in the undo, what is not copied was
  not touched (`UndoPhase`).
- `NothingIsTakenBack`: `RecordsHold`. Of the archive, that a step without an edit extends each file
  (`Grows`) and that the state's number grows where it could be read, since the lock's holder reads the
  number it adds to. Of the harness: what a task expects is never newer than the files are (`FilesArePast`), a
  task whose files others changed is behind for good (`MarkedIsBehind`), because its copies are too,
  wherever they are (in a call, in a temporary file); and a copy that is not
  stale is the task as it is saved, in the temporary file too unless a stale one got there
  (`CopiesAreFresh`, `TempIsFresh`), so that it is no older than an end.
- `FollowersAreServed`: `FollowersSeeAll`. Of the events of a session: the log numbers its events without
  a gap and their revisions grow (`LogIsOrdered`), although a merge of a delta moves the last
  event to a later revision; and what the client shows ends with an event of an earlier run or with the
  one that was last at its last poll, so that each event after it has its own revision
  after the cursor (`Behinds`, `ViewIsBehind`): if the log has dropped one of them, its
  oldest revision is more than one after the cursor and the page is a reset. Of the logs of the harness: a record
  comes first on one line at most (`FirstsDiffer`), the client has the first records of the lines before
  its cursor (`PageIsStart`), and until two texts meet on a line one call at most has written its
  text without the end of the line (`OneWrites`).

- `StreamStaysAnswer`: `StreamIsAnswer`, for any texts, marker, anchors, hold and capacity of the
  channel. What the client received, what is in the channel and what is still to be let
  through are the deltas that the gate has divided the emitted text into (`Divided`), the
  gate holds back only what may yet become the marker of a tool call (`GateHolds`), and what
  was emitted only grows and begins the answer, whichever way the page was rewritten
  (`InTurn`, `FinalExtends`). Hence a message never disagrees with what was streamed, and nothing
  is streamed before a tool call. That the answer is the turn's own is a count of clicks and of turns
  shown (`PageIsOwn`).
- `DesktopTyped`: `TypesOK`, of all ten, with what the types rest on and is not said by the
  invariants above: the focus that the archive's state shows is a text, or there is none (`ShownTyped`), no
  more lines are torn or processes restarted than the run allows (`LogLimits`), the staged and saved
  files of a patch are texts (`FilesAreTexts`, `CallIsOfTexts`).

These proofs found four mistakes in the models, since corrected: `TaskHarness` did not count as raced a
stale call's file that another call put in place; `Updated` of `PatchTool` named its cases so that two
applied to a file to be deleted that is not there, and `FileText` had a bound on its lines that only
the patches of the run keep; `TurnStream` took an anchor that overlaps itself for one that the page has
twice, where `match_indices` counts the places that do not overlap.

Only model-checked: liveness (`JobEnds`, `CallEnds`, `GateReopens`,
`GuardReleased`, `EverythingEnds`), which is out of the prover's reach; and `ShownState`,
`BusyMeansTurn` and `PendingIsCurrent` of the sessions.

## Not modelled

- The table of tools, their schemas and policy: a request is checked against the settings it reads
  and passed to a tool; nothing changes state between two of its steps. The classification of
  command lines is parsing, for which a model would repeat the parser.
- File, git and image tools, and the parsing of patches: one call each, which reads files or
  runs a process; their correctness is in the text of files.
- The reports of the harness (`harness_status`, `project_state`), which only read, and its
  `state.json`, which nothing reads.
- Migration of data files, the profiles of FRP servers, the rendering of configurations and
  the parsing of logs: functions on text.
- Platform, health, update, logs, window: calls of the operating system and one-shot queries.
- Frontend: views over the commands.

## Plan

What is left, in this order:

1. The proof of `ShownState`, `BusyMeansTurn` and `PendingIsCurrent` until something goes astray, as the run
   `sessions` checks them.
2. The composition of `ExecSessions` and `SessionCoordinator` with `Activity`, whose guards they take
   and return; of `TunnelSupervisor` with the claims of `DataStore`.
3. The output of `ExecSessions`: the retained part of a stream and the pages of `read_output`.
4. `TunnelSupervisor` with two workspaces, and `FrpClient` with two instances under the properties
   that two instances do keep.

## Running

`tlc -workers 2 -config X.cfg M` checks one configuration of module `M`, the pairs being
listed under "runs" in `PROJECT.json`; `tlapm M.tla` checks the proofs of `M`. The
longest run, `desktop`, takes about three minutes on two cores; the longest
proof, `RecordProofs`, about six.
