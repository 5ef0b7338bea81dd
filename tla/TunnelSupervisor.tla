-------------------------- MODULE TunnelSupervisor --------------------------
(***************************************************************************)
(* The tunnels of the workspaces (tunnel/supervisor.rs, tunnel/access.rs)  *)
(* and the commands that start, stop, restart and test them                *)
(* (commands/tunnel.rs).  The supervisor is one mutex, held for the whole  *)
(* of an operation: an operation is one step, with every outcome the       *)
(* processes allow.  A command makes several, with the saved profiles and  *)
(* the runtime changing in between, and goes on with the profile it read   *)
(* first.                                                                  *)
(*                                                                         *)
(* A configuration is an FRP subdomain, an FRP line that validation        *)
(* refuses, a Cloudflare tunnel, or no tunnel.  How the operating system's *)
(* processes of FRP are found and replaced is FrpClient; with one instance *)
(* of the application its lock is always obtained.                         *)
(***************************************************************************)
EXTENDS Naturals, FiniteSets

CONSTANTS Workspace, Subdomain,
          Invalid, Cloudflare, Off,        \* the other configurations
          NoConfig,                        \* no route, no session
          Caller, NoWs,
          Choices   \* [Workspace -> the configurations its user tries]

VARIABLES saved,    \* [Workspace -> the configuration in the saved profile]
          served,   \* the workspaces whose MCP runtime is starting or running
          line,     \* [Workspace -> what the supervisor keeps of it]
          suspect,  \* the workspaces whose last probe was unhealthy
          cool,     \* the workspaces whose last automatic restart is recent
          cmd       \* [Caller -> the command it runs]

vars == <<saved, served, line, suspect, cool, cmd>>

Frp == Subdomain \cup {Invalid}
Config == Frp \cup {Cloudflare, Off}

\* `frpc`: the configuration the process runs with, "dead" if it is over,
\* "none" without one; `cf`: the cloudflared child of the session; `url`:
\* what the session tells users, NoConfig without a session; `pid`: whose
\* pid the session shows.
Lines == [route : Frp \cup {NoConfig}, frpc : Subdomain \cup {"none", "dead"},
          url : Config \cup {NoConfig}, cf : {"none", "live", "dead"},
          pid : {"none", "frpc", "cf"}]
Sessionless(l) == [l EXCEPT !.url = NoConfig, !.cf = "none", !.pid = "none"]
NoLine == [route |-> NoConfig, frpc |-> "none", url |-> NoConfig, cf |-> "none",
           pid |-> "none"]

Do == {"start", "restart", "test", "runtime"}
Cmds == [pc : {"idle", "sync", "probe", "act", "rollback", "undo", "ok", "failed"},
         do : Do,
         ws : Workspace \cup {NoWs}, p : Config \cup {NoConfig},
         was : BOOLEAN, back : Frp \cup {NoConfig}]
NoCmd == [pc |-> "idle", do |-> "start", ws |-> NoWs, p |-> NoConfig,
          was |-> FALSE, back |-> NoConfig]

Init == /\ saved = [w \in Workspace |-> Off]
        /\ served = {}
        /\ line = [w \in Workspace |-> NoLine]
        /\ suspect = {}
        /\ cool = {}
        /\ cmd = [k \in Caller |-> NoCmd]

-----------------------------------------------------------------------------
(* What one workspace's line becomes.                                      *)

FrpcAlive(l) == l.frpc \in Subdomain
PidAlive(l) == \/ l.pid = "frpc" /\ FrpcAlive(l)
               \/ l.pid = "cf" /\ l.cf = "live"

\* session_is_running
IsRunning(l) == IF l.route # NoConfig THEN FrpcAlive(l) /\ l.url # NoConfig
                                      ELSE PidAlive(l)

\* sync_frp_sessions_for_workspace: a session without a child goes with its
\* route; the one of a route shows the route's address and the given pid.
SyncSession(l, pid) ==
    IF l.route = NoConfig
    THEN IF l.cf = "none" THEN Sessionless(l) ELSE l
    ELSE [l EXCEPT !.url = l.route, !.pid = pid]

\* Mutant of PidOf: the state of the process.
PidShown(l) == l.frpc

PidOf(l) == IF l.frpc = "none" THEN "none" ELSE "frpc"

\* restart_workspace_frpc: the process is stopped; then what comes next fails,
\* there is no route to run, or a process runs the route.
RestartFrpc(l) ==
    LET stopped == SyncSession([l EXCEPT !.frpc = "none"], "none")
    IN  {[ok |-> FALSE, line |-> stopped]}
        \cup {[ok |-> TRUE, line |-> stopped] : c \in {l.route} \cap {NoConfig}}
        \cup {[ok |-> TRUE, line |-> SyncSession([stopped EXCEPT !.frpc = c], "frpc")] :
                  c \in {l.route} \cap Subdomain}

\* Mutant of EnsureFrpc: a live process is taken for the right one.
EnsureAlive(l) ==
    IF l.route # NoConfig /\ FrpcAlive(l)
    THEN {[ok |-> TRUE, line |-> SyncSession(l, PidOf(l))]}
    ELSE RestartFrpc(l)

\* ensure_frpc_matches_routes: a live process with this very configuration
\* is left alone.
EnsureFrpc(l) ==
    IF l.route # NoConfig /\ l.frpc = l.route
    THEN {[ok |-> TRUE, line |-> SyncSession(l, PidOf(l))]}
    ELSE RestartFrpc(l)

\* restore_route_state
RestoreRoute(l, was) ==
    [l EXCEPT !.route = IF was.route # NoConfig THEN was.route ELSE l.route,
              !.url = IF was.url # NoConfig THEN was.url ELSE l.url,
              !.cf = IF was.url # NoConfig THEN was.cf ELSE l.cf,
              !.pid = IF was.url # NoConfig THEN was.pid ELSE l.pid]

\* Taken back, and the process made to match again; that may fail as well.
RollBack(l, was) ==
    {[ok |-> FALSE, line |-> r.line] :
         r \in EnsureFrpc(RestoreRoute([l EXCEPT !.route = NoConfig], was))}

\* validate_frp_route_compatibility
Conflicts(w, c) == \E v \in Workspace \ {w} : line[v].route = c

\* Mutant of StartFrp: what was there before is not put back.
StartFrpLossy(w, c) ==
    LET was == line[w]
        bare == Sessionless([was EXCEPT !.route = NoConfig])
    IN  IF Conflicts(w, c) THEN {[ok |-> FALSE, line |-> bare]}
        ELSE UNION {IF r.ok THEN {[ok |-> TRUE, line |-> SyncSession(r.line, PidOf(r.line))]}
                    ELSE {[ok |-> FALSE, line |-> [r.line EXCEPT !.route = NoConfig]]} :
                    r \in EnsureFrpc([bare EXCEPT !.route = c])}

\* start, of an FRP line: the old route and session are set aside until the
\* new process is ready, and put back when anything fails.  What is set aside
\* for good is dropped, the cloudflared child with it.
StartFrp(w, c) ==
    LET was == line[w]
        bare == Sessionless([was EXCEPT !.route = NoConfig])
    IN  IF Conflicts(w, c) THEN {[ok |-> FALSE, line |-> was]}
        ELSE UNION {IF r.ok THEN {[ok |-> TRUE, line |-> SyncSession(r.line, PidOf(r.line))]}
                            ELSE RollBack(r.line, was) :
                    r \in EnsureFrpc([bare EXCEPT !.route = c])}

\* spawn_cloudflare_tunnel, and the session it is kept in; a frpc of the line
\* it replaces is not stopped.
Connected(l) == [l EXCEPT !.route = NoConfig, !.url = Cloudflare, !.cf = "live", !.pid = "cf"]

\* start, of a Cloudflare line: nothing to do when a session runs, whatever
\* kind of line it is.
StartCloudflare(l) ==
    IF IsRunning(l) THEN {[ok |-> TRUE, line |-> l]}
    ELSE {[ok |-> FALSE, line |-> l], [ok |-> TRUE, line |-> Connected(l)]}

\* What validate_tunnel_requirements refuses leaves the line alone; a line
\* that runs is not looked at when it is not to be an FRP line.
Start(w, c) ==
    CASE c \in Subdomain -> StartFrp(w, c)
      [] c = Invalid -> {[ok |-> FALSE, line |-> line[w]]}
      [] c = Cloudflare -> StartCloudflare(line[w])
      [] c = Off -> {[ok |-> IsRunning(line[w]), line |-> line[w]]}

\* stop_internal: an FRP route first leaves, then the process must match; any
\* other session's process is killed.
Stop(l) ==
    IF l.route # NoConfig
    THEN UNION {IF r.ok THEN {r} ELSE RollBack(r.line, l) :
                r \in EnsureFrpc(Sessionless([l EXCEPT !.route = NoConfig]))}
    ELSE {[ok |-> TRUE, line |-> [Sessionless(l) EXCEPT
              !.frpc = IF l.cf = "none" /\ l.pid = "frpc" /\ FrpcAlive(l) THEN "dead" ELSE @]]}

\* restart_cloudflare_rolling: the connector of the line stays until the next
\* one is ready; an FRP line is stopped first.
RestartRolling(l) ==
    IF l.route # NoConfig
    THEN UNION {IF r.ok THEN StartCloudflare(r.line) ELSE {r} : r \in Stop(l)}
    ELSE IF IsRunning(l)
    THEN {[ok |-> FALSE, line |-> l], [ok |-> TRUE, line |-> Connected(l)]}
    ELSE StartCloudflare(l)

\* A command on a line that runs: replaced in place, or stopped and started.
Replace(w, c) ==
    CASE c \in Frp -> Start(w, c)
      [] c = Cloudflare -> RestartRolling(line[w])
      [] c = Off -> {[ok |-> FALSE, line |-> r.line] : r \in Stop(line[w])}

-----------------------------------------------------------------------------
Become(w, l) == line' = [line EXCEPT ![w] = l]
Done(k) == cmd' = [cmd EXCEPT ![k] = NoCmd]
Goto(k, pc) == cmd' = [cmd EXCEPT ![k].pc = pc]
Idle(k) == cmd[k].pc = "idle"

\* The user saves other tunnel settings.  validate_workspace_resources_update
\* lets no two saved profiles have the same subdomain.
Edit(w, c) ==
    /\ c \in Choices[w]
    /\ \A v \in Workspace \ {w} : c \in Subdomain => saved[v] # c
    /\ saved' = [saved EXCEPT ![w] = c]
    /\ UNCHANGED <<served, line, suspect, cool, cmd>>

\* The runtime of the active workspace; RuntimeService says when.
Serve(w) == /\ served = {} /\ served' = {w}
            /\ UNCHANGED <<saved, line, suspect, cool, cmd>>
Unserve(w) == /\ w \in served /\ served' = {}
              /\ UNCHANGED <<saved, line, suspect, cool, cmd>>

\* start_tunnel, restart_tunnel and test_tunnel read the profile and validate
\* its resources against the other profiles; start_mcp_service reads it for
\* the runtime it just started.
Begin(k, w, do) ==
    /\ Idle(k)
    /\ IF do = "runtime" THEN w \in served
       ELSE saved[w] \in Subdomain => \A v \in Workspace \ {w} : saved[v] # saved[w]
    /\ cmd' = [cmd EXCEPT ![k] = [NoCmd EXCEPT !.pc = "sync", !.do = do, !.ws = w,
                                              !.p = saved[w]]]
    /\ UNCHANGED <<saved, served, line, suspect, cool>>

\* restore_active_frp_routes: the served workspaces get the routes of the
\* saved profiles, whatever their process runs with, and every workspace that
\* has a process shows its routes.
WithRoutes(w) ==
    LET l == IF w \in served /\ saved[w] \in Frp
             THEN [line[w] EXCEPT !.route = saved[w]] ELSE line[w]
    IN  IF l.frpc # "none" \/ (w \in served /\ saved[w] \in Frp)
        THEN SyncSession(l, PidOf(l)) ELSE l

SyncRoutes(k) ==
    /\ cmd[k].pc = "sync"
    /\ line' = [w \in Workspace |-> WithRoutes(w)]
    /\ Goto(k, IF cmd[k].do = "test" THEN "probe" ELSE "act")
    /\ UNCHANGED <<saved, served, suspect, cool>>

\* test_tunnel asks in one section of the mutex and acts in the next.
ProbeLine(k) ==
    /\ cmd[k].pc = "probe"
    /\ cmd' = [cmd EXCEPT ![k].pc = "act", ![k].was = IsRunning(line[cmd[k].ws])]
    /\ UNCHANGED <<saved, served, line, suspect, cool>>

\* What the supervisor may do for the command.
Outcomes(k) ==
    LET w == cmd[k].ws
        was == IF cmd[k].do = "test" THEN cmd[k].was ELSE IsRunning(line[w])
    IN  CASE cmd[k].do = "runtime" /\ cmd[k].p = Off -> {[ok |-> TRUE, line |-> line[w]]}
          [] cmd[k].do = "start" \/ (cmd[k].do = "runtime" /\ cmd[k].p # Off) -> Start(w, cmd[k].p)
          [] cmd[k].do \in {"test", "restart"} /\ was -> Replace(w, cmd[k].p)
          [] cmd[k].do = "test" /\ ~was -> Start(w, cmd[k].p)
          [] OTHER -> {[ok |-> TRUE, line |-> line[w]]}

\* The answer of a command, with its line as `l`: a failed FRP replacement
\* rolls the saved profile back to the route that is there now; a test that
\* nothing serves is undone, as is the tunnel of a runtime that failed.
Answer(k, ok, l) ==
    LET c == cmd[k] IN
    CASE ok /\ ~(c.do = "test" /\ c.ws \notin served) -> Goto(k, "ok")
      [] ok /\ c.do = "test" /\ c.ws \notin served -> Goto(k, "undo")
      [] ~ok /\ c.do = "runtime" -> Goto(k, "undo")
      [] ~ok /\ c.do \in {"restart", "test"} /\ c.p \in Frp /\ l.route # NoConfig ->
            cmd' = [cmd EXCEPT ![k].pc = "rollback", ![k].back = l.route]
      [] OTHER -> Goto(k, "failed")

Act(k) ==
    /\ cmd[k].pc = "act"
    /\ \E r \in Outcomes(k) : Become(cmd[k].ws, r.line) /\ Answer(k, r.ok, r.line)
    /\ UNCHANGED <<saved, served, suspect, cool>>

\* restore_tunnel_config: refused when the profile changed meanwhile, in a
\* field that is abstracted here too; otherwise saved without validation.
RestoreConfig(k) ==
    /\ cmd[k].pc = "rollback"
    /\ \/ UNCHANGED saved
       \/ /\ saved[cmd[k].ws] = cmd[k].p
          /\ saved' = [saved EXCEPT ![cmd[k].ws] = cmd[k].back]
    /\ Goto(k, "failed")
    /\ UNCHANGED <<served, line, suspect, cool>>

Undo(k) ==
    /\ cmd[k].pc = "undo"
    /\ \E r \in Stop(line[cmd[k].ws]) : Become(cmd[k].ws, r.line)
    /\ Done(k)
    /\ UNCHANGED <<saved, served, suspect, cool>>

\* The answer reaches the caller; persist_public_url saves the address only.
Return(k) ==
    /\ cmd[k].pc \in {"ok", "failed"}
    /\ Done(k)
    /\ UNCHANGED <<saved, served, line, suspect, cool>>

\* stop_tunnel, or the stop of the runtime.
StopTunnel(w) ==
    /\ \E r \in Stop(line[w]) : Become(w, r.line)
    /\ UNCHANGED <<saved, served, suspect, cool, cmd>>

\* cleanup_orphan: the profile the task carries is of the runtime that ended;
\* a route that says something else by now is a newer one.
CleanupOrphan(w, c) ==
    /\ w \notin served
    /\ line[w].route \in {NoConfig, c}
    /\ StopTunnel(w)

\* drop_workspace, before a workspace is deleted: as a stop, but a session it
\* cannot tell the process of is left alone.
DropWorkspace(w) ==
    /\ line[w].route # NoConfig \/ line[w].url = NoConfig \/ line[w].cf # "none"
    /\ StopTunnel(w)

\* Mutant of Heal: only what still has a live process is looked at.
HealLive(w) ==
    /\ FrpcAlive(line[w])
    /\ suspect' = suspect \cup {w}
    /\ UNCHANGED <<saved, served, line, cool, cmd>>

\* heal_unhealthy_frpc, at a workspace that has a process: over, or alive but
\* not routed as its log or the public address shows.  The second finding in
\* a row restarts it, unless that was done in the last 90 seconds.
Heal(w) ==
    /\ line[w].frpc # "none"
    /\ \/ /\ FrpcAlive(line[w])
          /\ suspect' = suspect \ {w}
          /\ UNCHANGED <<line, cool>>
       \/ /\ line[w].frpc = "dead" \/ line[w].route # NoConfig
          /\ IF w \notin suspect \/ w \in cool
             THEN /\ suspect' = suspect \cup {w}
                  /\ UNCHANGED <<line, cool>>
             ELSE \E r \in RestartFrpc(line[w]) :
                    /\ Become(w, r.line)
                    /\ suspect' = IF r.ok THEN suspect \ {w} ELSE suspect
                    /\ cool' = IF r.ok THEN cool \cup {w} ELSE cool
    /\ UNCHANGED <<saved, served, cmd>>

CoolDown(w) == /\ w \in cool /\ cool' = cool \ {w}
               /\ UNCHANGED <<saved, served, line, suspect, cmd>>

\* The process ends by itself.
FrpcEnds(w) == /\ FrpcAlive(line[w])
               /\ line' = [line EXCEPT ![w].frpc = "dead"]
               /\ UNCHANGED <<saved, served, suspect, cool, cmd>>
CloudflaredEnds(w) == /\ line[w].cf = "live"
                      /\ line' = [line EXCEPT ![w].cf = "dead"]
                      /\ UNCHANGED <<saved, served, suspect, cool, cmd>>

CommandStep(k) == SyncRoutes(k) \/ ProbeLine(k) \/ Act(k) \/ RestoreConfig(k) \/ Undo(k)
                  \/ Return(k)

Next ==
    \/ \E w \in Workspace :
         \/ \E c \in Config : Edit(w, c) \/ CleanupOrphan(w, c)
         \/ Serve(w) \/ Unserve(w) \/ StopTunnel(w) \/ DropWorkspace(w)
         \/ Heal(w) \/ CoolDown(w) \/ FrpcEnds(w) \/ CloudflaredEnds(w)
    \/ \E k \in Caller :
         \/ \E w \in Workspace, do \in Do : Begin(k, w, do)
         \/ CommandStep(k)

\* The health loop runs every 20 seconds, and time passes.
Fairness == \A w \in Workspace : WF_vars(Heal(w)) /\ WF_vars(CoolDown(w))
Spec == Init /\ [][Next]_vars /\ Fairness

-----------------------------------------------------------------------------
TypeOK == /\ saved \in [Workspace -> Config]
          /\ served \subseteq Workspace
          /\ line \in [Workspace -> Lines]
          /\ suspect \subseteq Workspace
          /\ cool \subseteq Workspace
          /\ cmd \in [Caller -> Cmds]

Acts(k) == cmd[k].pc = "act" /\ cmd'[k].pc # "act"

\* A line that is up keeps its address through a command that fails: either
\* its process serves the old subdomain again, or it could not be started
\* again; never is it left with what failed, nor without its route.  (The
\* comment in start: 当前可用线路不会因为一次点击而丢失.)  What sync did to the
\* routes before is not undone: see README.
FailureKeepsLine ==
    [][\A k \in Caller :
         LET w == cmd[k].ws
         IN  (/\ Acts(k) /\ cmd'[k].pc \in {"rollback", "failed"} /\ cmd[k].p \in Frp
              /\ FrpcAlive(line[w]) /\ line[w].route = line[w].frpc)
             => /\ line'[w].route = line[w].route
                /\ line'[w].frpc \in {line[w].frpc, "none"}]_vars

\* A command that reports an FRP tunnel as started leaves a process that runs
\* with the very subdomain the command read, and a status that says so.
StartedIsServed ==
    [][\A k \in Caller :
         LET w == cmd[k].ws
         IN  (/\ Acts(k) /\ cmd'[k].pc = "ok" /\ cmd[k].p \in Subdomain
              /\ cmd[k].do \in {"start", "runtime", "test"})
             => line'[w].frpc = cmd[k].p /\ line'[w].url = cmd[k].p]_vars

\* A tunnel process that died is noticed by the health loop, also when it
\* died right after an automatic restart.
DeadIsNoticed ==
    \A w \in Workspace : line[w].frpc = "dead" ~> line[w].frpc # "dead"

\* The answer of a command is true of the line it leaves: of one that failed,
\* that what was up is not lost; of one that succeeded, that it serves.
AnswersAreTrue == FailureKeepsLine /\ StartedIsServed
=============================================================================
