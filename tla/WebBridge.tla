------------------------------- MODULE WebBridge -------------------------------
(***************************************************************************)
(* The web models bridge: connecting and disconnecting Codex               *)
(* (web_models.rs, web_models/proxy.rs, lib.rs).  Connecting opens the     *)
(* ChatGPT window, serves a local endpoint and points the configuration of *)
(* Codex at it (CodexRoute).  Disconnecting puts the configuration back    *)
(* and closes the window; a thread Codex has loaded keeps the endpoint it  *)
(* was loaded with, so the endpoint goes on in "native drain", in this     *)
(* process or in a helper process, and passes its requests to the official *)
(* backend.  The flags are atomics that operations, requests and the       *)
(* status probe share.                                                     *)
(***************************************************************************)
EXTENDS Naturals

CONSTANT Op           \* operations (connect, disconnect) at one time

VARIABLES app,          \* the process: "up", "leaving", "down"
          mode,         \* MODE: "browser" or "drain"
          seen,         \* BROWSER_REQUEST_SEEN
          busy,         \* BROWSER_BUSY
          closing,      \* BROWSER_CLOSING
          window,       \* the ChatGPT window exists
          port,         \* who holds 17841: "free", "main", "helper"
          helper,       \* the helper process: "none", "binding", "serving"
          route,        \* Codex is configured for 17841
          codex,        \* the Codex desktop server runs
          thread,       \* a thread of it: "none", "bridge", "web", "lost"
          op,           \* where each operation is
          turn,         \* a request for a web model
          devtools,     \* the DevTools call that holds DEVTOOLS_SERIAL and its guard
          stray,        \* a call whose guard was dropped still works in the window
          disconnected, \* no connect came as far as the port since the last disconnect
          strained      \* what RouteServed leaves out has happened

wvars == <<app, mode, seen, busy, closing, window, port, helper, route, codex, thread, op, turn,
           devtools, stray, disconnected, strained>>
world == <<app, helper, codex, thread>>
flags == <<mode, seen>>
calls == <<devtools, stray>>

NoOp == [pc |-> "idle", was |-> FALSE]
NoDevTools == [by |-> "none", step |-> "none"]
InFlight == devtools.step \in {"counted", "calling"}
NoOperation == \A o \in Op : op[o] = NoOp
OpAt(o, pc) == app # "down" /\ op[o].pc = pc
Go(o, pc) == op' = [op EXCEPT ![o].pc = pc]

WebInit ==
    /\ app = "up" /\ mode = "browser" /\ seen = FALSE /\ busy = FALSE /\ closing = FALSE
    /\ window = FALSE /\ port = "free" /\ helper = "none" /\ route = FALSE
    /\ codex \in BOOLEAN /\ thread = "none"
    /\ op = [o \in Op |-> NoOp] /\ turn = "idle" /\ devtools = NoDevTools /\ stray = FALSE
    /\ disconnected = TRUE /\ strained = FALSE

-----------------------------------------------------------------------------
\* BusyGuard.  A turn sets and clears the flag without looking (BusyFlag), so
\* a second operation may come in.
Enter(o, pc) ==
    /\ app = "up" /\ op[o] = NoOp /\ ~busy
    /\ busy' = TRUE /\ Go(o, pc)
    /\ strained' = (strained \/ ~NoOperation)

\* The guards of a connect, and of a disconnect, are dropped.
ConnectEnds(o) == op' = [op EXCEPT ![o] = NoOp] /\ busy' = FALSE
DisconnectEnds(o) == op' = [op EXCEPT ![o] = NoOp] /\ busy' = FALSE /\ closing' = FALSE

Connect(o) ==
    /\ Enter(o, "window")
    /\ UNCHANGED <<world, flags, closing, window, port, route, turn, calls,
                   disconnected>>

\* ensure_browser_window; create_browser_window refuses while one is closing.
EnsureWindow(o) ==
    /\ OpAt(o, "window")
    /\ IF window \/ ~closing
       THEN window' = TRUE /\ Go(o, "page") /\ UNCHANGED busy
       ELSE ConnectEnds(o) /\ UNCHANGED window
    /\ UNCHANGED <<world, flags, closing, port, route, turn, calls, disconnected,
                   strained>>

\* The page does not load: once through the local proxy, in a new window.
Recreate(o) ==
    /\ OpAt(o, "page") /\ ~InFlight
    /\ IF closing THEN window' = FALSE /\ ConnectEnds(o)
                  ELSE window' = TRUE /\ UNCHANGED <<op, busy>>
    /\ UNCHANGED <<world, flags, closing, port, route, turn, calls, disconnected,
                   strained>>

\* Signed in; or the user closes the window, or the page never comes.
SignIn(o) ==
    /\ OpAt(o, "page") /\ devtools.by # "connect"
    /\ \/ Go(o, "retire") /\ UNCHANGED <<window, busy>>
       \/ window' \in {window, FALSE} /\ ConnectEnds(o)
    /\ UNCHANGED <<world, flags, closing, port, route, turn, calls, disconnected,
                   strained>>

\* retire_external_native_drain: whoever drains gives the port up, or does not
\* in time.
Retire(o) ==
    /\ OpAt(o, "retire")
    /\ \/ /\ port = "helper" /\ port' = "free" /\ helper' = "none"
          /\ \/ Go(o, "bind") /\ UNCHANGED busy
             \/ ConnectEnds(o)
       \/ /\ port = "main" /\ mode = "drain" /\ port' = "free"
          /\ Go(o, "bind") /\ UNCHANGED <<helper, busy>>
       \/ /\ port = "free" \/ (port = "main" /\ mode = "browser")
          /\ Go(o, "bind") /\ UNCHANGED <<port, helper, busy>>
    /\ UNCHANGED <<app, codex, thread, flags, closing, window, route, turn, calls, disconnected,
                   strained>>

\* ensure_started_with_mode(BROWSER): a bridge that answers will do.
Bind(o) ==
    /\ OpAt(o, "bind")
    /\ mode' = "browser"
    /\ \/ port # "free" /\ Go(o, "install") /\ UNCHANGED <<port, busy>>
       \/ port = "free" /\ port' = "main" /\ Go(o, "install") /\ UNCHANGED busy
       \/ port = "free" /\ ConnectEnds(o) /\ UNCHANGED port
    /\ strained' = (strained \/ port = "helper" \/ (route /\ port' = "free"))
    /\ disconnected' = FALSE
    /\ UNCHANGED <<world, seen, closing, window, route, turn, calls>>

\* codex_route::install succeeds or refuses.
Install(o) ==
    /\ OpAt(o, "install")
    /\ route' \in {route, TRUE}
    /\ ConnectEnds(o)
    /\ UNCHANGED <<world, flags, closing, window, port, turn, calls, disconnected,
                   strained>>

-----------------------------------------------------------------------------
Disconnect(o) ==
    /\ Enter(o, "drain") /\ closing' = TRUE
    /\ UNCHANGED <<world, flags, window, port, route, turn, calls, disconnected>>

\* enter_native_drain takes the flag of the requests seen.
Drain(o) ==
    /\ OpAt(o, "drain")
    /\ mode' = "drain" /\ seen' = FALSE
    /\ op' = [op EXCEPT ![o] = [pc |-> "restore", was |-> seen]]
    /\ UNCHANGED <<world, busy, closing, window, port, route, turn, calls,
                   disconnected, strained>>

Restore(o) ==
    /\ OpAt(o, "restore")
    /\ route' = FALSE /\ Go(o, "quiet")
    /\ UNCHANGED <<world, flags, busy, closing, window, port, turn, calls,
                   disconnected, strained>>

\* Mutant of RefusedRestore: the error is ignored.
RefusedRestoreIgnored(o) == Go(o, "quiet") /\ UNCHANGED <<mode, busy, closing, route>>

\* restore fails, also where the route is not installed (a journal that the
\* configuration does not agree with) or after it has written the
\* configuration; or it succeeds and the route is active all the same.
RefusedRestore(o) ==
    /\ DisconnectEnds(o)
    /\ \/ route' \in {route, FALSE} /\ UNCHANGED mode
       \/ route /\ mode' = "browser" /\ UNCHANGED route

RestoreFails(o) ==
    /\ OpAt(o, "restore")
    /\ RefusedRestore(o)
    /\ UNCHANGED <<world, seen, window, port, turn, calls, disconnected, strained>>

\* wait_for_devtools_idle, for three seconds.
Quiet(o) ==
    /\ OpAt(o, "quiet")
    /\ \/ ~InFlight /\ Go(o, "destroy") /\ UNCHANGED <<busy, closing>>
       \/ InFlight /\ DisconnectEnds(o)
    /\ UNCHANGED <<world, flags, window, port, route, turn, calls, disconnected,
                   strained>>

Destroy(o) ==
    /\ OpAt(o, "destroy")
    /\ \/ window' = FALSE /\ Go(o, "release") /\ UNCHANGED <<busy, closing>>
       \/ window /\ DisconnectEnds(o) /\ UNCHANGED window
    /\ UNCHANGED <<world, flags, port, route, turn, calls, disconnected, strained>>

StopProxy == port' = IF port = "main" THEN "free" ELSE port

\* proxy::stop unless a thread of a running Codex may still come; the search
\* for its process may fail.
Release(o) ==
    /\ OpAt(o, "release")
    /\ \/ op[o].was /\ codex /\ Go(o, "handoff") /\ UNCHANGED <<port, busy, closing,
                                                                disconnected>>
       \/ op[o].was /\ DisconnectEnds(o) /\ UNCHANGED <<port, disconnected>>
       \/ ~(op[o].was /\ codex) /\ StopProxy /\ DisconnectEnds(o) /\ disconnected' = TRUE
    /\ UNCHANGED <<world, flags, window, route, turn, calls, strained>>

\* handoff_native_drain; the helper may not start.
Handoff(o) ==
    /\ OpAt(o, "handoff")
    /\ mode' = "drain" /\ StopProxy
    /\ \/ helper' = (IF helper = "none" THEN "binding" ELSE helper)
          /\ Go(o, "helper") /\ UNCHANGED <<busy, closing>>
       \/ DisconnectEnds(o) /\ UNCHANGED helper
    /\ UNCHANGED <<app, codex, thread, seen, window, route, turn, calls,
                   disconnected, strained>>

\* Mutant of FallbackMode: ensure_started in place of ensure_native_drain_started.
FallbackModeBrowser == "browser"

FallbackMode == "drain"

\* The helper answers, or this process drains after all.
AwaitHelper(o) ==
    /\ OpAt(o, "helper")
    /\ \/ port = "helper" /\ disconnected' = TRUE /\ UNCHANGED <<port, mode>>
       \/ mode' = FallbackMode
          /\ \/ port' = (IF port = "free" THEN "main" ELSE port) /\ disconnected' = TRUE
             \/ UNCHANGED <<port, disconnected>>
    /\ DisconnectEnds(o)
    /\ UNCHANGED <<world, seen, window, route, turn, calls, strained>>

-----------------------------------------------------------------------------
\* A request for a web model: the mode is read, then the request noted, then
\* the turn waits for turn_lock.
Admit ==
    /\ app # "down" /\ turn = "idle" /\ codex /\ thread \in {"bridge", "web"}
    /\ port = "main" /\ mode = "browser"
    /\ turn' = "admitted"
    /\ UNCHANGED <<world, flags, busy, closing, window, port, route, op, calls, disconnected,
                   strained>>

NoteSeen ==
    /\ turn = "admitted"
    /\ seen' = TRUE
    /\ thread' = (IF thread = "bridge" /\ mode = "browser" THEN "web" ELSE thread)
    /\ turn' = "queued"
    /\ UNCHANGED <<app, helper, codex, mode, busy, closing, window, port, route, op, calls,
                   disconnected, strained>>

\* run_browser_turn up to its window.
BeginTurn ==
    /\ turn = "queued"
    /\ IF window \/ ~closing THEN turn' = "running" /\ busy' = TRUE /\ window' = TRUE
                             ELSE turn' = "idle" /\ busy' = FALSE /\ UNCHANGED window
    /\ UNCHANGED <<world, flags, closing, port, route, op, calls, disconnected,
                   strained>>

\* A call is given up, after thirty seconds or with the future that awaits it:
\* its guard is dropped, and what it has posted to the window goes on.
DropGuard == /\ devtools.step = "calling"
             /\ devtools' = NoDevTools /\ stray' = TRUE

\* BusyFlag is dropped; when the request's client has gone, with a call at work.
EndTurn ==
    /\ turn = "running"
    /\ \/ devtools.by # "turn" /\ UNCHANGED calls
       \/ devtools.by = "turn" /\ DropGuard
    /\ turn' = "idle" /\ busy' = FALSE
    /\ UNCHANGED <<world, flags, closing, window, port, route, op, disconnected, strained>>

\* call_devtools for a turn, a connect or the status probe.
CallsFor == {by \in {"turn", "connect", "status"} :
               CASE by = "turn" -> turn = "running"
                 [] by = "connect" -> \E o \in Op : op[o].pc = "page"
                 [] by = "status" -> window /\ ~busy}

NewCall ==
    /\ app # "down" /\ devtools = NoDevTools /\ ~closing
    /\ \E by \in CallsFor : devtools' = [by |-> by, step |-> "checked"]
    /\ UNCHANGED <<world, flags, busy, closing, window, port, route, op, turn, stray,
                   disconnected, strained>>

\* Mutant of Confirmed: the flag is not read again after the count.
ConfirmedUnread == TRUE

\* DevToolsCallGuard looks at BROWSER_CLOSING before and after it counts.
Confirmed == ~closing

StepCall ==
    /\ devtools' = CASE devtools.step = "checked" -> [devtools EXCEPT !.step = "counted"]
                 [] devtools.step = "counted" /\ Confirmed -> [devtools EXCEPT !.step = "calling"]
                 [] OTHER -> NoDevTools
    /\ devtools # NoDevTools
    /\ UNCHANGED <<world, flags, busy, closing, window, port, route, op, turn, stray,
                   disconnected, strained>>

CallTimesOut ==
    /\ DropGuard
    /\ UNCHANGED <<world, flags, busy, closing, window, port, route, op, turn, disconnected,
                   strained>>

StrayEnds ==
    /\ stray /\ stray' = FALSE
    /\ UNCHANGED <<world, flags, busy, closing, window, port, route, op, turn, devtools,
                   disconnected, strained>>

-----------------------------------------------------------------------------
\* What memory holds is lost with the process.
Forget ==
    /\ mode' = "browser" /\ seen' = FALSE /\ busy' = FALSE /\ closing' = FALSE /\ window' = FALSE
    /\ StopProxy
    /\ op' = [o \in Op |-> NoOp] /\ turn' = "idle"
    /\ devtools' = NoDevTools /\ stray' = FALSE
    /\ thread' = IF thread = "none" THEN "none" ELSE "lost"

\* prepare_native_route_for_exit: the route, then a helper.
ExitRequested ==
    /\ app = "up" /\ app' = "leaving"
    /\ \/ route' = FALSE
          /\ helper' \in {helper, IF seen /\ codex /\ helper = "none" THEN "binding" ELSE helper}
       \/ route /\ UNCHANGED <<route, helper>>
    /\ UNCHANGED <<codex, thread, flags, busy, closing, window, port, op, turn, calls, disconnected,
                   strained>>

\* The process ends, after an exit or by itself.
Ends ==
    /\ app # "down" /\ app' = "down" /\ Forget
    /\ UNCHANGED <<helper, codex, route, disconnected, strained>>

\* restore_native_route_only, in the setup of the next process.
Startup ==
    /\ app = "down" /\ app' = "up"
    /\ disconnected' = TRUE
    /\ \/ route' = FALSE /\ UNCHANGED strained
       \/ route /\ strained' = TRUE /\ UNCHANGED route
    /\ UNCHANGED <<helper, codex, thread, flags, busy, closing, window, port, op,
                   turn, calls>>

\* run_native_drain_helper: it binds, gives up, or ends with its Codex.
Helper ==
    /\ \/ /\ helper = "binding" /\ port = "free" /\ codex
          /\ helper' = "serving" /\ port' = "helper"
       \/ helper = "binding" /\ helper' = "none" /\ UNCHANGED port
       \/ helper = "serving" /\ ~codex /\ helper' = "none" /\ port' = "free"
    /\ UNCHANGED <<app, codex, thread, flags, busy, closing, window, route, op, turn, calls,
                   disconnected, strained>>

\* Codex starts and stops, and loads a thread, which keeps its endpoint.
Codex ==
    /\ \/ codex' = ~codex /\ thread' = "none"
       \/ codex /\ route /\ thread = "none" /\ thread' = "bridge" /\ UNCHANGED codex
    /\ UNCHANGED <<app, helper, flags, busy, closing, window, port, route, op, turn, calls,
                   disconnected, strained>>

WebNext ==
    \/ \E o \in Op :
         \/ Connect(o) \/ EnsureWindow(o) \/ Recreate(o) \/ SignIn(o) \/ Retire(o) \/ Bind(o)
         \/ Install(o) \/ Disconnect(o) \/ Drain(o) \/ Restore(o) \/ RestoreFails(o) \/ Quiet(o)
         \/ Destroy(o) \/ Release(o) \/ Handoff(o) \/ AwaitHelper(o)
    \/ Admit \/ NoteSeen \/ BeginTurn \/ EndTurn \/ NewCall \/ StepCall
    \/ CallTimesOut \/ StrayEnds
    \/ ExitRequested \/ Ends \/ Startup \/ Helper \/ Codex
WebSpec == WebInit /\ [][WebNext]_wvars

-----------------------------------------------------------------------------
WebTypeOK ==
    /\ app \in {"up", "leaving", "down"} /\ mode \in {"browser", "drain"}
    /\ {seen, busy, closing, window, route, codex, stray, disconnected, strained} \subseteq BOOLEAN
    /\ port \in {"free", "main", "helper"} /\ helper \in {"none", "binding", "serving"}
    /\ (port = "helper") = (helper = "serving")
    /\ thread \in {"none", "bridge", "web", "lost"}
    /\ turn \in {"idle", "admitted", "queued", "running"}
    /\ app = "down" => NoOperation /\ turn = "idle" /\ devtools = NoDevTools /\ port # "main"

\* "Codex never remains pointed at an inactive 127.0.0.1:17841 endpoint": the
\* process runs, nothing is in progress, and Codex is configured for the port,
\* then somebody holds it; whatever step of a connect or a disconnect failed,
\* and after a crash.  Not when two operations overlapped, a new process could
\* not restore the route, a connect took a helper's answer for its own, or one
\* that found the route still installed could not take the port again.
RouteServed == app = "up" /\ NoOperation /\ route /\ ~strained => port # "free"

\* The DevTools calls at work in the window, by whether they hold their guard.
Working == {w \in {"guarded", "outlived"} : IF w = "guarded" THEN devtools.step = "calling"
                                                             ELSE stray}

\* Once a disconnect has seen no call in flight, and until it has closed the
\* window, the only calls that may still work in the window are those whose
\* guard was dropped before their work was done.
DestroyIsQuiet ==
    \A o \in Op : app = "up" /\ op[o].pc = "destroy" /\ ~strained => Working \subseteq {"outlived"}

\* After a disconnect a thread that still comes does not go on consuming ChatGPT.
DisconnectedIsNative ==
    app = "up" /\ NoOperation /\ disconnected /\ ~route /\ ~strained /\ port = "main" =>
        mode = "drain" \/ thread # "web"

\* "such a stale thread falls back to the official Codex backend instead of
\* breaking": after a disconnect the endpoint of a thread that has used the
\* bridge still answers while Codex runs.
StaleThreadServed ==
    app = "up" /\ NoOperation /\ disconnected /\ codex /\ thread = "web" /\ ~strained =>
        port # "free"

\* Whom Codex and its threads reach at the endpoint is right, once nothing is
\* in progress: somebody while it is configured, nobody's ChatGPT after.
EndpointIsRight == RouteServed /\ DisconnectedIsNative
=============================================================================
