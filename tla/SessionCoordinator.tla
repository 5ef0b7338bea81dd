------------------------- MODULE SessionCoordinator -------------------------
(***************************************************************************)
(* Native Codex sessions (session/coordinator.rs) over one app-server      *)
(* process (provider/app_server.rs).                                       *)
(*                                                                         *)
(* A session is bound to a provider thread.  A call takes the binding's    *)
(* turn guard, which counts as work of the workspace (see Activity), and   *)
(* then asks the app-server for a turn; the app-server's events, handled   *)
(* in order by one monitor, give the guard back.  Code between two awaits  *)
(* is one step.  Guards of kind ProviderOperation are not kept here: a     *)
(* refused acquire is the "drain" fault.                                   *)
(***************************************************************************)
EXTENDS Integers, FiniteSets, Sequences

CONSTANTS Session,   \* sessions, each with its own provider thread
          Caller,    \* tasks that run commands
          Ops,       \* the operations each caller may call
          Stored,    \* sessions left in the store by an earlier run
          Faults,    \* what the environment does
          MaxTurn,   \* bound: a call begins while a thread had fewer turns
          MaxGen     \* bound: app-server processes started

Operations == {"task", "input", "compact", "cancel", "respond"}

ASSUME SessionAssumption ==
    /\ Ops \in [Caller -> SUBSET Operations]
    /\ IsFiniteSet(Caller)
    /\ Stored \subseteq Session
    /\ MaxTurn \in Nat /\ MaxGen \in Nat \ {0}
    /\ Faults \subseteq {"ask", "autocompact", "crash", "gone", "timeout", "refuse", "drain",
                         "fast", "lag", "reconfigure", "start"}

VARIABLES state,    \* each session's TaskSessionState, "none" before it exists
          binding,  \* bindings
          pending,  \* requests waiting for the user: session and turn
          monitor,  \* the monitor task and the channel it reads
          call,     \* what each caller is doing
          server,   \* the app-server process
          work,     \* what the app-server runs in each thread
          reconf,   \* reconfigure_permission_mode has passed its check
          astray    \* history: what has gone wrong so far (see Strayed)

vars == <<state, binding, pending, monitor, call, server, work, reconf>>

Terminal == {"completed", "cancelled", "failed"}
State == {"none", "starting", "running", "waiting_for_user", "compacting", "draining"} \cup Terminal
Fault(f) == f \in Faults

\* Mutant of Fresh: the binding is not found again.
NotKept == [bound |-> FALSE, thread |-> TRUE, turn |-> 0, guard |-> FALSE, manual |-> FALSE]
\* CodexBinding, turn 0 is None; `thread`: the session has a provider_session_id.
Fresh == [bound |-> TRUE, thread |-> TRUE, turn |-> 0, guard |-> FALSE, manual |-> FALSE]
Unbound(s) == [Fresh EXCEPT !.bound = FALSE, !.thread = s \in Stored]

\* Mutant of Released: the guard is kept.
KeptGuard(b) == [b EXCEPT !.turn = 0, !.manual = FALSE]
Released(b) == [b EXCEPT !.turn = 0, !.guard = FALSE, !.manual = FALSE]

Idle == [pc |-> "idle", op |-> "none", s |-> "none", turn |-> 0, gen |-> 0]
Goto(c, pc) == call' = [call EXCEPT ![c].pc = pc]
Return(c) == call' = [call EXCEPT ![c] = Idle]
Set(s, st) == state' = [state EXCEPT ![s] = st]

Init ==
    /\ state = [s \in Session |-> IF s \in Stored THEN "waiting_for_user" ELSE "none"]
    /\ binding = [s \in Session |-> Unbound(s)]
    /\ pending = {}
    /\ monitor = [pc |-> "off", gen |-> 0, queue |-> <<>>, s |-> "none", event |-> "none"]
    /\ call = [c \in Caller |-> Idle]
    /\ server = [gen |-> 0, alive |-> FALSE, held |-> FALSE, loaded |-> {}]
    /\ work = [s \in Session |-> [id |-> 0, kind |-> "none", asks |-> "no", auto |-> "no"]]
    /\ reconf = FALSE
    /\ astray = {}

-----------------------------------------------------------------------------
(* The app-server's process and its channel of events                      *)

\* ensure_started: a process that ended is replaced, with no thread loaded.
CanServe == server.alive \/ server.gen < MaxGen
Served == IF server.alive THEN server
          ELSE [gen |-> server.gen + 1, alive |-> TRUE, held |-> TRUE, loaded |-> {}]
\* A request that does not reach a process, or that the process refuses.
Fails == ~CanServe \/ Fault("refuse")
Attempted == server' = IF CanServe THEN Served ELSE server

Event(type, s, turn) == [type |-> type, s |-> s, turn |-> turn]

\* The channel keeps an event for the monitor when it subscribed to this process.
Heard(m, gen, e) == IF m.pc \notin {"off", "subscribing"} /\ m.gen = gen
                    THEN [m EXCEPT !.queue = Append(@, e)] ELSE m
Emit(e) == monitor' = Heard(monitor, server'.gen, e)

Works(s) == work[s].kind # "none"
Stop(s) == work' = [work EXCEPT ![s].kind = "none"]
AllStop == work' = [s \in Session |-> [work[s] EXCEPT !.kind = "none"]]

\* The application has settled its side of the request the app-server works on:
\* the call has returned, and the first subscription is made.
Recorded(s) == /\ monitor.pc # "subscribing"
               /\ ~\E c \in Caller : /\ call[c].pc \in {"reply", "running", "answered"}
                                     /\ call[c].s = s
\* A turn takes longer than that, unless the app-server is "fast".
InTime(s) == Recorded(s) \/ Fault("fast")

Complete(s) ==
    /\ work[s].kind = "turn" /\ work[s].asks # "yes" /\ work[s].auto # "yes"
    /\ InTime(s)
    /\ Stop(s)
    /\ UNCHANGED <<state, binding, pending, call, server, reconf>>
    /\ \E status \in {"completed", "turn_failed"} : Emit(Event(status, s, work[s].id))

FinishCompact(s) ==
    /\ work[s].kind = "compact" /\ InTime(s)
    /\ Stop(s)
    /\ UNCHANGED <<state, binding, pending, call, server, reconf>>
    /\ Emit(Event("compacted", s, work[s].id))

Ask(s) ==
    /\ Fault("ask") /\ InTime(s)
    /\ work[s].kind = "turn" /\ work[s].asks = "no" /\ work[s].auto # "yes"
    /\ work' = [work EXCEPT ![s].asks = "yes"]
    /\ UNCHANGED <<state, binding, pending, call, server, reconf>>
    /\ Emit(Event("ask", s, work[s].id))

\* The app-server compacts the context by itself in the middle of a turn.
AutoCompact(s) ==
    /\ Fault("autocompact") /\ InTime(s)
    /\ work[s].kind = "turn" /\ work[s].asks # "yes"
    /\ \E from \in {"no", "yes"} :
        /\ work[s].auto = from
        /\ work' = [work EXCEPT ![s].auto = IF from = "no" THEN "yes" ELSE "done"]
        /\ UNCHANGED <<state, binding, pending, call, server, reconf>>
        /\ Emit(Event(IF from = "no" THEN "compacting" ELSE "compacted", s, work[s].id))

\* "crash": a process that can be replaced ends; "gone": the last one may, too.
Crash == /\ server.alive
         /\ (Fault("crash") /\ server.gen < MaxGen) \/ Fault("gone")
         /\ server' = [server EXCEPT !.alive = FALSE]
         /\ AllStop
         /\ UNCHANGED <<state, binding, pending, monitor, call, reconf>>

\* runtime_status drops a process that ended, and with it the channel.
Poll == /\ server.held /\ ~server.alive
        /\ server' = [server EXCEPT !.held = FALSE]
        /\ UNCHANGED <<state, binding, pending, monitor, call, work, reconf>>

\* Any other command that needs the app-server starts it.
Start == /\ Fault("start") /\ ~server.alive /\ CanServe
         /\ server' = Served
         /\ UNCHANGED <<state, binding, pending, monitor, call, work, reconf>>

\* active_turns counts the turns of the process.
CheckReconfigure == /\ Fault("reconfigure") /\ ~reconf
                    /\ \A s \in Session : work[s].kind # "turn"
                    /\ reconf' = TRUE
                    /\ UNCHANGED <<state, binding, pending, monitor, call, server, work>>

Shutdown == /\ reconf /\ reconf' = FALSE
            /\ server' = [server EXCEPT !.alive = FALSE, !.held = FALSE]
            /\ AllStop
            /\ UNCHANGED <<state, binding, pending, monitor, call>>

-----------------------------------------------------------------------------
(* Calls                                                                   *)

Calls(c, op, s, pc) == /\ call[c].pc = "idle" /\ op \in Ops[c]
                       /\ call' = [call EXCEPT ![c] = [Idle EXCEPT !.pc = pc, !.op = op, !.s = s]]

\* start_codex_task creates its session; a refused acquire leaves it starting.
BeginTask(c, s) ==
    /\ state[s] = "none" /\ Set(s, "starting")
    /\ \/ Calls(c, "task", s, "monitor")
       \/ Fault("drain") /\ call[c].pc = "idle" /\ "task" \in Ops[c] /\ UNCHANGED call
    /\ UNCHANGED <<binding, pending, monitor, server, work, reconf>>

BeginTurn(c, s) ==
    /\ state[s] # "none" /\ work[s].id < MaxTurn
    /\ \/ state[s] \notin Terminal /\ Calls(c, "input", s, "monitor")
       \/ Calls(c, "compact", s, "monitor")
    /\ UNCHANGED <<state, binding, pending, monitor, server, work, reconf>>

BeginCancel(c, s) ==
    /\ binding[s].turn # 0
    /\ call[c].pc = "idle" /\ "cancel" \in Ops[c]
    /\ call' = [call EXCEPT ![c] = [Idle EXCEPT !.pc = "drain", !.op = "cancel", !.s = s,
                                                !.turn = binding[s].turn]]
    /\ UNCHANGED <<state, binding, pending, monitor, server, work, reconf>>

BeginRespond(c) ==
    /\ call[c].pc = "idle" /\ "respond" \in Ops[c]
    /\ \E r \in pending :
        call' = [call EXCEPT ![c] = [Idle EXCEPT !.pc = "answer", !.op = "respond",
                                                 !.s = r[1], !.turn = r[2]]]
    /\ UNCHANGED <<state, binding, pending, monitor, server, work, reconf>>

\* A call that gives up before it has a guard; a task marks its session.
GiveUp(c) == /\ Return(c)
             /\ state' = IF call[c].op = "task" THEN [state EXCEPT ![call[c].s] = "failed"] ELSE state

\* ensure_monitor, and whether the session is bound already.
EnsureMonitor(c) ==
    /\ call[c].pc = "monitor"
    /\ IF monitor.pc = "off"
       THEN /\ monitor' = [monitor EXCEPT !.pc = "subscribing"]
            /\ Goto(c, "subscribe")
       ELSE /\ UNCHANGED monitor
            /\ \/ Goto(c, IF binding[call[c].s].bound THEN "begin" ELSE "thread")
               \/ Fault("drain") /\ call[c].op = "input" /\ Return(c)
    /\ UNCHANGED <<state, binding, pending, server, work, reconf>>

Subscribe(c) ==
    /\ call[c].pc = "subscribe"
    /\ \/ /\ CanServe /\ server' = Served
          /\ monitor' = [monitor EXCEPT !.pc = "listening", !.gen = server'.gen, !.queue = <<>>]
          /\ \/ Goto(c, IF binding[call[c].s].bound THEN "begin" ELSE "thread")
             \/ Fault("drain") /\ call[c].op = "input" /\ Return(c)
          /\ UNCHANGED state
       \/ /\ Fails /\ UNCHANGED server
          /\ monitor' = [monitor EXCEPT !.pc = "off"]
          /\ GiveUp(c)
    /\ UNCHANGED <<binding, pending, work, reconf>>

\* start_thread for a task, which notes its thread, and resume_thread for any
\* other call: a session without a thread cannot be resumed.
OpenThread(c) ==
    LET s == call[c].s  resumes == binding[s].thread \/ call[c].op = "task" IN
    /\ call[c].pc = "thread"
    /\ \/ /\ CanServe /\ resumes
          /\ server' = [Served EXCEPT !.loaded = @ \cup {s}]
          /\ binding' = [binding EXCEPT ![s].thread = TRUE]
          /\ Goto(c, "bind") /\ UNCHANGED state
       \/ ~resumes /\ GiveUp(c) /\ UNCHANGED <<server, binding>>
       \/ /\ Fails \/ Fault("timeout")
          /\ resumes /\ Attempted /\ GiveUp(c) /\ UNCHANGED binding
    /\ UNCHANGED <<pending, monitor, work, reconf>>

\* The binding is inserted, over another if there is one by now.  A task with
\* an empty prompt ends here; any other goes on as an input, which asks for the
\* monitor once more.
Bind(c) ==
    /\ call[c].pc = "bind"
    /\ binding' = [binding EXCEPT ![call[c].s] = Fresh]
    /\ \/ call[c].op # "task" /\ Goto(c, "begin") /\ UNCHANGED state
       \/ /\ call[c].op = "task" /\ UNCHANGED state
          /\ call' = [call EXCEPT ![c].pc = "monitor", ![c].op = "input"]
       \/ call[c].op = "task" /\ Return(c) /\ Set(call[c].s, "waiting_for_user")
    /\ UNCHANGED <<pending, monitor, server, work, reconf>>

Busy(b) == b.turn # 0 \/ b.guard

\* Mutant of TakeTurn: the binding may be busy.
TakeAnyTurn(c) ==
    LET s == call[c].s IN
    /\ binding' = [binding EXCEPT ![s].guard = TRUE, ![s].manual = @ \/ call[c].op = "compact"]
    /\ Set(s, IF call[c].op = "compact" THEN "compacting" ELSE "starting")
    /\ Goto(c, "send")
TakeTurn(c) ==
    LET s == call[c].s IN
    /\ ~Busy(binding[s])
    /\ binding' = [binding EXCEPT ![s].guard = TRUE, ![s].manual = @ \/ call[c].op = "compact"]
    /\ Set(s, IF call[c].op = "compact" THEN "compacting" ELSE "starting")
    /\ Goto(c, "send")

Begin(c) ==
    /\ call[c].pc = "begin"
    /\ \/ TakeTurn(c)
       \/ /\ Busy(binding[call[c].s]) \/ Fault("drain")
          /\ Return(c) /\ UNCHANGED <<state, binding>>
    /\ UNCHANGED <<pending, monitor, server, work, reconf>>

\* turn/start or thread/compact/start reaches the app-server, which runs one
\* thing at a time in a thread it has loaded.
Send(c) ==
    LET s == call[c].s  kind == IF call[c].op = "compact" THEN "compact" ELSE "turn" IN
    /\ call[c].pc = "send"
    /\ \/ /\ CanServe /\ s \in Served.loaded /\ ~Works(s)
          /\ server' = Served
          /\ work' = [work EXCEPT ![s] = [id |-> @.id + 1, kind |-> kind, asks |-> "no", auto |-> "no"]]
          /\ Emit(Event(IF kind = "turn" THEN "started" ELSE "compacting", s, work'[s].id))
          /\ call' = [call EXCEPT ![c].pc = "reply", ![c].turn = work'[s].id, ![c].gen = server'.gen]
       \/ /\ Fails \/ s \notin Served.loaded \/ Works(s)
          /\ Attempted /\ Goto(c, "release")
          /\ UNCHANGED <<work, monitor>>
    /\ UNCHANGED <<state, binding, pending, reconf>>

\* Mutant of Reply: a request is not failed when its process ends.
ReplyOnly(c) ==
    /\ call[c].pc = "reply"
    /\ server.alive /\ call[c].gen = server.gen
    /\ IF call[c].op = "compact"
       THEN Return(c) /\ UNCHANGED binding
       ELSE Goto(c, "running") /\ binding' = [binding EXCEPT ![call[c].s].turn = call[c].turn]
    /\ UNCHANGED <<state, pending, monitor, server, work, reconf>>
Reply(c) ==
    LET s == call[c].s IN
    /\ call[c].pc = "reply"
    /\ \/ /\ server.alive /\ call[c].gen = server.gen
          /\ IF call[c].op = "compact"
             THEN Return(c) /\ UNCHANGED binding
             ELSE Goto(c, "running") /\ binding' = [binding EXCEPT ![s].turn = call[c].turn]
       \/ /\ Fault("timeout") \/ ~server.alive \/ call[c].gen # server.gen
          /\ Goto(c, "release") /\ UNCHANGED binding
    /\ UNCHANGED <<state, pending, monitor, server, work, reconf>>

MarkRunning(c) == /\ call[c].pc = "running"
                  /\ Set(call[c].s, "running") /\ Return(c)
                  /\ UNCHANGED <<binding, pending, monitor, server, work, reconf>>

ReleaseFailed(c) ==
    /\ call[c].pc = "release"
    /\ binding' = [binding EXCEPT ![call[c].s] = Released(@)]
    /\ IF call[c].op = "cancel" THEN Return(c) ELSE Goto(c, "failed")
    /\ UNCHANGED <<state, pending, monitor, server, work, reconf>>

MarkFailed(c) ==
    /\ call[c].pc = "failed"
    /\ Set(call[c].s, IF call[c].op = "compact" THEN "waiting_for_user" ELSE "failed")
    /\ IF call[c].op = "cancel" THEN Goto(c, "release") ELSE Return(c)
    /\ UNCHANGED <<binding, pending, monitor, server, work, reconf>>

\* cancel, after it has read the turn.
Drain(c) == /\ call[c].pc = "drain"
            /\ \/ Set(call[c].s, "draining") /\ Goto(c, "interrupt")
               \/ Fault("drain") /\ Return(c) /\ UNCHANGED state
            /\ UNCHANGED <<binding, pending, monitor, server, work, reconf>>

Interrupt(c) ==
    LET s == call[c].s  current == work[s].kind = "turn" /\ work[s].id = call[c].turn IN
    /\ call[c].pc = "interrupt"
    /\ \/ /\ server.alive /\ current
          /\ Stop(s) /\ UNCHANGED server
          /\ Emit(Event("interrupted", s, call[c].turn))
          /\ Return(c) \/ (Fault("timeout") /\ Goto(c, "failed"))
       \/ /\ Fails \/ ~current
          /\ Attempted /\ Goto(c, "failed")
          /\ UNCHANGED <<work, monitor>>
    /\ UNCHANGED <<state, binding, pending, reconf>>

\* respond_to_request writes the answer, and does not wait for a reply.
Answer(c) ==
    LET s == call[c].s  asked == work[s].kind = "turn" /\ work[s].id = call[c].turn
                                 /\ work[s].asks = "yes" IN
    /\ call[c].pc = "answer"
    /\ \/ /\ CanServe /\ server' = Served
          /\ work' = IF asked THEN [work EXCEPT ![s].asks = "answered"] ELSE work
          /\ IF asked THEN Emit(Event("resolved", s, call[c].turn)) ELSE UNCHANGED monitor
          /\ Goto(c, "answered")
       \/ Fails /\ Attempted /\ Return(c) /\ UNCHANGED <<work, monitor>>
    /\ UNCHANGED <<state, binding, pending, reconf>>

\* Mutant of Answered: the session still shows the question.
AnsweredUnseen(c) == /\ call[c].pc = "answered"
                     /\ pending' = pending \ {<<call[c].s, call[c].turn>>}
                     /\ Return(c)
                     /\ UNCHANGED <<state, binding, monitor, server, work, reconf>>
Answered(c) == /\ call[c].pc = "answered"
               /\ pending' = pending \ {<<call[c].s, call[c].turn>>}
               /\ Set(call[c].s, "running") /\ Return(c)
               /\ UNCHANGED <<binding, monitor, server, work, reconf>>

Step(c) == \/ EnsureMonitor(c) \/ Subscribe(c) \/ OpenThread(c) \/ Bind(c) \/ Begin(c)
           \/ Send(c) \/ Reply(c) \/ MarkRunning(c) \/ ReleaseFailed(c) \/ MarkFailed(c)
           \/ Drain(c) \/ Interrupt(c) \/ Answer(c) \/ Answered(c)

-----------------------------------------------------------------------------
(* The monitor                                                             *)

Taken == [monitor EXCEPT !.queue = Tail(@)]
\* The turn's end still has to be taken out of the binding.
Ending(e) == [Taken EXCEPT !.pc = "releasing", !.s = e.s, !.event = e.type]

OnStarted(e) == e.type = "started" /\ Set(e.s, "running")
                /\ monitor' = Taken /\ UNCHANGED pending

OnCompleted(e) ==
    /\ e.type \in {"completed", "turn_failed", "interrupted"}
    /\ Set(e.s, CASE e.type = "interrupted" \/ state[e.s] = "draining" -> "cancelled"
                  [] e.type = "turn_failed" /\ state[e.s] # "draining" -> "failed"
                  [] OTHER -> "waiting_for_user")
    /\ monitor' = Ending(e) /\ UNCHANGED pending

OnAsk(e) == e.type = "ask" /\ pending' = pending \cup {<<e.s, e.turn>>}
            /\ Set(e.s, "waiting_for_user") /\ monitor' = Taken

OnCompacting(e) == e.type = "compacting" /\ Set(e.s, "compacting")
                   /\ monitor' = Taken /\ UNCHANGED pending

\* A manual compaction ends the session's work, an automatic one does not.
OnCompacted(e) == /\ e.type = "compacted"
                  /\ IF binding[e.s].manual
                     THEN Set(e.s, "waiting_for_user") /\ monitor' = Ending(e)
                     ELSE Set(e.s, "running") /\ monitor' = Taken
                  /\ UNCHANGED pending

OnResolved(e) == e.type = "resolved" /\ pending' = pending \ {<<e.s, e.turn>>}
                 /\ monitor' = Taken /\ UNCHANGED state

\* handle_event; an event of a thread that no session is bound to is dropped.
Handle ==
    /\ monitor.pc = "listening" /\ monitor.queue # <<>>
    /\ LET e == Head(monitor.queue)
       IN  IF binding[e.s].bound
           THEN OnStarted(e) \/ OnCompleted(e) \/ OnAsk(e) \/ OnCompacting(e)
                \/ OnCompacted(e) \/ OnResolved(e)
           ELSE monitor' = Taken /\ UNCHANGED <<state, pending>>
    /\ UNCHANGED <<binding, call, server, work, reconf>>

\* Mutant of ReleaseTurn: the questions of the turn stay.
ReleaseTurnOnly ==
    /\ monitor.pc = "releasing"
    /\ binding' = [binding EXCEPT ![monitor.s] = Released(@)]
    /\ monitor' = [monitor EXCEPT !.pc = "listening", !.s = "none", !.event = "none"]
    /\ UNCHANGED <<state, pending, call, server, work, reconf>>

\* release_turn and, at the end of a turn, clear_pending_for_session.
ReleaseTurn ==
    /\ monitor.pc = "releasing"
    /\ binding' = [binding EXCEPT ![monitor.s] = Released(@)]
    /\ pending' = IF monitor.event = "compacted" THEN pending
                  ELSE {r \in pending : r[1] # monitor.s}
    /\ monitor' = [monitor EXCEPT !.pc = "listening", !.s = "none", !.event = "none"]
    /\ UNCHANGED <<state, call, server, work, reconf>>

\* The channel overflowed: the monitor notes it and goes on.
Lag == /\ Fault("lag")
       /\ monitor.pc = "listening" /\ monitor.queue # <<>>
       /\ monitor' = Taken
       /\ UNCHANGED <<state, binding, pending, call, server, work, reconf>>

Closed == monitor.gen # server.gen \/ ~server.held
Active == {s \in Session : Busy(binding[s])}

\* Mutant of FailActiveSessions: the sessions fail and keep their guards.
FailKeepingGuards ==
    /\ monitor.pc = "listening" /\ monitor.queue = <<>> /\ Closed
    /\ binding' = [s \in Session |-> [binding[s] EXCEPT !.turn = 0]]
    /\ state' = [s \in Session |-> IF s \in Active THEN "failed" ELSE state[s]]
    /\ pending' = {r \in pending : r[1] \notin Active}
    /\ monitor' = [monitor EXCEPT !.pc = "off"]
    /\ UNCHANGED <<call, server, work, reconf>>

\* fail_active_sessions, whichever process the sessions' turns are in.
FailActiveSessions ==
    /\ monitor.pc = "listening" /\ monitor.queue = <<>> /\ Closed
    /\ binding' = [s \in Session |-> [binding[s] EXCEPT !.turn = 0, !.guard = FALSE]]
    /\ state' = [s \in Session |-> IF s \in Active THEN "failed" ELSE state[s]]
    /\ pending' = {r \in pending : r[1] \notin Active}
    /\ monitor' = [monitor EXCEPT !.pc = "off"]
    /\ UNCHANGED <<call, server, work, reconf>>

Monitor == Handle \/ ReleaseTurn \/ FailActiveSessions
Provider(s) == Complete(s) \/ FinishCompact(s) \/ AutoCompact(s)

-----------------------------------------------------------------------------
(* What goes astray                                                        *)

\* The guard of a turn is lost: a second ensure_binding puts a new binding over a
\* busy one; a cancel whose interrupt failed gives back the guard that a turn
\* has; a request for a turn times out though the app-server took it; or a new
\* process is started while the sessions are still bound to the one that ended.
LosesGuard ==
    \/ \E c \in Caller :
         /\ call'[c].pc # call[c].pc
         /\ \/ call[c].pc = "bind" /\ Busy(binding[call[c].s])
            \/ call[c].pc = "release" /\ call[c].op = "cancel" /\ Busy(binding[call[c].s])
            \/ call[c].pc = "reply" /\ call'[c].pc = "release" /\ server.alive
    \/ server.gen > 0 /\ server'.gen # server.gen

\* The application writes a state too late: the turn goes on or is interrupted
\* before its reply is recorded, an answer comes after the question is gone, or a
\* call that failed is overtaken by the next one.
ComesLate ==
    \/ \E s \in Session : /\ Works(s) /\ work'[s] # work[s] /\ server'.alive
                          /\ ~Recorded(s)
    \/ \E c \in Caller :
         /\ call'[c].pc # call[c].pc
         /\ \/ call[c].pc = "answer" /\ call'[c].pc = "answered" /\ work' = work
            \/ call[c].pc = "failed" /\ call[c].op # "cancel" /\ Busy(binding[call[c].s])

\* No monitor hears an event, or the monitor drops it.
LosesEvent == \/ work' # work /\ server'.alive /\ monitor' = monitor
              \/ Lag

Strayed == {k \in {"guard", "order", "event"} : CASE k = "guard" -> LosesGuard
                                                  [] k = "order" -> ComesLate
                                                  [] k = "event" -> LosesEvent}

Move == \/ \E c \in Caller : \/ Step(c) \/ BeginRespond(c)
                             \/ \E s \in Session : BeginTask(c, s) \/ BeginTurn(c, s) \/ BeginCancel(c, s)
        \/ \E s \in Session : Provider(s) \/ Ask(s)
        \/ Monitor \/ Lag
        \/ Crash \/ Poll \/ Start \/ CheckReconfigure \/ Shutdown

Next == Move /\ astray' = astray \cup Strayed

sessionVars == <<vars, astray>>

Spec == Init /\ [][Next]_sessionVars

\* A call that began goes on, the runtime schedules the monitor, a turn nobody
\* has to answer ends, and the interface polls the provider's status.
Fairness == /\ \A c \in Caller : WF_vars(Step(c))
            /\ WF_vars(Monitor) /\ WF_vars(Poll)
            /\ \A s \in Session : WF_vars(Complete(s)) /\ WF_vars(FinishCompact(s))
                                  /\ WF_vars(work[s].auto = "yes" /\ AutoCompact(s))
FairSpec == Spec /\ Fairness

-----------------------------------------------------------------------------
MaxId == MaxTurn + Cardinality(Caller)

TypeOK ==
    /\ state \in [Session -> State]
    /\ binding \in [Session -> [bound : BOOLEAN, thread : BOOLEAN, turn : 0 .. MaxId,
                                 guard : BOOLEAN, manual : BOOLEAN]]
    /\ pending \subseteq Session \X (1 .. MaxId)
    /\ monitor.pc \in {"off", "subscribing", "listening", "releasing"}
    /\ monitor.gen \in 0 .. MaxGen
    /\ \A i \in DOMAIN monitor.queue : monitor.queue[i].s \in Session
    /\ server.gen \in 0 .. MaxGen /\ server.loaded \subseteq Session
    /\ \A s \in Session : work[s].id \in 0 .. MaxId /\ work[s].kind \in {"none", "turn", "compact"}
    /\ \A s \in Session : binding[s].turn # 0 => binding[s].bound
    /\ astray \subseteq {"guard", "order", "event"}

\* Whatever the app-server runs in a thread is counted as work of the workspace:
\* the session holds a guard (app_state.rs, refresh_provider_activity).
TurnIsGuarded == \A s \in Session : Works(s) => binding[s].guard

\* So it is until a guard is lost in one of the four ways of LosesGuard, however
\* many calls give turns and cancel them, and whatever becomes of the events.
GuardCoversTurn == "guard" \in astray \/ TurnIsGuarded

\* Nothing is under way between the commands, the monitor and the app-server,
\* nor the end of the process unnoticed.
Settled == /\ \A c \in Caller : call[c].pc = "idle"
           /\ monitor.pc = "listening" /\ monitor.queue = <<>> /\ server.alive /\ ~Closed

\* A session that refuses new input as busy is at work, once every reply and
\* every event has been handled (start_turn_internal).
BusyMeansTurn == Settled /\ astray = {} => \A s \in Session : Busy(binding[s]) => Works(s)

\* The state the user sees agrees with the work: a session that shows work has
\* some, and one that waits for the user has none or has asked a question.
ShownState ==
    Settled /\ astray = {} => \A s \in Session :
        /\ state[s] \in {"running", "compacting", "draining"} => Works(s)
        /\ Works(s) => \/ state[s] \in {"running", "compacting"}
                       \/ state[s] = "waiting_for_user" /\ \E r \in pending : r[1] = s

\* A question that waits for the user belongs to the turn the session is in.
PendingIsCurrent ==
    Settled /\ astray = {} => \A r \in pending : work[r[1]].kind = "turn" /\ work[r[1]].id = r[2]

\* Every guard is given back, unless its turn waits for the user for ever.
GuardReleased ==
    \A s \in Session : binding[s].guard ~> \/ ~binding[s].guard \/ "event" \in astray
                                           \/ Works(s) /\ work[s].asks = "yes"

\* Every command returns.
CallEnds == \A c \in Caller : call[c].pc # "idle" ~> call[c].pc = "idle"
=============================================================================
