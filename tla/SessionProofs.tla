---------------------------- MODULE SessionProofs ----------------------------
(***************************************************************************)
(* Proofs about the sessions of SessionCoordinator, for any number of      *)
(* sessions, callers, turns and app-server processes.                      *)
(***************************************************************************)
EXTENDS SessionCoordinator, FiniteSetTheorems, SequenceTheorems, TLAPS

TurnSteps == {"monitor", "subscribe", "thread", "bind", "begin", "send", "reply", "running"}
Steps == TurnSteps \cup {"idle", "release", "failed", "drain", "interrupt", "answer", "answered"}
Types == {"started", "completed", "turn_failed", "interrupted", "ask", "compacting", "compacted",
          "resolved"}
TurnOps == {"task", "input", "compact"}

Bindings == [bound : BOOLEAN, thread : BOOLEAN, turn : 0 .. MaxId, guard : BOOLEAN,
             manual : BOOLEAN]
CallStates == [pc : Steps, op : Operations \cup {"none"}, s : Session \cup {"none"},
               turn : 0 .. MaxId, gen : 0 .. MaxGen]
Events == [type : Types, s : Session, turn : 1 .. MaxId]
Monitors == [pc : {"off", "subscribing", "listening", "releasing"}, gen : 0 .. MaxGen,
             queue : Seq(Events), s : Session \cup {"none"}, event : Types \cup {"none"}]
Servers == [gen : 0 .. MaxGen, alive : BOOLEAN, held : BOOLEAN, loaded : SUBSET Session]
Workings == [id : 0 .. MaxId, kind : {"none", "turn", "compact"},
             asks : {"no", "yes", "answered"}, auto : {"no", "yes", "done"}]

Shapes == /\ state \in [Session -> State] /\ binding \in [Session -> Bindings]
          /\ pending \subseteq Session \X (1 .. MaxId)
          /\ monitor \in Monitors /\ call \in [Caller -> CallStates]
          /\ server \in Servers /\ work \in [Session -> Workings] /\ reconf \in BOOLEAN
          /\ monitor.pc = "releasing" => monitor.s \in Session

\* What a call in progress knows: its session exists, is bound from the step on
\* that finds it so, and the turn it speaks of was one.
Knows(c) ==
    /\ call[c].pc # "idle" => call[c].s \in Session
    /\ call[c].pc \in TurnSteps => call[c].op \in TurnOps /\ state[call[c].s] # "none"
    /\ call[c].pc \in {"begin", "send", "reply", "running"} => binding[call[c].s].bound
    /\ call[c].pc \in {"reply", "running", "interrupt", "drain", "answer", "answered"}
          => call[c].turn # 0
    /\ call[c].pc \in {"answer", "answered"} => call[c].op = "respond"
    /\ call[c].pc \in {"drain", "interrupt"} => call[c].op = "cancel"
CallsKnow == \A c \in Caller : Knows(c)

TurnIsBound == \A s \in Session : binding[s].turn # 0 => binding[s].bound

\* The callers that may still ask for a turn of s.
Asking == TurnSteps \ {"reply", "running"}
Senders(s) == {c \in Caller : call[c].pc \in Asking /\ call[c].s = s}

\* A turn number leaves room for the calls on their way.
TurnsBounded == \A s \in Session : /\ work[s].id + Cardinality(Senders(s)) <= MaxId
                                   /\ state[s] = "none" => work[s].id = 0
                                   /\ Works(s) => work[s].id # 0

TypeInv == Shapes /\ CallsKnow /\ TurnIsBound /\ TurnsBounded

-----------------------------------------------------------------------------
(* The helpers                                                             *)

LEMMA MaxIdType == MaxId \in Nat /\ MaxGen \in Nat /\ IsFiniteSet(Caller)
BY SessionAssumption, FS_CardinalityType DEF MaxId

LEMMA ServedType ==
    ASSUME server \in Servers, CanServe
    PROVE  /\ Served \in Servers /\ Served.alive
           /\ server.alive => Served = server
           /\ ~server.alive => Served.loaded = {} /\ Served.gen = server.gen + 1
<1>1. CASE server.alive
  BY <1>1 DEF Served, Servers
<1>2. CASE ~server.alive
  BY <1>2, MaxIdType DEF Served, Servers, CanServe
<1> QED BY <1>1, <1>2

LEMMA AttemptedType ==
    ASSUME server \in Servers, Attempted
    PROVE  server' \in Servers
BY ServedType DEF Attempted

LEMMA HeardType ==
    ASSUME NEW m \in Monitors, NEW gen, NEW e \in Events
    PROVE  /\ Heard(m, gen, e) \in Monitors
           /\ Heard(m, gen, e).pc = m.pc /\ Heard(m, gen, e).gen = m.gen
           /\ Heard(m, gen, e).s = m.s /\ Heard(m, gen, e).event = m.event
           /\ Heard(m, gen, e).queue \in {m.queue, Append(m.queue, e)}
BY DEF Heard, Monitors

LEMMA EventType ==
    ASSUME NEW type \in Types, NEW s \in Session, NEW turn \in 1 .. MaxId
    PROVE  /\ Event(type, s, turn) \in Events
           /\ Event(type, s, turn).type = type /\ Event(type, s, turn).s = s
           /\ Event(type, s, turn).turn = turn
BY DEF Event, Events

LEMMA EmitType ==
    ASSUME monitor \in Monitors, NEW type \in Types, NEW s \in Session, NEW turn \in 1 .. MaxId,
           Emit(Event(type, s, turn))
    PROVE  /\ monitor' \in Monitors
           /\ monitor'.pc = monitor.pc /\ monitor'.s = monitor.s
BY EventType, HeardType DEF Emit

\* One call moves, the others stay.
LEMMA CallMoves ==
    ASSUME call \in [Caller -> CallStates], NEW c \in Caller, NEW k,
           call' = [call EXCEPT ![c] = k]
    PROVE  /\ call'[c] = k /\ \A d \in Caller \ {c} : call'[d] = call[d]
           /\ k \in CallStates => call' \in [Caller -> CallStates]
BY DEF CallStates

LEMMA GotoMoves ==
    ASSUME call \in [Caller -> CallStates], NEW c \in Caller, NEW pc \in Steps, Goto(c, pc)
    PROVE  /\ call' \in [Caller -> CallStates]
           /\ call'[c].pc = pc /\ call'[c].op = call[c].op /\ call'[c].s = call[c].s
           /\ call'[c].turn = call[c].turn /\ call'[c].gen = call[c].gen
           /\ \A d \in Caller \ {c} : call'[d] = call[d]
BY DEF CallStates, Goto

LEMMA ReturnMoves ==
    ASSUME call \in [Caller -> CallStates], NEW c \in Caller, Return(c)
    PROVE  /\ call' \in [Caller -> CallStates]
           /\ call'[c] = Idle /\ call'[c].pc = "idle"
           /\ \A d \in Caller \ {c} : call'[d] = call[d]
<1>1. Idle \in CallStates /\ Idle.pc = "idle"
  BY MaxIdType DEF Idle, CallStates, Steps
<1> QED BY <1>1, CallMoves DEF Return

LEMMA CallBegins ==
    ASSUME call \in [Caller -> CallStates], NEW c \in Caller, NEW op \in Operations,
           NEW s \in Session, NEW pc \in Steps,
           call' = [call EXCEPT ![c] = [Idle EXCEPT !.pc = pc, !.op = op, !.s = s]]
    PROVE  /\ call' \in [Caller -> CallStates]
           /\ call'[c].pc = pc /\ call'[c].op = op /\ call'[c].s = s
           /\ \A d \in Caller \ {c} : call'[d] = call[d]
<1> DEFINE k == [Idle EXCEPT !.pc = pc, !.op = op, !.s = s]
<1>1. k.pc = pc /\ k.op = op /\ k.s = s
  BY DEF Idle
<1>2. k \in CallStates
  <2>1. Idle \in CallStates
    BY MaxIdType DEF Idle, CallStates, Steps
  <2> QED BY <2>1 DEF CallStates
<1>3. call' = [call EXCEPT ![c] = k]
  OBVIOUS
<1> HIDE DEF k
<1> QED BY <1>1, <1>2, <1>3, CallMoves

LEMMA SetType ==
    ASSUME state \in [Session -> State], NEW s \in Session, NEW st \in State, Set(s, st)
    PROVE  /\ state' \in [Session -> State] /\ state'[s] = st
           /\ \A t \in Session \ {s} : state'[t] = state[t]
BY DEF Set

LEMMA ReleasedType ==
    ASSUME NEW b \in Bindings
    PROVE  /\ Released(b) \in Bindings
           /\ Released(b).turn = 0 /\ ~Released(b).guard /\ ~Released(b).manual
           /\ Released(b).bound = b.bound /\ Released(b).thread = b.thread
<1>1. 0 \in 0 .. MaxId
  BY MaxIdType
<1> QED BY <1>1 DEF Released, Bindings

LEMMA FreshType == /\ Fresh \in Bindings
                   /\ Fresh.bound /\ Fresh.turn = 0 /\ ~Fresh.guard /\ ~Fresh.manual
BY MaxIdType DEF Fresh, Bindings

-----------------------------------------------------------------------------
(* Type correctness                                                        *)

\* No session disappears, and none loses its binding.
Onwards == \A s \in Session : /\ state[s] # "none" => state'[s] # "none"
                              /\ binding[s].bound => binding'[s].bound

LEMMA SendersFinite ==
    ASSUME NEW s
    PROVE  /\ IsFiniteSet(Senders(s)) /\ Cardinality(Senders(s)) \in Nat
           /\ Cardinality(Senders(s)) <= Cardinality(Caller)
<1>1. Senders(s) \subseteq Caller
  BY DEF Senders
<1> QED BY <1>1, MaxIdType, FS_Subset, FS_CardinalityType

\* A step of one call that asks for nothing new.
LEMMA TypeMove ==
    ASSUME TypeInv, NEW c \in Caller, Shapes', Onwards, TurnIsBound', Knows(c)',
           \A d \in Caller \ {c} : call'[d] = call[d],
           call'[c].pc \in Asking => call[c].pc \in Asking /\ call'[c].s = call[c].s,
           \A s \in Session : work'[s].id = work[s].id /\ (Works(s)' => Works(s))
    PROVE  TypeInv'
<1> USE DEF TypeInv
<1>1. CallsKnow'
  <2>1. ASSUME NEW d \in Caller \ {c} PROVE Knows(d)'
    BY <2>1 DEF CallsKnow, Knows, Onwards, TurnSteps
  <2> QED BY <2>1 DEF CallsKnow
<1>2. TurnsBounded'
  <2> SUFFICES ASSUME NEW s \in Session
               PROVE  /\ work'[s].id + Cardinality(Senders(s)') <= MaxId
                      /\ state'[s] = "none" => work'[s].id = 0
                      /\ Works(s)' => work'[s].id # 0
    BY DEF TurnsBounded
  <2>1. Senders(s)' \subseteq Senders(s)
    BY DEF Senders
  <2>2. Cardinality(Senders(s)') \in Nat /\ Cardinality(Senders(s)') <= Cardinality(Senders(s))
    BY <2>1, SendersFinite, FS_Subset, FS_CardinalityType
  <2>3. work[s].id \in Nat
    BY MaxIdType DEF Shapes, Workings
  <2> QED BY <2>2, <2>3, SendersFinite, MaxIdType DEF TurnsBounded, Onwards
<1> QED BY <1>1, <1>2

\* A step of no call.
LEMMA TypeStay ==
    ASSUME TypeInv, Shapes', Onwards, TurnIsBound', call' = call,
           \A s \in Session : work'[s].id = work[s].id /\ (Works(s)' => Works(s))
    PROVE  TypeInv'
<1> USE DEF TypeInv
<1>1. CallsKnow'
  BY DEF CallsKnow, Knows, Onwards, TurnSteps
<1>2. \A s \in Session : Senders(s)' = Senders(s)
  BY DEF Senders
<1>3. TurnsBounded'
  BY <1>2 DEF TurnsBounded, Onwards
<1> QED BY <1>1, <1>3

LEMMA TypeHelpers ==
    ASSUME TypeInv
    PROVE  /\ state \in [Session -> State] /\ binding \in [Session -> Bindings]
           /\ monitor \in Monitors /\ call \in [Caller -> CallStates]
           /\ server \in Servers /\ work \in [Session -> Workings]
           /\ \A c \in Caller : /\ call[c].op \in Operations \cup {"none"} /\ call[c].pc \in Steps
                                /\ call[c].turn \in 0 .. MaxId /\ call[c].gen \in 0 .. MaxGen
           /\ \A s \in Session : /\ binding[s].turn \in 0 .. MaxId /\ work[s].id \in 0 .. MaxId
                                 /\ Works(s) => work[s].id \in 1 .. MaxId
BY MaxIdType DEF TypeInv, Shapes, CallStates, Bindings, Workings, TurnsBounded

LEMMA IdleKnows ==
    ASSUME NEW c \in Caller, call'[c].pc = "idle"
    PROVE  Knows(c)'
BY DEF Knows, TurnSteps

\* A monitor that changes its place, its process or forgets its queue.
LEMMA MonitorPlaced ==
    ASSUME monitor \in Monitors, NEW pc \in {"off", "subscribing", "listening"}
    PROVE  [monitor EXCEPT !.pc = pc] \in Monitors /\ [monitor EXCEPT !.pc = pc].pc = pc
BY DEF Monitors

LEMMA MonitorSubscribed ==
    ASSUME monitor \in Monitors, NEW gen \in 0 .. MaxGen,
           monitor' = [monitor EXCEPT !.pc = "listening", !.gen = gen, !.queue = <<>>]
    PROVE  /\ monitor' \in Monitors
           /\ monitor'.pc = "listening" /\ monitor'.gen = gen /\ monitor'.queue = <<>>
<1>1. <<>> \in Seq(Events)
  OBVIOUS
<1> QED BY <1>1 DEF Monitors

LEMMA EnsureMonitorType ==
    ASSUME TypeInv, NEW c \in Caller, EnsureMonitor(c)
    PROVE  TypeInv'
<1> USE TypeHelpers
<1>1. /\ call[c].pc = "monitor"
      /\ UNCHANGED <<state, binding, pending, server, work, reconf>>
  BY DEF EnsureMonitor
<1>2. monitor' \in Monitors /\ (monitor'.pc = "releasing" => monitor'.s \in Session)
  BY MonitorPlaced DEF EnsureMonitor, TypeInv, Shapes
<1>3. /\ call' \in [Caller -> CallStates]
      /\ \A d \in Caller \ {c} : call'[d] = call[d]
      /\ \/ call'[c].pc = "idle"
         \/ /\ call'[c].op = call[c].op /\ call'[c].s = call[c].s
            /\ call'[c].pc \in {"subscribe", "thread", "begin"}
            /\ call'[c].pc = "begin" => binding[call[c].s].bound
  <2>1. CASE monitor.pc = "off"
    BY <2>1, GotoMoves DEF EnsureMonitor, Steps, TurnSteps
  <2>2. CASE monitor.pc # "off"
    BY <2>2, GotoMoves, ReturnMoves DEF EnsureMonitor, Steps, TurnSteps
  <2> QED BY <2>1, <2>2
<1>4. Knows(c)'
  BY <1>1, <1>3, IdleKnows DEF TypeInv, CallsKnow, Knows, TurnSteps
<1>5. Shapes' /\ Onwards /\ TurnIsBound' /\ \A s \in Session : Works(s)' => Works(s)
  BY <1>1, <1>2, <1>3 DEF TypeInv, Shapes, Onwards, TurnIsBound, Works
<1> QED BY <1>1, <1>3, <1>4, <1>5, TypeMove DEF Asking, TurnSteps

LEMMA GiveUpMoves ==
    ASSUME TypeInv, NEW c \in Caller, call[c].pc # "idle", GiveUp(c)
    PROVE  /\ call' \in [Caller -> CallStates] /\ call'[c].pc = "idle"
           /\ \A d \in Caller \ {c} : call'[d] = call[d]
           /\ state' \in [Session -> State]
           /\ \A s \in Session : state[s] # "none" => state'[s] # "none"
           /\ \A s \in Session : state'[s] \in {state[s], "failed"}
BY TypeHelpers, ReturnMoves DEF GiveUp, TypeInv, CallsKnow, Knows, State, Terminal

LEMMA SubscribeType ==
    ASSUME TypeInv, NEW c \in Caller, Subscribe(c)
    PROVE  TypeInv'
<1> USE TypeHelpers
<1>1. call[c].pc = "subscribe" /\ UNCHANGED <<binding, pending, work, reconf>>
  BY DEF Subscribe
<1>2. /\ server' \in Servers
      /\ monitor' \in Monitors /\ monitor'.pc # "releasing"
      /\ call' \in [Caller -> CallStates]
      /\ \A d \in Caller \ {c} : call'[d] = call[d]
      /\ \/ call'[c].pc = "idle"
         \/ /\ call'[c].op = call[c].op /\ call'[c].s = call[c].s
            /\ call'[c].pc \in {"thread", "begin"}
            /\ call'[c].pc = "begin" => binding[call[c].s].bound
      /\ state' \in [Session -> State]
      /\ \A s \in Session : state[s] # "none" => state'[s] # "none"
  <2> DEFINE To == /\ server' \in Servers
                   /\ monitor' \in Monitors /\ monitor'.pc # "releasing"
                   /\ call' \in [Caller -> CallStates]
                   /\ \A d \in Caller \ {c} : call'[d] = call[d]
                   /\ \/ call'[c].pc = "idle"
                      \/ /\ call'[c].op = call[c].op /\ call'[c].s = call[c].s
                         /\ call'[c].pc \in {"thread", "begin"}
                         /\ call'[c].pc = "begin" => binding[call[c].s].bound
                   /\ state' \in [Session -> State]
                   /\ \A s \in Session : state[s] # "none" => state'[s] # "none"
  <2>1. ASSUME CanServe, server' = Served,
               monitor' = [monitor EXCEPT !.pc = "listening", !.gen = server'.gen, !.queue = <<>>],
               \/ Goto(c, IF binding[call[c].s].bound THEN "begin" ELSE "thread")
               \/ Return(c),
               UNCHANGED state
        PROVE  To
    <3>1. server' \in Servers /\ server'.gen \in 0 .. MaxGen
      BY <2>1, ServedType DEF Servers
    <3>2. monitor' \in Monitors /\ monitor'.pc # "releasing"
      BY <2>1, <3>1, MonitorSubscribed
    <3>3. CASE Return(c)
      BY <2>1, <3>1, <3>2, <3>3, ReturnMoves
    <3>4. ASSUME NEW pc \in {"thread", "begin"}, Goto(c, pc),
                 pc = "begin" => binding[call[c].s].bound
          PROVE  To
      <4>1. pc \in Steps
        BY DEF Steps, TurnSteps
      <4> QED BY <2>1, <3>1, <3>2, <3>4, <4>1, GotoMoves
    <3> QED BY <2>1, <3>3, <3>4
  <2>2. ASSUME UNCHANGED server, monitor' = [monitor EXCEPT !.pc = "off"], GiveUp(c)
        PROVE  To
    BY <1>1, <2>2, MonitorPlaced, GiveUpMoves
  <2> QED BY <2>1, <2>2 DEF Subscribe
<1>4. Knows(c)'
  BY <1>1, <1>2, IdleKnows DEF TypeInv, CallsKnow, Knows, TurnSteps
<1>5. Shapes' /\ Onwards /\ TurnIsBound' /\ \A s \in Session : Works(s)' => Works(s)
  BY <1>1, <1>2 DEF TypeInv, Shapes, Onwards, TurnIsBound, Works
<1> QED BY <1>1, <1>2, <1>4, <1>5, TypeMove DEF Asking, TurnSteps

LEMMA OpenThreadType ==
    ASSUME TypeInv, NEW c \in Caller, OpenThread(c)
    PROVE  TypeInv'
<1> USE TypeHelpers
<1>1. /\ call[c].pc = "thread" /\ UNCHANGED <<pending, monitor, work, reconf>>
      /\ call[c].s \in Session
  BY DEF OpenThread, TypeInv, CallsKnow, Knows
<1>3. /\ binding' \in [Session -> Bindings]
      /\ \A s \in Session : /\ binding'[s].bound = binding[s].bound
                            /\ binding'[s].turn = binding[s].turn
  <2>1. CASE binding' = [binding EXCEPT ![call[c].s].thread = TRUE]
    BY <1>1, <2>1 DEF Bindings
  <2> QED BY <2>1 DEF OpenThread
<1>2. /\ server' \in Servers
      /\ call' \in [Caller -> CallStates]
      /\ \A d \in Caller \ {c} : call'[d] = call[d]
      /\ \/ call'[c].pc = "idle"
         \/ call'[c].op = call[c].op /\ call'[c].s = call[c].s /\ call'[c].pc = "bind"
      /\ state' \in [Session -> State]
      /\ \A s \in Session : state[s] # "none" => state'[s] # "none"
  <2> DEFINE To == /\ server' \in Servers /\ call' \in [Caller -> CallStates]
                   /\ \A d \in Caller \ {c} : call'[d] = call[d]
                   /\ \/ call'[c].pc = "idle"
                      \/ /\ call'[c].op = call[c].op /\ call'[c].s = call[c].s
                         /\ call'[c].pc = "bind"
                   /\ state' \in [Session -> State]
                   /\ \A s \in Session : state[s] # "none" => state'[s] # "none"
  <2>1. ASSUME CanServe, server' = [Served EXCEPT !.loaded = @ \cup {call[c].s}],
               Goto(c, "bind"), UNCHANGED state
        PROVE  To
    <3>1. Served \in Servers /\ call[c].s \in Session
      BY <1>1, <2>1, ServedType DEF TypeInv, CallsKnow, Knows
    <3>2. server' \in Servers
      BY <2>1, <3>1 DEF Servers
    <3> QED BY <2>1, <3>2, GotoMoves DEF Steps, TurnSteps
  <2>2. ASSUME GiveUp(c), UNCHANGED server \/ Attempted PROVE To
    BY <1>1, <2>2, GiveUpMoves, AttemptedType
  <2> QED BY <2>1, <2>2 DEF OpenThread
<1>4. Knows(c)'
  BY <1>1, <1>2, IdleKnows DEF TypeInv, CallsKnow, Knows, TurnSteps
<1>5. Shapes' /\ Onwards /\ TurnIsBound' /\ \A s \in Session : Works(s)' => Works(s)
  BY <1>1, <1>2, <1>3 DEF TypeInv, Shapes, Onwards, TurnIsBound, Works
<1> QED BY <1>1, <1>2, <1>4, <1>5, TypeMove DEF Asking, TurnSteps

\* A call that is bound goes on; a task as an input.
LEMMA BindCall ==
    ASSUME call \in [Caller -> CallStates], NEW c \in Caller, call[c].op \in TurnOps,
           \/ Goto(c, "begin")
           \/ call' = [call EXCEPT ![c].pc = "monitor", ![c].op = "input"]
    PROVE  /\ call' \in [Caller -> CallStates]
           /\ call'[c].s = call[c].s /\ call'[c].op \in TurnOps
           /\ \/ call'[c].pc = "begin" /\ call'[c].op = call[c].op
              \/ call'[c].pc = "monitor" /\ call'[c].op = "input"
           /\ \A d \in Caller \ {c} : call'[d] = call[d]
<1>1. CASE Goto(c, "begin")
  BY <1>1, GotoMoves DEF Steps, TurnSteps
<1>2. CASE call' = [call EXCEPT ![c].pc = "monitor", ![c].op = "input"]
  <2> DEFINE k == [call[c] EXCEPT !.pc = "monitor", !.op = "input"]
  <2>1. "monitor" \in Steps /\ "input" \in Operations /\ "input" \in TurnOps
    BY DEF Steps, TurnSteps, Operations, TurnOps
  <2>2. k \in CallStates /\ k.s = call[c].s /\ k.op = "input" /\ k.pc = "monitor"
    BY <2>1 DEF CallStates
  <2>3. call' = [call EXCEPT ![c] = k]
    BY <1>2
  <2> HIDE DEF k
  <2> QED BY <2>1, <2>2, <2>3, CallMoves
<1> QED BY <1>1, <1>2

LEMMA BindType ==
    ASSUME TypeInv, NEW c \in Caller, Bind(c)
    PROVE  TypeInv'
<1> USE TypeHelpers
<1> DEFINE s0 == call[c].s
<1>1. /\ call[c].pc = "bind" /\ UNCHANGED <<pending, monitor, server, work, reconf>>
      /\ s0 \in Session /\ state[s0] # "none" /\ call[c].op \in TurnOps
  BY DEF Bind, TypeInv, CallsKnow, Knows, TurnSteps
<1>2. /\ binding' \in [Session -> Bindings]
      /\ binding'[s0] = Fresh /\ \A s \in Session \ {s0} : binding'[s] = binding[s]
  BY <1>1, FreshType DEF Bind
<1>3. /\ call' \in [Caller -> CallStates]
      /\ \A d \in Caller \ {c} : call'[d] = call[d]
      /\ \/ call'[c].pc = "idle"
         \/ /\ call'[c].op \in TurnOps /\ call'[c].s = s0
            /\ call'[c].pc \in {"begin", "monitor"}
      /\ state' \in [Session -> State]
      /\ \A s \in Session : state[s] # "none" => state'[s] # "none"
  BY <1>1, BindCall, ReturnMoves, SetType DEF Bind, State
<1>4. Knows(c)'
  <2>1. binding'[s0].bound
    BY <1>2, FreshType
  <2> QED BY <1>1, <1>2, <1>3, <2>1, IdleKnows DEF Knows, TurnSteps
<1>5. TurnIsBound'
  BY <1>2, FreshType DEF TurnIsBound, TypeInv
<1>6. Shapes' /\ Onwards /\ \A s \in Session : Works(s)' => Works(s)
  BY <1>1, <1>2, <1>3, FreshType DEF TypeInv, Shapes, Onwards, Works
<1> QED BY <1>1, <1>3, <1>4, <1>5, <1>6, TypeMove DEF Asking, TurnSteps

LEMMA TakeTurnMoves ==
    ASSUME TypeInv, NEW c \in Caller, call[c].pc = "begin", TakeTurn(c)
    PROVE  /\ call[c].s \in Session /\ call[c].op \in TurnOps
           /\ binding' \in [Session -> Bindings]
           /\ binding[call[c].s].turn = 0 /\ ~binding[call[c].s].guard
           /\ binding'[call[c].s].guard /\ binding'[call[c].s].turn = 0
           /\ binding'[call[c].s].manual =
                 (binding[call[c].s].manual \/ call[c].op = "compact")
           /\ binding'[call[c].s].bound = binding[call[c].s].bound
           /\ \A s \in Session \ {call[c].s} : binding'[s] = binding[s]
           /\ state' \in [Session -> State] /\ state'[call[c].s] \in {"compacting", "starting"}
           /\ \A s \in Session \ {call[c].s} : state'[s] = state[s]
           /\ call' \in [Caller -> CallStates]
           /\ call'[c].pc = "send" /\ call'[c].op = call[c].op /\ call'[c].s = call[c].s
           /\ \A d \in Caller \ {c} : call'[d] = call[d]
<1> USE TypeHelpers
<1>1. call[c].s \in Session /\ call[c].op \in TurnOps
  BY DEF TypeInv, CallsKnow, Knows, TurnSteps
<1>2. /\ state' \in [Session -> State] /\ state'[call[c].s] \in {"compacting", "starting"}
      /\ \A s \in Session \ {call[c].s} : state'[s] = state[s]
  BY <1>1, SetType DEF TakeTurn, State
<1>3. /\ call' \in [Caller -> CallStates]
      /\ call'[c].pc = "send" /\ call'[c].op = call[c].op /\ call'[c].s = call[c].s
      /\ \A d \in Caller \ {c} : call'[d] = call[d]
  BY GotoMoves DEF TakeTurn, Steps, TurnSteps
<1>4. binding' = [binding EXCEPT ![call[c].s].guard = TRUE,
                                 ![call[c].s].manual = @ \/ call[c].op = "compact"]
  BY DEF TakeTurn
<1>5. binding[call[c].s].turn = 0 /\ ~binding[call[c].s].guard
  BY <1>1 DEF TakeTurn, Busy, Bindings
<1>6. /\ binding' \in [Session -> Bindings]
      /\ binding'[call[c].s].guard
      /\ binding'[call[c].s].turn = binding[call[c].s].turn
      /\ binding'[call[c].s].manual =
                 (binding[call[c].s].manual \/ call[c].op = "compact")
      /\ binding'[call[c].s].bound = binding[call[c].s].bound
      /\ \A s \in Session \ {call[c].s} : binding'[s] = binding[s]
  <2> DEFINE m == binding[call[c].s].manual \/ call[c].op = "compact"
             b == [binding[call[c].s] EXCEPT !.guard = TRUE, !.manual = m]
  <2>1. binding[call[c].s] \in Bindings /\ m \in BOOLEAN
    BY <1>1
  <2>2. binding' = [binding EXCEPT ![call[c].s] = b]
    BY <1>1, <1>4
  <2> HIDE DEF m
  <2>3. /\ b \in Bindings /\ b.guard /\ b.turn = binding[call[c].s].turn /\ b.manual = m
        /\ b.bound = binding[call[c].s].bound
    BY <2>1 DEF Bindings
  <2> HIDE DEF b
  <2>4. binding'[call[c].s] = b
    BY <1>1, <2>2
  <2> QED BY <1>1, <2>2, <2>3, <2>4 DEF m
<1> QED BY <1>1, <1>2, <1>3, <1>5, <1>6

LEMMA BeginType ==
    ASSUME TypeInv, NEW c \in Caller, Begin(c)
    PROVE  TypeInv'
<1> USE TypeHelpers
<1>1. call[c].pc = "begin" /\ UNCHANGED <<pending, monitor, server, work, reconf>>
  BY DEF Begin
<1>2. CASE TakeTurn(c)
  <2>1. /\ Shapes' /\ Onwards /\ TurnIsBound' /\ Knows(c)'
        /\ \A s \in Session : Works(s)' => Works(s)
    BY <1>1, <1>2, TakeTurnMoves
       DEF TypeInv, Shapes, Onwards, TurnIsBound, CallsKnow, Knows, TurnSteps, Works
  <2> QED BY <1>1, <1>2, <2>1, TakeTurnMoves, TypeMove DEF Asking, TurnSteps
<1>3. CASE Return(c) /\ UNCHANGED <<state, binding>>
  <2>1. /\ Shapes' /\ Onwards /\ TurnIsBound' /\ Knows(c)'
        /\ \A s \in Session : Works(s)' => Works(s)
    BY <1>1, <1>3, ReturnMoves, IdleKnows DEF TypeInv, Shapes, Onwards, TurnIsBound, Works
  <2> QED BY <1>1, <1>3, <2>1, ReturnMoves, TypeMove DEF Asking, TurnSteps
<1> QED BY <1>2, <1>3 DEF Begin

\* A step that only moves one call, or returns it, and may set its session's state.
LEMMA TypePlain ==
    ASSUME TypeInv, NEW c \in Caller, call' \in [Caller -> CallStates], Onwards,
           \A d \in Caller \ {c} : call'[d] = call[d],
           \/ call'[c].pc = "idle"
           \/ /\ call'[c].s = call[c].s /\ call'[c].op = call[c].op /\ call[c].pc # "idle"
              /\ call'[c].pc \in {"release", "failed"}
           \/ /\ call'[c].s = call[c].s /\ call'[c].op = call[c].op /\ call[c].pc # "idle"
              /\ call'[c].turn = call[c].turn /\ call[c].pc = "drain" /\ call'[c].pc = "interrupt"
           \/ /\ call'[c].s = call[c].s /\ call'[c].op = call[c].op /\ call[c].pc # "idle"
              /\ call'[c].turn = call[c].turn /\ call[c].pc = "answer" /\ call'[c].pc = "answered",
           state' \in [Session -> State], binding' \in [Session -> Bindings], TurnIsBound',
           pending' \subseteq Session \X (1 .. MaxId),
           monitor' \in Monitors, monitor'.pc = "releasing" => monitor'.s \in Session,
           server' \in Servers, work' \in [Session -> Workings],
           \A s \in Session : work'[s].id = work[s].id /\ (Works(s)' => Works(s)),
           reconf' \in BOOLEAN
    PROVE  TypeInv'
<1>1. Knows(c)'
  BY DEF TypeInv, CallsKnow, Knows, Onwards, TurnSteps
<1>2. Shapes'
  BY DEF Shapes
<1> QED BY <1>1, <1>2, TypeMove DEF Asking, TurnSteps

LEMMA CallSent ==
    ASSUME call \in [Caller -> CallStates], NEW c \in Caller, NEW turn \in 0 .. MaxId,
           NEW gen \in 0 .. MaxGen,
           call' = [call EXCEPT ![c].pc = "reply", ![c].turn = turn, ![c].gen = gen]
    PROVE  /\ call' \in [Caller -> CallStates]
           /\ call'[c].pc = "reply" /\ call'[c].op = call[c].op /\ call'[c].s = call[c].s
           /\ call'[c].turn = turn /\ call'[c].gen = gen
           /\ \A d \in Caller \ {c} : call'[d] = call[d]
<1> DEFINE k1 == [call EXCEPT ![c].pc = "reply"]
           k2 == [k1 EXCEPT ![c].turn = turn]
           k3 == [k2 EXCEPT ![c].gen = gen]
<1>1. "reply" \in Steps
  BY DEF Steps, TurnSteps
<1>2. /\ k1 \in [Caller -> CallStates]
      /\ k1[c].pc = "reply" /\ k1[c].op = call[c].op /\ k1[c].s = call[c].s
      /\ \A d \in Caller \ {c} : k1[d] = call[d]
  BY <1>1 DEF CallStates
<1>3. call' = k3
  OBVIOUS
<1> HIDE DEF k1
<1>4. /\ k2 \in [Caller -> CallStates]
      /\ k2[c].pc = "reply" /\ k2[c].op = call[c].op /\ k2[c].s = call[c].s /\ k2[c].turn = turn
      /\ \A d \in Caller \ {c} : k2[d] = call[d]
  BY <1>2 DEF CallStates
<1> HIDE DEF k2
<1>5. /\ k3 \in [Caller -> CallStates]
      /\ k3[c].pc = "reply" /\ k3[c].op = call[c].op /\ k3[c].s = call[c].s
      /\ k3[c].turn = turn /\ k3[c].gen = gen
      /\ \A d \in Caller \ {c} : k3[d] = call[d]
  BY <1>4 DEF CallStates
<1> HIDE DEF k3
<1> QED BY <1>3, <1>5

\* A turn, or a compaction, is accepted.
LEMMA SendMoves ==
    ASSUME TypeInv, NEW c \in Caller, call[c].pc = "send", CanServe,
           NEW kind \in {"turn", "compact"},
           server' = Served,
           work' = [work EXCEPT ![call[c].s] =
                       [id |-> @.id + 1, kind |-> kind, asks |-> "no", auto |-> "no"]],
           Emit(Event(IF kind = "turn" THEN "started" ELSE "compacting", call[c].s,
                      work'[call[c].s].id)),
           call' = [call EXCEPT ![c].pc = "reply", ![c].turn = work'[call[c].s].id,
                                ![c].gen = server'.gen],
           UNCHANGED <<state, binding, pending, reconf>>
    PROVE  /\ TypeInv' /\ server' \in Servers /\ server'.alive
           /\ work'[call[c].s] = [id |-> work[call[c].s].id + 1, kind |-> kind, asks |-> "no",
                                  auto |-> "no"]
           /\ \A s \in Session \ {call[c].s} : work'[s] = work[s]
           /\ call'[c].pc = "reply" /\ call'[c].op = call[c].op /\ call'[c].s = call[c].s
           /\ call'[c].turn = work'[call[c].s].id /\ call'[c].gen = server'.gen
           /\ \A d \in Caller \ {c} : call'[d] = call[d]
<1> USE TypeHelpers
<1> DEFINE s0 == call[c].s  w == [id |-> work[s0].id + 1, kind |-> kind, asks |-> "no", auto |-> "no"]
<1>1. /\ s0 \in Session /\ state[s0] # "none" /\ call[c].op \in TurnOps /\ binding[s0].bound
  BY DEF TypeInv, CallsKnow, Knows, TurnSteps
<1>2. work[s0].id + 1 \in 1 .. MaxId
  <2>1. c \in Senders(s0)
    BY DEF Senders, Asking, TurnSteps
  <2>2. Cardinality(Senders(s0)) # 0
    BY <2>1, SendersFinite, FS_EmptySet
  <2>3. work[s0].id + Cardinality(Senders(s0)) <= MaxId
    BY <1>1 DEF TypeInv, TurnsBounded
  <2> QED BY <1>1, <2>2, <2>3, SendersFinite, MaxIdType
<1>3. w \in Workings /\ w.id = work[s0].id + 1 /\ w.kind = kind
  BY <1>2 DEF Workings
<1>4. work' = [work EXCEPT ![s0] = w]
  OBVIOUS
<1> HIDE DEF w
<1>5. /\ work' \in [Session -> Workings] /\ work'[s0] = w
      /\ \A s \in Session \ {s0} : work'[s] = work[s]
  BY <1>1, <1>3, <1>4
<1>6. server' \in Servers /\ server'.alive /\ server'.gen \in 0 .. MaxGen
  BY ServedType DEF Servers
<1>7. monitor' \in Monitors /\ monitor'.pc = monitor.pc /\ monitor'.s = monitor.s
  <2>1. (IF kind = "turn" THEN "started" ELSE "compacting") \in Types
    BY DEF Types
  <2> QED BY <1>1, <1>2, <1>3, <1>5, <2>1, EmitType
<1>8. /\ call' \in [Caller -> CallStates]
      /\ call'[c].pc = "reply" /\ call'[c].op = call[c].op /\ call'[c].s = s0
      /\ call'[c].turn = w.id /\ call'[c].gen = server'.gen
      /\ \A d \in Caller \ {c} : call'[d] = call[d]
  <2>1. w.id \in 0 .. MaxId
    BY <1>2, <1>3
  <2>2. call' = [call EXCEPT ![c].pc = "reply", ![c].turn = w.id, ![c].gen = server'.gen]
    BY <1>5
  <2> QED BY <1>6, <2>1, <2>2, CallSent
<1>9. CallsKnow'
  <2>1. ASSUME NEW d \in Caller \ {c} PROVE Knows(d)'
    BY <2>1, <1>8 DEF TypeInv, CallsKnow, Knows
  <2>2. Knows(c)'
    BY <1>1, <1>2, <1>3, <1>8 DEF Knows, TurnSteps
  <2> QED BY <2>1, <2>2 DEF CallsKnow
<1>10. TurnsBounded'
  <2> SUFFICES ASSUME NEW s \in Session
               PROVE  /\ work'[s].id + Cardinality(Senders(s)') <= MaxId
                      /\ state'[s] = "none" => work'[s].id = 0
                      /\ Works(s)' => work'[s].id # 0
    BY DEF TurnsBounded
  <2>0. Asking = {"monitor", "subscribe", "thread", "bind", "begin", "send"}
    BY DEF Asking, TurnSteps
  <2>1. CASE s = s0
    <3>1. Senders(s)' = Senders(s) \ {c} /\ c \in Senders(s)
      BY <1>8, <2>0, <2>1 DEF Senders
    <3>2. Cardinality(Senders(s)') = Cardinality(Senders(s)) - 1
      BY <3>1, SendersFinite, FS_RemoveElement
    <3> QED BY <1>1, <1>2, <1>3, <1>5, <2>1, <3>2, SendersFinite, MaxIdType DEF TypeInv, TurnsBounded
  <2>2. CASE s # s0
    <3>1. Senders(s)' = Senders(s)
      BY <1>8, <2>0, <2>2 DEF Senders
    <3> QED BY <1>5, <2>2, <3>1 DEF TypeInv, TurnsBounded, Works
  <2> QED BY <2>1, <2>2
<1>11. Shapes' /\ TurnIsBound'
  BY <1>5, <1>6, <1>7, <1>8 DEF TypeInv, Shapes, TurnIsBound
<1> QED BY <1>3, <1>5, <1>6, <1>8, <1>9, <1>10, <1>11 DEF TypeInv, w

LEMMA SendType ==
    ASSUME TypeInv, NEW c \in Caller, Send(c)
    PROVE  TypeInv'
<1> USE TypeHelpers
<1> DEFINE kind == IF call[c].op = "compact" THEN "compact" ELSE "turn"
<1>0. kind \in {"turn", "compact"}
  OBVIOUS
<1>1. ASSUME Attempted, Goto(c, "release"), UNCHANGED <<work, monitor>>,
             UNCHANGED <<state, binding, pending, reconf>>, call[c].pc = "send"
      PROVE  TypeInv'
  <2>1. "release" \in Steps
    BY DEF Steps
  <2>2. server' \in Servers
    BY <1>1, AttemptedType
  <2>3. TurnIsBound' /\ Onwards
    BY <1>1 DEF TypeInv, TurnIsBound, Onwards
  <2> QED BY <1>1, <2>1, <2>2, <2>3, GotoMoves, TypePlain DEF TypeInv, Shapes, Works
<1>2. ASSUME CanServe, server' = Served,
             work' = [work EXCEPT ![call[c].s] =
                       [id |-> @.id + 1, kind |-> kind, asks |-> "no", auto |-> "no"]],
             Emit(Event(IF kind = "turn" THEN "started" ELSE "compacting", call[c].s,
                        work'[call[c].s].id)),
             call' = [call EXCEPT ![c].pc = "reply", ![c].turn = work'[call[c].s].id,
                                  ![c].gen = server'.gen],
             UNCHANGED <<state, binding, pending, reconf>>, call[c].pc = "send"
      PROVE  TypeInv'
  <2> HIDE DEF kind
  <2> QED BY <1>0, <1>2, SendMoves
<1> QED BY <1>1, <1>2 DEF Send

LEMMA ReplyType ==
    ASSUME TypeInv, NEW c \in Caller, Reply(c)
    PROVE  TypeInv'
<1> USE TypeHelpers
<1>1. /\ call[c].pc = "reply" /\ UNCHANGED <<state, pending, monitor, server, work, reconf>>
      /\ call[c].s \in Session /\ binding[call[c].s].bound /\ call[c].op \in TurnOps
      /\ call[c].turn # 0 /\ state[call[c].s] # "none"
  BY DEF Reply, TypeInv, CallsKnow, Knows, TurnSteps
<1>2. CASE Return(c) /\ UNCHANGED binding
  <2>1. Onwards /\ TurnIsBound'
    BY <1>1, <1>2 DEF TypeInv, TurnIsBound, Onwards
  <2> QED BY <1>1, <1>2, <2>1, ReturnMoves, TypePlain DEF TypeInv, Shapes, Works
<1>3. CASE Goto(c, "release") /\ UNCHANGED binding
  <2>1. Onwards /\ TurnIsBound' /\ "release" \in Steps
    BY <1>1, <1>3 DEF TypeInv, TurnIsBound, Onwards, Steps
  <2> QED BY <1>1, <1>3, <2>1, GotoMoves, TypePlain DEF TypeInv, Shapes, Works
<1>4. CASE /\ Goto(c, "running")
           /\ binding' = [binding EXCEPT ![call[c].s].turn = call[c].turn]
  <2>1. "running" \in Steps
    BY DEF Steps, TurnSteps
  <2>2. /\ call' \in [Caller -> CallStates]
        /\ call'[c].pc = "running" /\ call'[c].op = call[c].op /\ call'[c].s = call[c].s
        /\ call'[c].turn = call[c].turn
        /\ \A d \in Caller \ {c} : call'[d] = call[d]
    BY <1>4, <2>1, GotoMoves
  <2>3. /\ binding' \in [Session -> Bindings]
        /\ binding'[call[c].s].bound
        /\ \A s \in Session : binding'[s].bound = binding[s].bound
        /\ \A s \in Session \ {call[c].s} : binding'[s] = binding[s]
    BY <1>1, <1>4 DEF Bindings
  <2>4. Shapes' /\ Onwards /\ TurnIsBound' /\ \A s \in Session : Works(s)' => Works(s)
    BY <1>1, <2>2, <2>3 DEF TypeInv, Shapes, Onwards, TurnIsBound, Works
  <2>5. Knows(c)'
    BY <1>1, <2>2, <2>3 DEF Knows, TurnSteps
  <2> QED BY <1>1, <2>2, <2>4, <2>5, TypeMove DEF Asking, TurnSteps
<1> QED BY <1>2, <1>3, <1>4 DEF Reply

LEMMA MarkRunningType ==
    ASSUME TypeInv, NEW c \in Caller, MarkRunning(c)
    PROVE  TypeInv'
<1> USE TypeHelpers
<1>1. call[c].s \in Session
  BY DEF MarkRunning, TypeInv, CallsKnow, Knows
<1>2. /\ Return(c) /\ state' \in [Session -> State] /\ Onwards /\ TurnIsBound'
      /\ UNCHANGED <<binding, pending, monitor, server, work, reconf>>
  BY <1>1, SetType DEF MarkRunning, State, Onwards, TurnIsBound, TypeInv
<1> QED BY <1>2, ReturnMoves, TypePlain DEF TypeInv, Shapes, Works

LEMMA ReleaseMoves ==
    ASSUME TypeInv, NEW s \in Session, binding' = [binding EXCEPT ![s] = Released(@)]
    PROVE  /\ binding' \in [Session -> Bindings]
           /\ binding'[s] = Released(binding[s])
           /\ \A t \in Session : binding'[t].bound = binding[t].bound
           /\ \A t \in Session \ {s} : binding'[t] = binding[t]
           /\ TurnIsBound'
<1> USE TypeHelpers
<1>1. Released(binding[s]) \in Bindings /\ Released(binding[s]).bound = binding[s].bound
      /\ Released(binding[s]).turn = 0
  BY ReleasedType
<1>2. /\ binding' \in [Session -> Bindings]
      /\ binding'[s] = Released(binding[s])
      /\ \A t \in Session \ {s} : binding'[t] = binding[t]
  BY <1>1
<1> QED BY <1>1, <1>2 DEF TypeInv, TurnIsBound

LEMMA ReleaseFailedType ==
    ASSUME TypeInv, NEW c \in Caller, ReleaseFailed(c)
    PROVE  TypeInv'
<1> USE TypeHelpers
<1>1. call[c].pc = "release" /\ call[c].s \in Session /\ "failed" \in Steps
  BY DEF ReleaseFailed, TypeInv, CallsKnow, Knows, Steps
<1>2. /\ binding' \in [Session -> Bindings] /\ Onwards /\ TurnIsBound'
      /\ UNCHANGED <<state, pending, monitor, server, work, reconf>>
      /\ Return(c) \/ Goto(c, "failed")
  BY <1>1, ReleaseMoves DEF ReleaseFailed, Onwards
<1> QED BY <1>1, <1>2, ReturnMoves, GotoMoves, TypePlain DEF TypeInv, Shapes, Works

LEMMA MarkFailedType ==
    ASSUME TypeInv, NEW c \in Caller, MarkFailed(c)
    PROVE  TypeInv'
<1> USE TypeHelpers
<1>1. call[c].pc = "failed" /\ call[c].s \in Session /\ "release" \in Steps
  BY DEF MarkFailed, TypeInv, CallsKnow, Knows, Steps
<1>2. /\ state' \in [Session -> State] /\ Onwards /\ TurnIsBound'
      /\ UNCHANGED <<binding, pending, monitor, server, work, reconf>>
      /\ Return(c) \/ Goto(c, "release")
  BY <1>1, SetType DEF MarkFailed, Onwards, State, Terminal, TurnIsBound, TypeInv
<1> QED BY <1>1, <1>2, ReturnMoves, GotoMoves, TypePlain DEF TypeInv, Shapes, Works

LEMMA DrainType ==
    ASSUME TypeInv, NEW c \in Caller, Drain(c)
    PROVE  TypeInv'
<1> USE TypeHelpers
<1>1. call[c].pc = "drain" /\ call[c].s \in Session /\ "interrupt" \in Steps
  BY DEF Drain, TypeInv, CallsKnow, Knows, Steps
<1>2. /\ state' \in [Session -> State] /\ Onwards /\ TurnIsBound'
      /\ UNCHANGED <<binding, pending, monitor, server, work, reconf>>
      /\ Return(c) \/ Goto(c, "interrupt")
  BY <1>1, SetType DEF Drain, Onwards, State, TurnIsBound, TypeInv
<1> QED BY <1>1, <1>2, ReturnMoves, GotoMoves, TypePlain DEF TypeInv, Shapes, Works

\* A thread stops, or only its questions and its compaction change.
LEMMA StopMoves ==
    ASSUME TypeInv, NEW s \in Session, Stop(s)
    PROVE  /\ work' \in [Session -> Workings]
           /\ work'[s].kind = "none" /\ work'[s].id = work[s].id
           /\ \A t \in Session : work'[t].id = work[t].id /\ (Works(t)' => Works(t))
           /\ \A t \in Session \ {s} : work'[t] = work[t]
BY TypeHelpers DEF Stop, Works, Workings

LEMMA InterruptType ==
    ASSUME TypeInv, NEW c \in Caller, Interrupt(c)
    PROVE  TypeInv'
<1> USE TypeHelpers
<1>1. /\ call[c].pc = "interrupt" /\ call[c].s \in Session /\ "failed" \in Steps
      /\ call[c].turn \in 1 .. MaxId /\ "interrupted" \in Types
      /\ UNCHANGED <<state, binding, pending, reconf>>
  BY MaxIdType DEF Interrupt, TypeInv, CallsKnow, Knows, Steps, Types
<1>2. Onwards /\ TurnIsBound'
  BY <1>1 DEF Onwards, TurnIsBound, TypeInv
<1>3. ASSUME Stop(call[c].s), UNCHANGED server, Return(c) \/ Goto(c, "failed"),
             Emit(Event("interrupted", call[c].s, call[c].turn))
      PROVE  TypeInv'
  <2>1. monitor' \in Monitors /\ monitor'.pc = monitor.pc /\ monitor'.s = monitor.s
    BY <1>1, <1>3, EmitType
  <2> QED BY <1>1, <1>2, <1>3, <2>1, StopMoves, ReturnMoves, GotoMoves, TypePlain
          DEF TypeInv, Shapes
<1>4. ASSUME Attempted, Goto(c, "failed"), UNCHANGED <<work, monitor>> PROVE TypeInv'
  BY <1>1, <1>2, <1>4, AttemptedType, GotoMoves, TypePlain DEF TypeInv, Shapes, Works
<1> QED BY <1>3, <1>4 DEF Interrupt

LEMMA AnswerType ==
    ASSUME TypeInv, NEW c \in Caller, Answer(c)
    PROVE  TypeInv'
<1> USE TypeHelpers
<1>1. /\ call[c].pc = "answer" /\ call[c].s \in Session /\ "answered" \in Steps
      /\ call[c].turn \in 1 .. MaxId /\ "resolved" \in Types
      /\ UNCHANGED <<state, binding, pending, reconf>>
  BY MaxIdType DEF Answer, TypeInv, CallsKnow, Knows, Steps, Types
<1>2. Onwards /\ TurnIsBound'
  BY <1>1 DEF Onwards, TurnIsBound, TypeInv
<1>3. ASSUME CanServe, server' = Served, Goto(c, "answered"),
             \/ /\ work' = [work EXCEPT ![call[c].s].asks = "answered"]
                /\ Emit(Event("resolved", call[c].s, call[c].turn))
             \/ UNCHANGED <<work, monitor>>
      PROVE  TypeInv'
  <2>1. monitor' \in Monitors /\ monitor'.pc = monitor.pc /\ monitor'.s = monitor.s
    BY <1>1, <1>3, EmitType
  <2>2. /\ work' \in [Session -> Workings]
        /\ \A s \in Session : work'[s].id = work[s].id /\ (Works(s)' => Works(s))
    BY <1>1, <1>3 DEF Workings, Works
  <2>3. server' \in Servers
    BY <1>3, ServedType
  <2> QED BY <1>1, <1>2, <1>3, <2>1, <2>2, <2>3, GotoMoves, TypePlain DEF TypeInv, Shapes
<1>4. ASSUME Attempted, Return(c), UNCHANGED <<work, monitor>> PROVE TypeInv'
  BY <1>1, <1>2, <1>4, AttemptedType, ReturnMoves, TypePlain DEF TypeInv, Shapes, Works
<1> QED BY <1>3, <1>4 DEF Answer

LEMMA AnsweredType ==
    ASSUME TypeInv, NEW c \in Caller, Answered(c)
    PROVE  TypeInv'
<1> USE TypeHelpers
<1>1. call[c].s \in Session
  BY DEF Answered, TypeInv, CallsKnow, Knows
<1>2. /\ Return(c) /\ state' \in [Session -> State] /\ Onwards /\ TurnIsBound'
      /\ pending' \subseteq pending
      /\ UNCHANGED <<binding, monitor, server, work, reconf>>
  BY <1>1, SetType DEF Answered, State, Onwards, TurnIsBound, TypeInv
<1> QED BY <1>2, ReturnMoves, TypePlain DEF TypeInv, Shapes, Works

\* A call that asks for a turn joins the senders of its session.
LEMMA TypeAsk ==
    ASSUME TypeInv, NEW c \in Caller, NEW s \in Session, call[c].pc = "idle",
           call' \in [Caller -> CallStates], call'[c].pc = "monitor", call'[c].op \in TurnOps,
           call'[c].s = s, \A d \in Caller \ {c} : call'[d] = call[d],
           state' \in [Session -> State], state'[s] # "none", Onwards,
           work[s].id < MaxTurn \/ state[s] = "none",
           UNCHANGED <<binding, pending, monitor, server, work, reconf>>
    PROVE  TypeInv'
<1> USE TypeHelpers
<1>1. Knows(c)'
  BY DEF Knows, TurnSteps
<1>2. CallsKnow'
  <2>1. ASSUME NEW d \in Caller \ {c} PROVE Knows(d)'
    BY <2>1 DEF TypeInv, CallsKnow, Knows, Onwards, TurnSteps
  <2> QED BY <1>1, <2>1 DEF CallsKnow
<1>3. TurnsBounded'
  <2> SUFFICES ASSUME NEW t \in Session
               PROVE  /\ work'[t].id + Cardinality(Senders(t)') <= MaxId
                      /\ state'[t] = "none" => work'[t].id = 0
                      /\ Works(t)' => work'[t].id # 0
    BY DEF TurnsBounded
  <2>1. CASE t = s
    <3>1. Senders(t)' \subseteq Caller
      BY DEF Senders
    <3>2. Cardinality(Senders(t)') \in Nat /\ Cardinality(Senders(t)') <= Cardinality(Caller)
      BY <3>1, MaxIdType, FS_Subset, FS_CardinalityType
    <3>3. work[s].id <= MaxTurn
      BY SessionAssumption, MaxIdType DEF TypeInv, TurnsBounded
    <3> QED BY <2>1, <3>2, <3>3, MaxIdType, SessionAssumption, FS_CardinalityType
            DEF MaxId, TypeInv, TurnsBounded, Works
  <2>2. CASE t # s
    <3>1. Senders(t)' = Senders(t)
      BY <2>2 DEF Senders, Asking, TurnSteps
    <3> QED BY <2>2, <3>1 DEF TypeInv, TurnsBounded, Works, Onwards
  <2> QED BY <2>1, <2>2
<1>4. Shapes' /\ TurnIsBound'
  BY DEF TypeInv, Shapes, TurnIsBound
<1> QED BY <1>2, <1>3, <1>4 DEF TypeInv

LEMMA BeginTaskType ==
    ASSUME TypeInv, NEW c \in Caller, NEW s \in Session, BeginTask(c, s)
    PROVE  TypeInv'
<1> USE TypeHelpers
<1>1. /\ UNCHANGED <<binding, pending, monitor, server, work, reconf>>
      /\ state[s] = "none" /\ state' \in [Session -> State] /\ state'[s] # "none" /\ Onwards
  BY SetType DEF BeginTask, State, Onwards
<1>2. CASE Calls(c, "task", s, "monitor")
  <2>1. "task" \in Operations /\ "task" \in TurnOps /\ "monitor" \in Steps
    BY DEF Operations, TurnOps, Steps, TurnSteps
  <2>2. /\ call' \in [Caller -> CallStates] /\ call[c].pc = "idle"
        /\ call'[c].pc = "monitor" /\ call'[c].op = "task" /\ call'[c].s = s
        /\ \A d \in Caller \ {c} : call'[d] = call[d]
    BY <1>2, <2>1, CallBegins DEF Calls
  <2> QED BY <1>1, <2>1, <2>2, TypeAsk
<1>3. CASE UNCHANGED call
  BY <1>1, <1>3, TypeStay DEF TypeInv, Shapes, TurnIsBound, Works
<1> QED BY <1>2, <1>3 DEF BeginTask

LEMMA BeginTurnType ==
    ASSUME TypeInv, NEW c \in Caller, NEW s \in Session, BeginTurn(c, s)
    PROVE  TypeInv'
<1> USE TypeHelpers
<1>1. /\ UNCHANGED <<state, binding, pending, monitor, server, work, reconf>>
      /\ state[s] # "none" /\ Onwards /\ work[s].id < MaxTurn
  BY DEF BeginTurn, Onwards
<1>2. PICK op \in {"input", "compact"} : Calls(c, op, s, "monitor")
  BY DEF BeginTurn
<1>3. op \in Operations /\ op \in TurnOps /\ "monitor" \in Steps
  BY DEF Operations, TurnOps, Steps, TurnSteps
<1>4. /\ call' \in [Caller -> CallStates] /\ call[c].pc = "idle"
      /\ call'[c].pc = "monitor" /\ call'[c].op = op /\ call'[c].s = s
      /\ \A d \in Caller \ {c} : call'[d] = call[d]
  <2> DEFINE k == [Idle EXCEPT !.pc = "monitor", !.op = op, !.s = s]
  <2>1. call[c].pc = "idle" /\ call' = [call EXCEPT ![c] = k]
    BY <1>2 DEF Calls
  <2>2. Idle \in CallStates
    BY MaxIdType DEF Idle, CallStates, Steps
  <2>3. k \in CallStates
    BY <1>3, <2>2 DEF CallStates
  <2>4. k.pc = "monitor" /\ k.op = op /\ k.s = s
    BY DEF Idle
  <2> HIDE DEF k
  <2> QED BY <2>1, <2>3, <2>4, CallMoves
<1> QED BY <1>1, <1>3, <1>4, TypeAsk

\* A call that begins without asking for a turn.
LEMMA TypeBegin ==
    ASSUME TypeInv, NEW c \in Caller, call' \in [Caller -> CallStates],
           \A d \in Caller \ {c} : call'[d] = call[d],
           call'[c].s \in Session, call'[c].turn # 0,
           \/ call'[c].pc = "drain" /\ call'[c].op = "cancel"
           \/ call'[c].pc = "answer" /\ call'[c].op = "respond",
           UNCHANGED <<state, binding, pending, monitor, server, work, reconf>>
    PROVE  TypeInv'
<1>1. Knows(c)'
  BY DEF Knows, TurnSteps
<1>2. Shapes' /\ Onwards /\ TurnIsBound' /\ \A s \in Session : Works(s)' => Works(s)
  BY DEF TypeInv, Shapes, Onwards, TurnIsBound, Works
<1> QED BY <1>1, <1>2, TypeMove DEF Asking, TurnSteps

LEMMA BeginCancelType ==
    ASSUME TypeInv, NEW c \in Caller, NEW s \in Session, BeginCancel(c, s)
    PROVE  TypeInv'
<1> USE TypeHelpers
<1>1. "cancel" \in Operations /\ "drain" \in Steps /\ binding[s].turn \in 0 .. MaxId
  BY DEF Operations, Steps
<1>2. /\ call' \in [Caller -> CallStates]
      /\ call'[c].pc = "drain" /\ call'[c].op = "cancel" /\ call'[c].s = s
      /\ call'[c].turn = binding[s].turn
      /\ \A d \in Caller \ {c} : call'[d] = call[d]
  <2> DEFINE k == [Idle EXCEPT !.pc = "drain", !.op = "cancel", !.s = s,
                               !.turn = binding[s].turn]
  <2>1. call' = [call EXCEPT ![c] = k]
    BY DEF BeginCancel
  <2>2. Idle \in CallStates
    BY MaxIdType DEF Idle, CallStates, Steps
  <2>3. k \in CallStates
    BY <1>1, <2>2 DEF CallStates
  <2>4. k.pc = "drain" /\ k.op = "cancel" /\ k.s = s /\ k.turn = binding[s].turn
    BY DEF Idle
  <2> HIDE DEF k
  <2> QED BY <2>1, <2>3, <2>4, CallMoves
<1> QED BY <1>2, TypeBegin DEF BeginCancel

LEMMA BeginRespondType ==
    ASSUME TypeInv, NEW c \in Caller, BeginRespond(c)
    PROVE  TypeInv'
<1> USE TypeHelpers
<1>1. PICK r \in pending : call' = [call EXCEPT ![c] = [Idle EXCEPT !.pc = "answer",
                                         !.op = "respond", !.s = r[1], !.turn = r[2]]]
  BY DEF BeginRespond
<1>2. "respond" \in Operations /\ "answer" \in Steps
  BY DEF Operations, Steps
<1>3. r[1] \in Session /\ r[2] \in 1 .. MaxId /\ r[2] \in 0 .. MaxId /\ r[2] # 0
  BY MaxIdType DEF TypeInv, Shapes
<1>4. /\ call' \in [Caller -> CallStates]
      /\ call'[c].pc = "answer" /\ call'[c].op = "respond" /\ call'[c].s = r[1]
      /\ call'[c].turn = r[2]
      /\ \A d \in Caller \ {c} : call'[d] = call[d]
  <2> DEFINE k == [Idle EXCEPT !.pc = "answer", !.op = "respond", !.s = r[1], !.turn = r[2]]
  <2>1. call' = [call EXCEPT ![c] = k]
    BY <1>1
  <2>2. Idle \in CallStates
    BY MaxIdType DEF Idle, CallStates, Steps
  <2>3. k \in CallStates
    BY <1>2, <1>3, <2>2 DEF CallStates
  <2>4. k.pc = "answer" /\ k.op = "respond" /\ k.s = r[1] /\ k.turn = r[2]
    BY DEF Idle
  <2> HIDE DEF k
  <2> QED BY <2>1, <2>3, <2>4, CallMoves
<1> QED BY <1>3, <1>4, TypeBegin DEF BeginRespond

\* A step of no call that leaves the bindings alone.
LEMMA TypeAside ==
    ASSUME TypeInv, UNCHANGED <<call, binding>>, state' \in [Session -> State], Onwards,
           pending' \subseteq Session \X (1 .. MaxId),
           monitor' \in Monitors, monitor'.pc = "releasing" => monitor'.s \in Session,
           server' \in Servers, work' \in [Session -> Workings],
           \A s \in Session : work'[s].id = work[s].id /\ (Works(s)' => Works(s)),
           reconf' \in BOOLEAN
    PROVE  TypeInv'
<1>1. Shapes' /\ TurnIsBound'
  BY DEF TypeInv, Shapes, TurnIsBound
<1> QED BY <1>1, TypeStay

\* An event of a thread at work, and what that does to the thread.
LEMMA TypeEmit ==
    ASSUME TypeInv, UNCHANGED <<state, binding, pending, call, server, reconf>>,
           NEW s \in Session, Works(s), NEW type \in Types, Emit(Event(type, s, work[s].id)),
           work' \in [Session -> Workings],
           \A t \in Session : work'[t].id = work[t].id /\ (Works(t)' => Works(t))
    PROVE  TypeInv'
<1> USE TypeHelpers
<1>1. monitor' \in Monitors /\ monitor'.pc = monitor.pc /\ monitor'.s = monitor.s
  BY EmitType
<1>2. Onwards
  BY DEF Onwards
<1> QED BY <1>1, <1>2, TypeAside DEF TypeInv, Shapes

LEMMA WorkMoves ==
    ASSUME TypeInv, NEW s \in Session,
           \/ work' = [work EXCEPT ![s].asks = "yes"]
           \/ work' = [work EXCEPT ![s].asks = "answered"]
           \/ work' = [work EXCEPT ![s].auto = "yes"]
           \/ work' = [work EXCEPT ![s].auto = "done"]
    PROVE  /\ work' \in [Session -> Workings]
           /\ \A t \in Session : work'[t].id = work[t].id /\ work'[t].kind = work[t].kind
           /\ \A t \in Session : Works(t)' <=> Works(t)
           /\ \A t \in Session \ {s} : work'[t] = work[t]
<1> USE TypeHelpers
<1>1. CASE work' = [work EXCEPT ![s].asks = "yes"]
  BY <1>1 DEF Workings, Works
<1>2. CASE work' = [work EXCEPT ![s].asks = "answered"]
  BY <1>2 DEF Workings, Works
<1>3. CASE work' = [work EXCEPT ![s].auto = "yes"]
  BY <1>3, SMTT(30) DEF Workings, Works
<1>4. CASE work' = [work EXCEPT ![s].auto = "done"]
  BY <1>4 DEF Workings, Works
<1> QED BY <1>1, <1>2, <1>3, <1>4

LEMMA ProviderType ==
    ASSUME TypeInv, NEW s \in Session, Provider(s) \/ Ask(s)
    PROVE  TypeInv'
<1>1. CASE Complete(s)
  <2>1. PICK type \in {"completed", "turn_failed"} : Emit(Event(type, s, work[s].id))
    BY <1>1 DEF Complete
  <2>2. type \in Types /\ Works(s) /\ Stop(s)
    BY <1>1 DEF Complete, Types, Works
  <2> QED BY <1>1, <2>1, <2>2, StopMoves, TypeEmit DEF Complete
<1>2. CASE FinishCompact(s)
  <2>1. "compacted" \in Types /\ Works(s) /\ Stop(s)
    BY <1>2 DEF FinishCompact, Types, Works
  <2> QED BY <1>2, <2>1, StopMoves, TypeEmit DEF FinishCompact
<1>3. CASE AutoCompact(s)
  <2>1. PICK from \in {"no", "yes"} :
          /\ work' = [work EXCEPT ![s].auto = IF from = "no" THEN "yes" ELSE "done"]
          /\ Emit(Event(IF from = "no" THEN "compacting" ELSE "compacted", s, work[s].id))
          /\ UNCHANGED <<state, binding, pending, call, server, reconf>>
    BY <1>3 DEF AutoCompact
  <2>2. "compacted" \in Types /\ "compacting" \in Types /\ Works(s)
    BY <1>3 DEF AutoCompact, Types, Works
  <2>3. CASE from = "no"
    BY <2>1, <2>2, <2>3, WorkMoves, TypeEmit
  <2>4. CASE from = "yes"
    BY <2>1, <2>2, <2>4, WorkMoves, TypeEmit
  <2> QED BY <2>3, <2>4
<1>4. CASE Ask(s)
  <2>1. "ask" \in Types /\ Works(s)
    BY <1>4 DEF Ask, Types, Works
  <2> QED BY <1>4, <2>1, WorkMoves, TypeEmit DEF Ask
<1> QED BY <1>1, <1>2, <1>3, <1>4 DEF Provider

LEMMA ProcessType ==
    ASSUME TypeInv, Crash \/ Poll \/ Start \/ CheckReconfigure \/ Shutdown
    PROVE  TypeInv'
<1> USE TypeHelpers
<1>1. /\ UNCHANGED <<state, binding, pending, monitor, call>>
      /\ UNCHANGED work \/ AllStop
  BY DEF Crash, Poll, Start, CheckReconfigure, Shutdown
<1>2. server' \in Servers /\ reconf' \in BOOLEAN
  BY ServedType DEF Crash, Poll, Start, CheckReconfigure, Shutdown, Servers, TypeInv, Shapes
<1>3. /\ work' \in [Session -> Workings]
      /\ \A s \in Session : work'[s].id = work[s].id /\ (Works(s)' => Works(s))
  <2>1. CASE UNCHANGED work
    BY <2>1 DEF Works
  <2>2. CASE AllStop
    BY <2>2 DEF AllStop, Works, Workings
  <2> QED BY <1>1, <2>1, <2>2
<1> QED BY <1>1, <1>2, <1>3, TypeAside DEF TypeInv, Shapes, Onwards

LEMMA TakenType ==
    ASSUME TypeInv, monitor.queue # <<>>
    PROVE  /\ Head(monitor.queue) \in Events
           /\ Taken \in Monitors /\ Taken.pc = monitor.pc /\ Taken.gen = monitor.gen
           /\ Taken.queue = Tail(monitor.queue)
           /\ Ending(Head(monitor.queue)) \in Monitors
           /\ Ending(Head(monitor.queue)).pc = "releasing"
           /\ Ending(Head(monitor.queue)).gen = monitor.gen
           /\ Ending(Head(monitor.queue)).queue = Tail(monitor.queue)
           /\ Ending(Head(monitor.queue)).s = Head(monitor.queue).s
<1> USE TypeHelpers
<1>1. monitor.queue \in Seq(Events) /\ Head(monitor.queue) \in Events
      /\ Tail(monitor.queue) \in Seq(Events)
  BY DEF Monitors
<1>2. Taken \in Monitors /\ Taken.pc = monitor.pc /\ Taken.gen = monitor.gen
      /\ Taken.queue = Tail(monitor.queue)
  BY <1>1 DEF Taken, Monitors
<1>3. Head(monitor.queue).s \in Session /\ Head(monitor.queue).type \in Types
  BY <1>1 DEF Events
<1> HIDE DEF Taken
<1> QED BY <1>1, <1>2, <1>3 DEF Ending, Monitors

LEMMA HandleType ==
    ASSUME TypeInv, Handle
    PROVE  TypeInv'
<1> USE TypeHelpers
<1> DEFINE e == Head(monitor.queue)
<1>1. /\ monitor.pc = "listening" /\ monitor.queue # <<>>
      /\ UNCHANGED <<binding, call, server, work, reconf>>
  BY DEF Handle
<1>2. e \in Events /\ e.s \in Session /\ e.turn \in 1 .. MaxId
  BY <1>1, TakenType DEF Events
<1>3. /\ monitor' \in {Taken, Ending(e)}
      /\ UNCHANGED state \/ \E st \in State \ {"none"} : Set(e.s, st)
      /\ pending' \subseteq pending \cup {<<e.s, e.turn>>}
  <2>1. CASE ~binding[e.s].bound
    BY <2>1 DEF Handle
  <2>2. CASE OnStarted(e)
    BY <2>2 DEF OnStarted, State
  <2>3. CASE OnCompleted(e)
    <3>1. PICK st \in {"cancelled", "failed", "waiting_for_user"} : Set(e.s, st)
      BY <2>3 DEF OnCompleted
    <3> QED BY <2>3, <3>1 DEF OnCompleted, State, Terminal
  <2>4. CASE OnAsk(e)
    BY <2>4 DEF OnAsk, State
  <2>5. CASE OnCompacting(e)
    BY <2>5 DEF OnCompacting, State
  <2>6. CASE OnCompacted(e)
    BY <2>6 DEF OnCompacted, State
  <2>7. CASE OnResolved(e)
    BY <2>7 DEF OnResolved
  <2> QED BY <2>1, <2>2, <2>3, <2>4, <2>5, <2>6, <2>7 DEF Handle
<1>4. state' \in [Session -> State] /\ Onwards
  BY <1>1, <1>2, <1>3, SetType DEF Onwards
<1>5. monitor' \in Monitors /\ (monitor'.pc = "releasing" => monitor'.s \in Session)
  BY <1>1, <1>2, <1>3, TakenType
<1> QED BY <1>1, <1>2, <1>3, <1>4, <1>5, TypeAside DEF TypeInv, Shapes, Works

LEMMA ReleaseTurnType ==
    ASSUME TypeInv, ReleaseTurn
    PROVE  TypeInv'
<1> USE TypeHelpers
<1>1. monitor.s \in Session /\ UNCHANGED <<state, call, server, work, reconf>>
  BY DEF ReleaseTurn, TypeInv, Shapes
<1>2. /\ binding' \in [Session -> Bindings] /\ TurnIsBound'
      /\ \A s \in Session : binding'[s].bound = binding[s].bound
  BY <1>1, ReleaseMoves DEF ReleaseTurn
<1>3. /\ monitor' \in Monitors /\ monitor'.pc = "listening"
      /\ pending' \subseteq Session \X (1 .. MaxId)
  BY DEF ReleaseTurn, Monitors, TypeInv, Shapes
<1>4. Shapes' /\ Onwards /\ \A s \in Session : Works(s)' => Works(s)
  BY <1>1, <1>2, <1>3 DEF Shapes, TypeInv, Onwards, Works
<1> QED BY <1>1, <1>2, <1>4, TypeStay

LEMMA FailActiveSessionsType ==
    ASSUME TypeInv, FailActiveSessions
    PROVE  TypeInv'
<1> USE TypeHelpers
<1>1. UNCHANGED <<call, server, work, reconf>>
  BY DEF FailActiveSessions
<1>2. /\ binding' \in [Session -> Bindings]
      /\ \A s \in Session : binding'[s].bound = binding[s].bound /\ binding'[s].turn = 0
  <2> DEFINE b(s) == [binding[s] EXCEPT !.turn = 0, !.guard = FALSE]
  <2>1. 0 \in 0 .. MaxId
    BY MaxIdType
  <2>2. \A s \in Session : b(s) \in Bindings /\ b(s).bound = binding[s].bound /\ b(s).turn = 0
    BY <2>1 DEF Bindings
  <2>3. binding' = [s \in Session |-> b(s)]
    BY DEF FailActiveSessions
  <2> HIDE DEF b
  <2> QED BY <2>2, <2>3
<1>3. /\ state' \in [Session -> State]
      /\ \A s \in Session : state'[s] \in {state[s], "failed"}
  BY DEF FailActiveSessions, State, Terminal
<1>4. /\ monitor' \in Monitors /\ monitor'.pc = "off"
      /\ pending' \subseteq Session \X (1 .. MaxId)
  BY MonitorPlaced DEF FailActiveSessions, TypeInv, Shapes
<1>5. Shapes' /\ Onwards /\ TurnIsBound' /\ \A s \in Session : Works(s)' => Works(s)
  BY <1>1, <1>2, <1>3, <1>4 DEF Shapes, TypeInv, Onwards, TurnIsBound, Works
<1> QED BY <1>1, <1>5, TypeStay

LEMMA LagType ==
    ASSUME TypeInv, Lag
    PROVE  TypeInv'
BY TypeHelpers, TakenType, TypeAside DEF Lag, TypeInv, Shapes, Works, Onwards

LEMMA StepType ==
    ASSUME TypeInv, NEW c \in Caller, Step(c)
    PROVE  TypeInv'
BY EnsureMonitorType, SubscribeType, OpenThreadType, BindType, BeginType, SendType, ReplyType,
   MarkRunningType, ReleaseFailedType, MarkFailedType, DrainType, InterruptType, AnswerType,
   AnsweredType DEF Step

LEMMA StutterType ==
    ASSUME TypeInv, UNCHANGED sessionVars
    PROVE  TypeInv'
BY TypeAside, TypeHelpers DEF sessionVars, vars, TypeInv, Shapes, Works, Onwards

LEMMA TypeInit == Init => TypeInv
<1> SUFFICES ASSUME Init PROVE TypeInv
  OBVIOUS
<1>1. Shapes
  <2>1. binding \in [Session -> Bindings]
    <3>1. \A s : Unbound(s) \in Bindings
      <4>1. \A s : (s \in Stored) \in BOOLEAN
        OBVIOUS
      <4> QED BY <4>1, FreshType DEF Unbound, Bindings
    <3> QED BY <3>1 DEF Init
  <2>2. call \in [Caller -> CallStates]
    <3>1. Idle \in CallStates
      BY MaxIdType DEF Idle, CallStates, Steps
    <3> QED BY <3>1 DEF Init
  <2>3. monitor \in Monitors /\ monitor.pc # "releasing"
    <3>1. <<>> \in Seq(Events)
      OBVIOUS
    <3> QED BY <3>1, MaxIdType DEF Init, Monitors
  <2>4. server \in Servers /\ work \in [Session -> Workings]
    BY MaxIdType DEF Init, Servers, Workings
  <2>5. state \in [Session -> State] /\ pending = {} /\ reconf = FALSE
    BY DEF Init, State
  <2> QED BY <2>1, <2>2, <2>3, <2>4, <2>5 DEF Shapes
<1>2. CallsKnow
  BY DEF Init, CallsKnow, Knows, Idle, TurnSteps
<1>3. TurnIsBound
  BY DEF Init, TurnIsBound, Unbound, Fresh
<1>4. TurnsBounded
  <2>1. \A s \in Session : Senders(s) = {}
    BY DEF Init, Senders, Idle, Asking, TurnSteps
  <2>2. MaxId \in Nat /\ Cardinality({}) = 0
    BY MaxIdType, FS_EmptySet
  <2>3. \A s \in Session : work[s].id = 0 /\ ~Works(s)
    BY DEF Init, Works
  <2> QED BY <2>1, <2>2, <2>3 DEF TurnsBounded
<1> QED BY <1>1, <1>2, <1>3, <1>4 DEF TypeInv

LEMMA TypeStep == TypeInv /\ [Next]_sessionVars => TypeInv'
<1> SUFFICES ASSUME TypeInv, [Next]_sessionVars PROVE TypeInv'
  OBVIOUS
<1>1. CASE UNCHANGED sessionVars
  BY <1>1, StutterType
<1>2. CASE \E c \in Caller : \/ Step(c) \/ BeginRespond(c)
                             \/ \E s \in Session : BeginTask(c, s) \/ BeginTurn(c, s) \/ BeginCancel(c, s)
  BY <1>2, StepType, BeginRespondType, BeginTaskType, BeginTurnType, BeginCancelType
<1>3. CASE \E s \in Session : Provider(s) \/ Ask(s)
  BY <1>3, ProviderType
<1>4. CASE Monitor \/ Lag
  BY <1>4, HandleType, ReleaseTurnType, FailActiveSessionsType, LagType DEF Monitor
<1>5. CASE Crash \/ Poll \/ Start \/ CheckReconfigure \/ Shutdown
  BY <1>5, ProcessType
<1> QED BY <1>1, <1>2, <1>3, <1>4, <1>5 DEF Next, Move

\* Every session keeps a state of the source, every turn number stays within the
\* bound, and a binding that names a turn is bound (session/coordinator.rs,
\* CodexBinding and TaskSessionState).
THEOREM SessionTypeCorrect == Spec => []TypeOK
<1> DEFINE AstrayType == astray \subseteq {"guard", "order", "event"}
<1>1. TypeInv /\ AstrayType => TypeOK
  <2> SUFFICES ASSUME TypeInv, AstrayType PROVE TypeOK
    OBVIOUS
  <2>1. /\ monitor.pc \in {"off", "subscribing", "listening", "releasing"}
        /\ monitor.gen \in 0 .. MaxGen /\ monitor.queue \in Seq(Events)
    BY TypeHelpers DEF Monitors
  <2>2. \A i \in DOMAIN monitor.queue : monitor.queue[i].s \in Session
    <3>1. \A i \in DOMAIN monitor.queue : monitor.queue[i] \in Events
      BY <2>1
    <3> QED BY <3>1 DEF Events
  <2>3. server.gen \in 0 .. MaxGen /\ server.loaded \subseteq Session
    BY TypeHelpers DEF Servers
  <2>4. \A s \in Session : work[s].id \in 0 .. MaxId /\ work[s].kind \in {"none", "turn", "compact"}
    BY TypeHelpers DEF Workings
  <2>5. \A s \in Session : binding[s].turn # 0 => binding[s].bound
    BY DEF TypeInv, TurnIsBound
  <2>6. state \in [Session -> State] /\ pending \subseteq Session \X (1 .. MaxId)
        /\ binding \in [Session -> Bindings]
    BY DEF TypeInv, Shapes
  <2> QED BY <2>1, <2>2, <2>3, <2>4, <2>5, <2>6 DEF TypeOK, Bindings
<1>2. Init => AstrayType
  BY DEF Init
<1>3. AstrayType /\ [Next]_sessionVars => AstrayType'
  BY DEF Next, Strayed, sessionVars
<1> QED BY <1>1, <1>2, <1>3, TypeInit, TypeStep, PTL DEF Spec

-----------------------------------------------------------------------------
(* The guard covers the turn                                               *)

\* The process the sessions are bound to has ended.  Nothing runs in a thread, and
\* a new process is started only astray.
Ended == server.gen > 0 /\ ~server.alive
WorksAlive == \A s \in Session : Works(s) => server.alive

Listening == monitor.pc \in {"listening", "releasing"}
Queued(i) == monitor.queue[i]
Places == DOMAIN monitor.queue
Releasing(s) == monitor.pc = "releasing" /\ monitor.s = s
NoEvents(s) == \A i \in Places : Queued(i).s # s

\* The events that end a session's work.
Ends(e) == \/ e.type \in {"completed", "turn_failed", "interrupted"}
           \/ e.type = "compacted" /\ binding[e.s].manual

\* The first process: the monitor listens to it and every reply comes from it.
ProcessStays == /\ server.alive <=> server.gen > 0
                /\ server.held <=> server.alive
                /\ Listening => server.alive /\ monitor.gen = server.gen
                /\ \A c \in Caller : call[c].pc = "reply" =>
                        server.alive /\ call[c].gen = server.gen

GuardMeans == \A s \in Session : /\ binding[s].guard => binding[s].bound
                                 /\ binding[s].manual => binding[s].guard

TurnsGuarded == \A s \in Session :
    Works(s) => binding[s].guard /\ (binding[s].manual <=> work[s].kind = "compact")

\* The call that took the guard of a session, until its turn is accepted or the
\* guard is given back.
Holder(c) == call[c].pc = "send" \/ (call[c].pc = "release" /\ call[c].op # "cancel")

\* A call asks for a turn, or gives it up, while the session is at rest.
InTurn(c) ==
    /\ call[c].pc = "subscribe" => monitor.pc = "subscribing"
    /\ Holder(c) => /\ binding[call[c].s].guard
                    /\ ~Works(call[c].s) /\ NoEvents(call[c].s) /\ ~Releasing(call[c].s)
    /\ call[c].pc = "send" => (binding[call[c].s].manual <=> call[c].op = "compact")
\* No two calls subscribe at once, nor hold the same guard.
Apart(c, d) == /\ call[c].pc = "subscribe" => call[d].pc # "subscribe"
               /\ Holder(c) /\ Holder(d) => call[c].s # call[d].s
CallsInTurn == \A c \in Caller : InTurn(c) /\ \A d \in Caller \ {c} : Apart(c, d)

\* The guard outlives every event of its turn, and the last one ends the work.
EventsGuarded == \A i \in Places :
    /\ binding[Queued(i).s].guard
    /\ Ends(Queued(i)) => /\ ~Works(Queued(i).s)
                          /\ \A j \in Places : j > i => Queued(j).s # Queued(i).s

ReleaseIsDue == monitor.pc = "releasing" =>
    binding[monitor.s].guard /\ ~Works(monitor.s) /\ NoEvents(monitor.s)

CoverInv == /\ ProcessStays /\ GuardMeans /\ TurnsGuarded /\ CallsInTurn
            /\ EventsGuarded /\ ReleaseIsDue

\* What an emitted event does to the queue: nothing, or it is the last one.
Appended(e) == /\ Places \subseteq Places'
               /\ \A i \in Places : Queued(i)' = Queued(i)
               /\ \A i \in Places' \ Places :
                     Queued(i)' = e /\ (\A j \in Places : j < i) /\ (\A j \in Places' : j <= i)

LEMMA EmitAppends ==
    ASSUME TypeInv, NEW type \in Types, NEW s \in Session, NEW turn \in 1 .. MaxId,
           Emit(Event(type, s, turn))
    PROVE  /\ Appended(Event(type, s, turn))
           /\ monitor'.pc = monitor.pc /\ monitor'.gen = monitor.gen /\ monitor'.s = monitor.s
           /\ Listening /\ monitor.gen = server'.gen =>
                \E i \in Places' : i \notin Places
<1> DEFINE e == Event(type, s, turn)  q == monitor.queue
<1>1. q \in Seq(Events) /\ e \in Events /\ monitor \in Monitors
  BY TypeHelpers, EventType DEF Monitors
<1>2. monitor' = Heard(monitor, server'.gen, e)
  BY DEF Emit
<1> HIDE DEF e
<1>3. /\ monitor'.pc = monitor.pc /\ monitor'.gen = monitor.gen /\ monitor'.s = monitor.s
      /\ monitor'.queue \in {q, Append(q, e)}
      /\ Listening /\ monitor.gen = server'.gen => monitor'.queue = Append(q, e)
  BY <1>1, <1>2 DEF Heard, Monitors, Listening
<1>4. Places = 1 .. Len(q) /\ Len(q) \in Nat
  BY <1>1 DEF Places
<1>5. CASE monitor'.queue = q
  BY <1>3, <1>4, <1>5 DEF Appended, Places, Queued, e
<1>6. CASE monitor'.queue = Append(q, e)
  <2>1. /\ Places' = 1 .. Len(q) + 1
        /\ \A i \in 1 .. Len(q) : Append(q, e)[i] = q[i]
        /\ Append(q, e)[Len(q) + 1] = e
    BY <1>1, <1>4, <1>6 DEF Places
  <2>2. Appended(e)
    BY <1>4, <1>6, <2>1 DEF Appended, Queued
  <2>3. Len(q) + 1 \in Places' /\ Len(q) + 1 \notin Places
    BY <1>4, <2>1
  <2> QED BY <1>3, <2>2, <2>3 DEF e
<1> QED BY <1>3, <1>5, <1>6

LEMMA TakenMoves ==
    ASSUME TypeInv, monitor.queue # <<>>, monitor'.queue = Tail(monitor.queue)
    PROVE  /\ 1 \in Places /\ Head(monitor.queue) = Queued(1) /\ Places \subseteq Nat \ {0}
           /\ \A i \in Places' : i \in Nat /\ i + 1 \in Places /\ Queued(i)' = Queued(i + 1)
           /\ \A i \in Places \ {1} : i - 1 \in Places'
<1>1. monitor.queue \in Seq(Events)
  BY TypeHelpers DEF Monitors
<1>2. Places = 1 .. Len(monitor.queue) /\ Len(monitor.queue) \in Nat \ {0}
  BY <1>1 DEF Places
<1>3. Places' = 1 .. Len(monitor.queue) - 1
  BY <1>1 DEF Places
<1>4. \A i \in 1 .. Len(monitor.queue) - 1 : Tail(monitor.queue)[i] = monitor.queue[i + 1]
  BY <1>1
<1> QED BY <1>1, <1>2, <1>3, <1>4 DEF Queued

LEMMA PlacesType ==
    ASSUME TypeInv
    PROVE  Places \subseteq Nat /\ \A i \in Places : Queued(i) \in Events /\ Queued(i).s \in Session
                                                     /\ Queued(i).turn \in 1 .. MaxId
<1>1. monitor.queue \in Seq(Events)
  BY TypeHelpers DEF Monitors
<1>2. Places \subseteq Nat /\ \A i \in Places : Queued(i) \in Events
  BY <1>1 DEF Places, Queued
<1> QED BY <1>2 DEF Events

LEMMA PlacesTypeNext ==
    ASSUME TypeInv'
    PROVE  Places' \subseteq Nat
<1>1. monitor'.queue \in Seq(Events)
  BY DEF TypeInv, Shapes, Monitors
<1> QED BY <1>1 DEF Places

\* A process that runs goes on; one that starts is held.
LEMMA ProcessGoesOn ==
    ASSUME ProcessStays, server'.held <=> server'.alive, server'.alive <=> server'.gen > 0,
           server.alive => server'.alive /\ server'.gen = server.gen,
           Listening' => Listening /\ monitor'.gen = monitor.gen,
           \A c \in Caller : call'[c].pc = "reply" => call[c].pc = "reply" /\ call'[c].gen = call[c].gen
    PROVE  ProcessStays'
BY DEF ProcessStays

\* A step that leaves the guards, the work and the queue alone.
LEMMA CoverPlain ==
    ASSUME CoverInv, NEW c \in Caller, \A d \in Caller \ {c} : call'[d] = call[d],
           \A s \in Session : /\ binding'[s].guard <=> binding[s].guard
                              /\ binding'[s].manual <=> binding[s].manual
                              /\ binding[s].bound => binding'[s].bound
                              /\ work'[s].kind = work[s].kind,
           TypeInv, TypeInv',
           monitor'.queue = monitor.queue, monitor'.s = monitor.s,
           monitor'.pc = "releasing" <=> monitor.pc = "releasing",
           \/ monitor'.pc = monitor.pc
           \/ monitor.pc = "off" /\ monitor'.pc = "subscribing"
           \/ \A d \in Caller \ {c} : call[d].pc # "subscribe",
           ProcessStays',
           call'[c].pc = "subscribe" => monitor.pc = "off" /\ monitor'.pc = "subscribing",
           Holder(c)' => /\ call[c].pc = "send" /\ call'[c].s = call[c].s
                         /\ call'[c].op = call[c].op
    PROVE  CoverInv'
<1>0. \A d \in Caller : /\ call[d].pc # "idle" => call[d].s \in Session
                        /\ call'[d].pc # "idle" => call'[d].s \in Session
  BY DEF TypeInv, CallsKnow, Knows
<1>1. Places' = Places /\ \A i \in Places : Queued(i)' = Queued(i) /\ Queued(i).s \in Session
  BY PlacesType DEF Places, Queued
<1>2. \A s \in Session : /\ Works(s)' <=> Works(s)
                         /\ NoEvents(s)' <=> NoEvents(s)
                         /\ Releasing(s)' <=> Releasing(s)
  BY <1>1 DEF Works, NoEvents, Releasing
<1>4. GuardMeans' /\ TurnsGuarded'
  BY <1>2 DEF CoverInv, GuardMeans, TurnsGuarded
<1>5. CallsInTurn'
  <2>0. InTurn(c) /\ \A d \in Caller : InTurn(d)
    BY DEF CoverInv, CallsInTurn
  <2>1. InTurn(c)'
    BY <1>0, <1>2, <2>0 DEF InTurn, Holder
  <2>2. ASSUME NEW d \in Caller \ {c} PROVE InTurn(d)'
    <3>1. InTurn(d)
      BY <2>0
    <3> QED BY <1>0, <1>2, <3>1 DEF InTurn, Holder
  <2>3. ASSUME NEW d \in Caller \ {c} PROVE Apart(c, d)' /\ Apart(d, c)'
    <3>1. Apart(c, d) /\ Apart(d, c) /\ InTurn(d)
      BY <2>0 DEF CoverInv, CallsInTurn
    <3> QED BY <3>1 DEF Apart, Holder, InTurn
  <2>4. ASSUME NEW d \in Caller \ {c}, NEW b \in Caller \ {c, d} PROVE Apart(d, b)'
    <3>1. Apart(d, b)
      BY DEF CoverInv, CallsInTurn
    <3> QED BY <3>1 DEF Apart, Holder
  <2> QED BY <2>1, <2>2, <2>3, <2>4 DEF CallsInTurn
<1>6. EventsGuarded'
  BY <1>1, <1>2 DEF CoverInv, EventsGuarded, Ends
<1>7. ReleaseIsDue'
  BY <1>2 DEF CoverInv, ReleaseIsDue, TypeInv, Shapes
<1> QED BY <1>4, <1>5, <1>6, <1>7 DEF CoverInv

LEMMA ServedGoesOn ==
    ASSUME TypeInv, ProcessStays
    PROVE  /\ Served.held <=> Served.alive
           /\ Served.alive /\ Served.gen > 0
           /\ server.alive => Served.gen = server.gen
<1>1. CASE server.alive
  BY <1>1 DEF Served, ProcessStays
<1>2. CASE ~server.alive
  <2>1. server.gen \in Nat
    BY TypeHelpers, MaxIdType DEF Servers
  <2>2. Served.gen = server.gen + 1 /\ Served.held = TRUE /\ Served.alive = TRUE
    BY <1>2 DEF Served
  <2> QED BY <1>2, <2>1, <2>2
<1> QED BY <1>1, <1>2

\* The process after a request: the same one, or one that was started for it.
Serves == /\ server'.held <=> server'.alive
          /\ server'.alive <=> server'.gen > 0
          /\ server.alive => server'.alive /\ server'.gen = server.gen

LEMMA ServesServed ==
    ASSUME TypeInv, ProcessStays, UNCHANGED server \/ server' = Served \/ Attempted
    PROVE  Serves
BY ServedGoesOn DEF Serves, ProcessStays, Attempted

LEMMA ServesLoaded ==
    ASSUME TypeInv, ProcessStays, CanServe, NEW s, server' = [Served EXCEPT !.loaded = @ \cup {s}]
    PROVE  Serves
<1>1. Served \in Servers
  BY ServedType, TypeHelpers
<1>2. server'.held = Served.held /\ server'.alive = Served.alive /\ server'.gen = Served.gen
  BY <1>1 DEF Servers
<1> QED BY <1>2, ServedGoesOn DEF Serves

\* A call that goes on in the same session, or returns.
Onto(c, pc) == call'[c].pc = pc /\ call'[c].op = call[c].op /\ call'[c].s = call[c].s

LEMMA GotoOnto ==
    ASSUME TypeInv, NEW c \in Caller, NEW pc \in Steps, Goto(c, pc)
    PROVE  /\ Onto(c, pc) /\ call'[c].gen = call[c].gen
           /\ \A d \in Caller \ {c} : call'[d] = call[d]
BY GotoMoves, TypeHelpers DEF Onto

LEMMA StepNames ==
    /\ TurnSteps \subseteq Steps
    /\ {"idle", "release", "failed", "drain", "interrupt", "answer", "answered"} \subseteq Steps
    /\ {"monitor", "subscribe", "thread", "bind", "begin", "send", "reply", "running"} \subseteq Steps
BY DEF Steps, TurnSteps

LEMMA EnsureMonitorCover ==
    ASSUME TypeInv, TypeInv', CoverInv, NEW c \in Caller, EnsureMonitor(c)
    PROVE  CoverInv'
<1>1. /\ call[c].pc = "monitor" /\ UNCHANGED <<state, binding, pending, server, work, reconf>>
      /\ monitor \in Monitors
  BY TypeHelpers DEF EnsureMonitor
<1>2. /\ monitor'.queue = monitor.queue /\ monitor'.s = monitor.s /\ monitor'.gen = monitor.gen
      /\ monitor'.pc = monitor.pc \/ (monitor.pc = "off" /\ monitor'.pc = "subscribing")
      /\ call'[c].pc = "subscribe" => monitor.pc = "off" /\ monitor'.pc = "subscribing"
  <2>0. call'[c].pc = "subscribe" => monitor.pc = "off"
    BY ReturnMoves, GotoOnto, StepNames, TypeHelpers DEF EnsureMonitor, Onto
  <2>1. CASE monitor.pc = "off"
    BY <1>1, <2>0, <2>1 DEF EnsureMonitor, Listening, Monitors
  <2>2. CASE monitor.pc # "off"
    BY <2>0, <2>2 DEF EnsureMonitor
  <2> QED BY <2>1, <2>2
<1>3. /\ \A d \in Caller \ {c} : call'[d] = call[d]
      /\ call'[c].pc = "idle" \/ Onto(c, "subscribe") \/ Onto(c, "begin") \/ Onto(c, "thread")
  <2>1. CASE Return(c)
    BY <2>1, ReturnMoves, TypeHelpers
  <2>2. CASE Goto(c, "subscribe")
    BY <2>2, GotoOnto, StepNames
  <2>3. CASE Goto(c, "begin")
    BY <2>3, GotoOnto, StepNames
  <2>4. CASE Goto(c, "thread")
    BY <2>4, GotoOnto, StepNames
  <2> QED BY <2>1, <2>2, <2>3, <2>4 DEF EnsureMonitor
<1>4. ProcessStays'
  BY <1>1, <1>2, <1>3, ProcessGoesOn DEF CoverInv, ProcessStays, Listening, Onto
<1>5. ~Holder(c)'
  BY <1>3 DEF Holder, Onto
<1> QED BY <1>1, <1>2, <1>3, <1>4, <1>5, CoverPlain DEF Onto, Listening

LEMMA OpenThreadCover ==
    ASSUME TypeInv, TypeInv', CoverInv, NEW c \in Caller, OpenThread(c)
    PROVE  CoverInv'
<1>1. /\ call[c].pc = "thread" /\ UNCHANGED <<pending, monitor, work, reconf>>
      /\ call[c].s \in Session
  BY DEF OpenThread, TypeInv, CallsKnow, Knows
<1>2. /\ \A d \in Caller \ {c} : call'[d] = call[d]
      /\ call'[c].pc = "idle" \/ Onto(c, "bind")
  <2>1. CASE GiveUp(c)
    BY <2>1, ReturnMoves, TypeHelpers DEF GiveUp
  <2>2. CASE Goto(c, "bind")
    BY <2>2, GotoOnto, StepNames
  <2> QED BY <2>1, <2>2 DEF OpenThread
<1>3. Serves
  BY ServesServed, ServesLoaded DEF OpenThread, CoverInv
<1>4. ProcessStays'
  BY <1>1, <1>2, <1>3, ProcessGoesOn DEF CoverInv, ProcessStays, Listening, Onto, Serves
<1>5. \A s \in Session : /\ binding'[s].guard = binding[s].guard
                         /\ binding'[s].manual = binding[s].manual
                         /\ binding'[s].bound = binding[s].bound
  <2>1. CASE binding' = [binding EXCEPT ![call[c].s].thread = TRUE]
    BY <1>1, <2>1, TypeHelpers DEF Bindings
  <2> QED BY <2>1 DEF OpenThread
<1>6. ~Holder(c)'
  BY <1>2 DEF Holder, Onto
<1> QED BY <1>1, <1>2, <1>4, <1>5, <1>6, CoverPlain DEF Onto

LEMMA ReplyCover ==
    ASSUME TypeInv, TypeInv', CoverInv, ~LosesGuard, NEW c \in Caller, Reply(c)
    PROVE  /\ CoverInv'
           /\ \/ call[c].op = "compact" /\ Return(c) /\ UNCHANGED binding
              \/ /\ call[c].op # "compact" /\ Goto(c, "running")
                 /\ binding' = [binding EXCEPT ![call[c].s].turn = call[c].turn]
<1>1. /\ call[c].pc = "reply" /\ UNCHANGED <<state, pending, monitor, server, work, reconf>>
      /\ call[c].s \in Session
  BY DEF Reply, TypeInv, CallsKnow, Knows, TurnSteps
<1>2. \/ call[c].op = "compact" /\ Return(c) /\ UNCHANGED binding
      \/ /\ call[c].op # "compact" /\ Goto(c, "running")
         /\ binding' = [binding EXCEPT ![call[c].s].turn = call[c].turn]
  <2>1. server.alive /\ call[c].gen = server.gen
    BY <1>1 DEF CoverInv, ProcessStays
  <2>2. ~Goto(c, "release")
    <3>1. SUFFICES ASSUME Goto(c, "release") PROVE FALSE
      OBVIOUS
    <3>2. call'[c].pc = "release"
      BY <3>1, GotoOnto, StepNames DEF Onto
    <3> QED BY <1>1, <2>1, <3>2 DEF LosesGuard
  <2> QED BY <2>2 DEF Reply
<1>3. \A s \in Session : /\ binding'[s].guard = binding[s].guard
                         /\ binding'[s].manual = binding[s].manual
                         /\ binding'[s].bound = binding[s].bound
  BY <1>1, <1>2, TypeHelpers DEF Bindings
<1>4. /\ \A d \in Caller \ {c} : call'[d] = call[d]
      /\ call'[c].pc = "idle" \/ Onto(c, "running")
  BY <1>2, ReturnMoves, GotoOnto, StepNames, TypeHelpers
<1>5. ProcessStays'
  BY <1>1, <1>4, ProcessGoesOn DEF CoverInv, ProcessStays, Listening, Onto
<1>6. ~Holder(c)'
  BY <1>4 DEF Holder, Onto
<1> QED BY <1>1, <1>2, <1>3, <1>4, <1>5, <1>6, CoverPlain DEF Onto

\* The steps that only move the call: a mark in the store, an answer recorded.
LEMMA MarkCover ==
    ASSUME TypeInv, TypeInv', CoverInv, NEW c \in Caller,
           MarkRunning(c) \/ MarkFailed(c) \/ Answered(c) \/ Drain(c)
    PROVE  CoverInv'
<1>1. /\ call[c].pc # "idle"
      /\ UNCHANGED <<binding, monitor, server, work, reconf>>
  BY DEF MarkRunning, MarkFailed, Answered, Drain
<1>2. \/ Return(c) \/ Goto(c, "interrupt")
      \/ call[c].op = "cancel" /\ Goto(c, "release")
  BY DEF MarkRunning, MarkFailed, Answered, Drain
<1>3. /\ \A d \in Caller \ {c} : call'[d] = call[d]
      /\ \/ call'[c].pc = "idle" \/ Onto(c, "interrupt")
         \/ call[c].op = "cancel" /\ Onto(c, "release")
  BY <1>2, ReturnMoves, GotoOnto, StepNames, TypeHelpers
<1>4. ~Holder(c)'
  BY <1>3 DEF Holder, Onto
<1>5. ProcessStays'
  BY <1>1, <1>3, ProcessGoesOn DEF CoverInv, ProcessStays, Listening, Onto
<1> QED BY <1>1, <1>3, <1>4, <1>5, CoverPlain DEF Onto

LEMMA CoverSame ==
    ASSUME CoverInv, UNCHANGED <<binding, call, monitor, work>>,
           server' = server \/ ProcessStays'
    PROVE  CoverInv'
<1>1. ProcessStays' /\ GuardMeans' /\ TurnsGuarded'
  BY DEF CoverInv, ProcessStays, Listening, GuardMeans, TurnsGuarded, Works
<1>2. CallsInTurn'
  BY DEF CoverInv, CallsInTurn, InTurn, Apart, Holder, Works, NoEvents, Releasing, Places, Queued
<1>3. EventsGuarded' /\ ReleaseIsDue'
  BY DEF CoverInv, EventsGuarded, Ends, Works, ReleaseIsDue, NoEvents, Places, Queued
<1> QED BY <1>1, <1>2, <1>3 DEF CoverInv

\* A call that starts.
LEMMA CallStarts ==
    ASSUME TypeInv, NEW c \in Caller,
           \/ BeginRespond(c)
           \/ \E s \in Session : BeginTask(c, s) \/ BeginTurn(c, s) \/ BeginCancel(c, s)
    PROVE  \/ UNCHANGED call
           \/ /\ \A d \in Caller \ {c} : call'[d] = call[d]
              /\ call[c].pc = "idle" /\ call'[c].pc \in {"monitor", "drain", "answer"}
<1> USE TypeHelpers
<1> DEFINE Moves == /\ \A d \in Caller \ {c} : call'[d] = call[d]
                    /\ call[c].pc = "idle" /\ call'[c].pc \in {"monitor", "drain", "answer"}
<1>1. ASSUME NEW k, call' = [call EXCEPT ![c] = k], call[c].pc = "idle",
             k.pc \in {"monitor", "drain", "answer"}
      PROVE  Moves
  BY <1>1, CallMoves
<1> HIDE DEF Moves
<1>2. CASE BeginRespond(c)
  <2>1. PICK r \in pending : call' = [call EXCEPT ![c] = [Idle EXCEPT !.pc = "answer",
                                         !.op = "respond", !.s = r[1], !.turn = r[2]]]
    BY <1>2 DEF BeginRespond
  <2> DEFINE k == [Idle EXCEPT !.pc = "answer", !.op = "respond", !.s = r[1], !.turn = r[2]]
  <2>2. call' = [call EXCEPT ![c] = k] /\ k.pc = "answer"
    BY <2>1 DEF Idle
  <2> HIDE DEF k
  <2>3. Moves
    BY <1>1, <1>2, <2>2 DEF BeginRespond
  <2> QED BY <2>3 DEF Moves
<1>3. ASSUME NEW s \in Session, BeginCancel(c, s) PROVE Moves
  <2> DEFINE k == [Idle EXCEPT !.pc = "drain", !.op = "cancel", !.s = s, !.turn = binding[s].turn]
  <2>1. call' = [call EXCEPT ![c] = k] /\ k.pc = "drain"
    BY <1>3 DEF BeginCancel, Idle
  <2> HIDE DEF k
  <2> QED BY <1>1, <1>3, <2>1 DEF BeginCancel
<1>4. ASSUME NEW s \in Session, NEW op \in {"task", "input", "compact"}, Calls(c, op, s, "monitor")
      PROVE  Moves
  <2> DEFINE k == [Idle EXCEPT !.pc = "monitor", !.op = op, !.s = s]
  <2>1. call' = [call EXCEPT ![c] = k] /\ k.pc = "monitor"
    BY <1>4 DEF Calls, Idle
  <2> HIDE DEF k
  <2> QED BY <1>1, <1>4, <2>1 DEF Calls
<1>5. ASSUME NEW s \in Session, BeginTask(c, s) \/ BeginTurn(c, s) PROVE UNCHANGED call \/ Moves
  BY <1>4, <1>5 DEF BeginTask, BeginTurn
<1> QED BY <1>2, <1>3, <1>5 DEF Moves

LEMMA BeginCover ==
    ASSUME TypeInv, TypeInv', CoverInv, NEW c \in Caller,
           \/ BeginRespond(c)
           \/ \E s \in Session : BeginTask(c, s) \/ BeginTurn(c, s) \/ BeginCancel(c, s)
    PROVE  CoverInv'
<1>2. UNCHANGED <<binding, pending, monitor, server, work, reconf>>
  BY DEF BeginRespond, BeginTask, BeginTurn, BeginCancel
<1>3. \/ UNCHANGED call
      \/ /\ \A d \in Caller \ {c} : call'[d] = call[d]
         /\ call'[c].pc \in {"monitor", "drain", "answer"}
  BY CallStarts
<1>4. ProcessStays'
  BY <1>2, <1>3, ProcessGoesOn DEF CoverInv, ProcessStays, Listening
<1>5. CASE UNCHANGED call
  BY <1>2, <1>5, CoverSame
<1>6. CASE /\ \A d \in Caller \ {c} : call'[d] = call[d]
           /\ call'[c].pc \in {"monitor", "drain", "answer"}
  <2>1. call'[c].pc # "subscribe" /\ ~Holder(c)'
    BY <1>6 DEF Holder
  <2> QED BY <1>2, <1>4, <1>6, <2>1, CoverPlain
<1> QED BY <1>3, <1>5, <1>6

LEMMA SubscribeCover ==
    ASSUME TypeInv, TypeInv', CoverInv, NEW c \in Caller, Subscribe(c)
    PROVE  CoverInv'
<1> USE TypeHelpers
<1>1. /\ call[c].pc = "subscribe" /\ UNCHANGED <<binding, pending, work, reconf>>
      /\ monitor.pc = "subscribing"
      /\ \A d \in Caller \ {c} : call[d].pc # "subscribe"
  BY DEF Subscribe, CoverInv, CallsInTurn, InTurn, Apart
<1>2. /\ \A d \in Caller \ {c} : call'[d] = call[d]
      /\ call'[c].pc = "idle" \/ Onto(c, "begin") \/ Onto(c, "thread")
  <2>1. CASE GiveUp(c) \/ Return(c)
    BY <2>1, ReturnMoves DEF GiveUp
  <2>2. CASE Goto(c, "begin")
    BY <2>2, GotoOnto, StepNames
  <2>3. CASE Goto(c, "thread")
    BY <2>3, GotoOnto, StepNames
  <2> QED BY <2>1, <2>2, <2>3 DEF Subscribe
<1>5. ~Holder(c)'
  BY <1>2 DEF Holder, Onto
<1>3. CASE monitor' = [monitor EXCEPT !.pc = "off"] /\ UNCHANGED server
  <2>1. /\ monitor'.queue = monitor.queue /\ monitor'.s = monitor.s /\ monitor'.pc = "off"
    BY <1>3 DEF Monitors
  <2>2. ProcessStays'
    BY <1>1, <1>2, <1>3, <2>1, ProcessGoesOn DEF CoverInv, ProcessStays, Listening, Onto
  <2> QED BY <1>1, <1>2, <1>5, <2>1, <2>2, CoverPlain DEF Onto
<1>4. CASE /\ CanServe /\ server' = Served
           /\ monitor' = [monitor EXCEPT !.pc = "listening", !.gen = server'.gen, !.queue = <<>>]
  <2>1. Serves /\ server'.alive /\ server'.gen \in 0 .. MaxGen
    BY <1>4, ServesServed, ServedType, ServedGoesOn DEF CoverInv, Servers
  <2>2. /\ monitor'.pc = "listening" /\ monitor'.gen = server'.gen /\ monitor'.queue = <<>>
    BY <1>4, <2>1, MonitorSubscribed
  <2>3. ProcessStays'
    BY <1>1, <1>2, <2>1, <2>2 DEF CoverInv, ProcessStays, Serves, Onto
  <2>4. Places' = {}
    BY <2>2 DEF Places
  <2>6. GuardMeans' /\ TurnsGuarded'
    BY <1>1 DEF CoverInv, GuardMeans, TurnsGuarded, Works
  <2>7. CallsInTurn'
    <3>1. InTurn(c)'
      BY <1>2, <1>5 DEF InTurn, Onto
    <3>2. ASSUME NEW d \in Caller \ {c} PROVE InTurn(d)' /\ Apart(c, d)' /\ Apart(d, c)'
      <4>1. InTurn(d) /\ call[d].pc # "subscribe" /\ call'[d] = call[d]
        BY <1>1, <1>2 DEF CoverInv, CallsInTurn
      <4>2. InTurn(d)'
        BY <1>1, <2>2, <2>4, <4>1 DEF InTurn, Holder, Works, NoEvents, Releasing
      <4> QED BY <1>2, <1>5, <4>1, <4>2 DEF Apart, Onto
    <3>3. ASSUME NEW d \in Caller \ {c}, NEW b \in Caller \ {c, d} PROVE Apart(d, b)'
      BY <1>2 DEF CoverInv, CallsInTurn, Apart, Holder
    <3> QED BY <3>1, <3>2, <3>3 DEF CallsInTurn
  <2>8. EventsGuarded' /\ ReleaseIsDue'
    BY <2>2, <2>4 DEF EventsGuarded, ReleaseIsDue
  <2> QED BY <2>3, <2>6, <2>7, <2>8 DEF CoverInv
<1> QED BY <1>3, <1>4 DEF Subscribe

LEMMA BindCover ==
    ASSUME TypeInv, TypeInv', CoverInv, ~LosesGuard, NEW c \in Caller, Bind(c)
    PROVE  CoverInv'
<1> USE TypeHelpers
<1> DEFINE s0 == call[c].s
<1>1. /\ call[c].pc = "bind" /\ UNCHANGED <<pending, monitor, server, work, reconf>>
      /\ s0 \in Session /\ call[c].op \in TurnOps
  BY DEF Bind, TypeInv, CallsKnow, Knows, TurnSteps
<1>2. /\ \A d \in Caller \ {c} : call'[d] = call[d]
      /\ call'[c].pc \in {"idle", "begin", "monitor"}
  <2>1. CASE Return(c)
    BY <2>1, ReturnMoves
  <2>2. CASE \/ Goto(c, "begin")
             \/ call' = [call EXCEPT ![c].pc = "monitor", ![c].op = "input"]
    BY <1>1, <2>2, BindCall
  <2> QED BY <2>1, <2>2 DEF Bind
<1>3. ~binding[s0].guard /\ ~binding[s0].manual
  <2>1. ~Busy(binding[s0])
    BY <1>1, <1>2 DEF LosesGuard
  <2> QED BY <1>1, <2>1 DEF CoverInv, GuardMeans, Busy
<1>4. /\ binding'[s0].bound /\ ~binding'[s0].guard /\ ~binding'[s0].manual
      /\ \A s \in Session \ {s0} : binding'[s] = binding[s]
  BY <1>1, FreshType DEF Bind
<1>5. ProcessStays'
  BY <1>1, <1>2, ProcessGoesOn DEF CoverInv, ProcessStays, Listening
<1>6. ~Holder(c)' /\ call'[c].pc # "subscribe"
  BY <1>2 DEF Holder
<1> QED BY <1>1, <1>2, <1>3, <1>4, <1>5, <1>6, CoverPlain

LEMMA BeginTurnCover ==
    ASSUME TypeInv, TypeInv', CoverInv, NEW c \in Caller, Begin(c)
    PROVE  CoverInv'
<1> USE TypeHelpers
<1> DEFINE s0 == call[c].s
<1>1. /\ call[c].pc = "begin" /\ UNCHANGED <<pending, monitor, server, work, reconf>>
      /\ s0 \in Session /\ binding[s0].bound
  BY DEF Begin, TypeInv, CallsKnow, Knows, TurnSteps
<1>2. CASE Return(c) /\ UNCHANGED <<state, binding>>
  <2>1. \A d \in Caller \ {c} : call'[d] = call[d]
    BY <1>2, ReturnMoves
  <2>2. call'[c].pc = "idle" /\ ~Holder(c)'
    BY <1>2, ReturnMoves DEF Holder
  <2>3. ProcessStays'
    BY <1>1, <2>1, <2>2, ProcessGoesOn DEF CoverInv, ProcessStays, Listening
  <2> QED BY <1>1, <1>2, <2>1, <2>2, <2>3, CoverPlain
<1>3. CASE TakeTurn(c)
  <2>1. /\ ~binding[s0].guard /\ binding'[s0].guard /\ binding'[s0].bound
        /\ \A s \in Session \ {s0} : binding'[s] = binding[s]
        /\ binding'[s0].manual = (binding[s0].manual \/ call[c].op = "compact")
        /\ Onto(c, "send")
        /\ \A d \in Caller \ {c} : call'[d] = call[d]
    BY <1>1, <1>3, TakeTurnMoves DEF Onto
  <2>2. /\ ~binding[s0].manual /\ ~Works(s0) /\ NoEvents(s0) /\ ~Releasing(s0)
        /\ \A d \in Caller : Holder(d) => call[d].s # s0
    BY <1>1, <2>1 DEF CoverInv, GuardMeans, TurnsGuarded, EventsGuarded, ReleaseIsDue, NoEvents,
                      Releasing, CallsInTurn, InTurn
  <2>3. ProcessStays'
    BY <1>1, <2>1, ProcessGoesOn DEF CoverInv, ProcessStays, Listening, Onto
  <2>5. GuardMeans' /\ TurnsGuarded'
    BY <1>1, <2>1, <2>2 DEF CoverInv, GuardMeans, TurnsGuarded, Works
  <2>6. CallsInTurn'
    <3>1. InTurn(c)'
      BY <1>1, <2>1, <2>2 DEF InTurn, Holder, Onto, Works, NoEvents, Releasing, Places, Queued
    <3>2. ASSUME NEW d \in Caller \ {c} PROVE InTurn(d)' /\ Apart(c, d)' /\ Apart(d, c)'
      <4>1. InTurn(d) /\ Apart(c, d) /\ Apart(d, c) /\ call'[d] = call[d]
            /\ (Holder(d) => call[d].s \in Session \ {s0})
        BY <2>1, <2>2 DEF CoverInv, CallsInTurn, TypeInv, CallsKnow, Knows, Holder
      <4>2. InTurn(d)'
        <5>1. call[d].pc = "send" => Holder(d)
          BY DEF Holder
        <5>2. /\ Holder(d)' <=> Holder(d)
              /\ Works(call[d].s)' <=> Works(call[d].s)
              /\ NoEvents(call[d].s)' <=> NoEvents(call[d].s)
              /\ Releasing(call[d].s)' <=> Releasing(call[d].s)
          BY <1>1, <4>1 DEF Holder, Works, NoEvents, Releasing, Places, Queued
        <5> QED BY <1>1, <2>1, <4>1, <5>1, <5>2 DEF InTurn, Works, NoEvents, Releasing, Places, Queued
      <4> QED BY <1>1, <2>1, <4>1, <4>2 DEF Apart, Holder, Onto
    <3>3. ASSUME NEW d \in Caller \ {c}, NEW b \in Caller \ {c, d} PROVE Apart(d, b)'
      BY <2>1 DEF CoverInv, CallsInTurn, Apart, Holder
    <3> QED BY <3>1, <3>2, <3>3 DEF CallsInTurn
  <2>7. EventsGuarded'
    <3>1. \A i \in Places : Queued(i).s \in Session \ {s0}
      BY <2>2, PlacesType DEF NoEvents
    <3>2. Places' = Places /\ \A i \in Places : Queued(i)' = Queued(i)
      BY <1>1 DEF Places, Queued
    <3> QED BY <1>1, <2>1, <3>1, <3>2 DEF CoverInv, EventsGuarded, Ends, Works
  <2>8. ReleaseIsDue'
    BY <1>1, <2>1, <2>2 DEF CoverInv, ReleaseIsDue, Releasing, Works, NoEvents, Places, Queued,
                            TypeInv, Shapes
  <2> QED BY <2>3, <2>5, <2>6, <2>7, <2>8 DEF CoverInv
<1> QED BY <1>2, <1>3 DEF Begin

LEMMA NoEventsKept ==
    ASSUME TypeInv, NEW s \in Session, NEW e, Appended(e)
    PROVE  e.s # s => (NoEvents(s)' <=> NoEvents(s))
BY DEF NoEvents, Appended

\* A thread at work speaks; what it says ends the work only if the thread stops.
LEMMA CoverEmit ==
    ASSUME TypeInv, TypeInv', CoverInv, NEW s \in Session, Works(s), NEW type \in Types,
           Emit(Event(type, s, work[s].id)), UNCHANGED binding,
           \A t \in Session \ {s} : work'[t].kind = work[t].kind,
           work'[s].kind \in {work[s].kind, "none"},
           Ends(Event(type, s, work[s].id)) => ~Works(s)',
           \A c \in Caller : call'[c].pc = "subscribe" \/ Holder(c)' => call'[c] = call[c],
           ProcessStays'
    PROVE  CoverInv'
<1> DEFINE e == Event(type, s, work[s].id)
<1>1. work[s].id \in 1 .. MaxId
  BY TypeHelpers
<1>2. /\ Appended(e) /\ e.s = s
      /\ monitor'.pc = monitor.pc /\ monitor'.s = monitor.s
  BY <1>1, EmitAppends, EventType
<1>4. Ends(e) => ~Works(s)'
  OBVIOUS
<1> HIDE DEF e
<1>5. \A t \in Session : /\ Works(t)' => Works(t)
                         /\ t # s => (Works(t)' <=> Works(t))
                         /\ t # s => (NoEvents(t)' <=> NoEvents(t))
                         /\ Releasing(t)' <=> Releasing(t)
  BY <1>2, NoEventsKept DEF Works, Releasing
<1>6. binding[s].guard
  BY DEF CoverInv, TurnsGuarded
<1>7. GuardMeans' /\ TurnsGuarded'
  BY DEF CoverInv, GuardMeans, TurnsGuarded, Works
<1>8. CallsInTurn'
  <2>1. ASSUME NEW c \in Caller PROVE InTurn(c)'
    <3>1. InTurn(c) /\ (call[c].pc # "idle" => call[c].s \in Session)
      BY DEF CoverInv, CallsInTurn, TypeInv, CallsKnow, Knows
    <3>2. Holder(c) => call[c].s # s /\ call[c].s \in Session
      BY <3>1 DEF InTurn, Holder
    <3>3. /\ call'[c].pc = "subscribe" => call'[c] = call[c]
          /\ Holder(c)' => call'[c] = call[c] /\ Holder(c)
          /\ call'[c].pc = "send" => Holder(c)'
      BY DEF Holder
    <3>4. call'[c].pc = "subscribe" => monitor'.pc = "subscribing"
      BY <1>2, <3>1, <3>3 DEF InTurn
    <3>5. Holder(c)' => binding[call[c].s].guard /\ ~Works(call[c].s)' /\ NoEvents(call[c].s)'
                        /\ ~Releasing(call[c].s)'
      BY <1>5, <3>1, <3>2, <3>3 DEF InTurn
    <3> QED BY <3>1, <3>3, <3>4, <3>5 DEF InTurn
  <2>2. ASSUME NEW c \in Caller, NEW d \in Caller \ {c} PROVE Apart(c, d)'
    BY DEF CoverInv, CallsInTurn, Apart, Holder
  <2> QED BY <2>1, <2>2 DEF CallsInTurn
<1>9. EventsGuarded'
  <2> SUFFICES ASSUME NEW i \in Places'
               PROVE  /\ binding'[Queued(i)'.s].guard
                      /\ Ends(Queued(i))' =>
                            /\ work'[Queued(i)'.s].kind = "none"
                            /\ \A j \in Places' : j > i => Queued(j)'.s # Queued(i)'.s
    BY DEF EventsGuarded, Works
  <2>1. CASE i \in Places
    <3>1. /\ Queued(i)' = Queued(i) /\ Queued(i).s \in Session /\ i \in Nat
          /\ Ends(Queued(i))' <=> Ends(Queued(i))
      BY <1>2, <2>1, PlacesType DEF Appended, Ends
    <3>2. ASSUME Ends(Queued(i))
          PROVE  ~Works(Queued(i).s) /\ \A j \in Places : j > i => Queued(j).s # Queued(i).s
      BY <2>1, <3>2 DEF CoverInv, EventsGuarded
    <3>3. Ends(Queued(i)) => Queued(i).s # s
      BY <3>2
    <3> QED BY <1>2, <1>5, <2>1, <3>1, <3>2, <3>3 DEF Appended, CoverInv, EventsGuarded, Works
  <2>2. CASE i \notin Places
    <3>1. Queued(i)' = e /\ \A j \in Places' : j <= i
      BY <1>2, <2>2 DEF Appended
    <3>2. Places' \subseteq Nat
      BY PlacesTypeNext
    <3>3. Ends(Queued(i))' <=> Ends(e)
      BY <3>1 DEF Ends
    <3> QED BY <1>2, <1>4, <1>6, <3>1, <3>2, <3>3 DEF Works
  <2> QED BY <2>1, <2>2
<1>10. ReleaseIsDue'
  BY <1>2, <1>5 DEF CoverInv, ReleaseIsDue, TypeInv, Shapes, Works
<1> QED BY <1>7, <1>8, <1>9, <1>10 DEF CoverInv

LEMMA ProviderCover ==
    ASSUME TypeInv, TypeInv', CoverInv, NEW s \in Session, Provider(s) \/ Ask(s)
    PROVE  CoverInv'
<1>1. /\ UNCHANGED <<state, binding, pending, call, server, reconf>> /\ Works(s)
      /\ \A c \in Caller : call'[c].pc = "subscribe" \/ Holder(c)' => call'[c] = call[c]
  BY DEF Provider, Complete, FinishCompact, AutoCompact, Ask, Works
<1>3. work[s].id \in 1 .. MaxId /\ ProcessStays
  BY <1>1, TypeHelpers DEF CoverInv
<1>4. ASSUME NEW type \in Types, Emit(Event(type, s, work[s].id)) PROVE ProcessStays'
  BY <1>1, <1>3, <1>4, EmitAppends, ProcessGoesOn DEF ProcessStays, Listening
<1>5. ASSUME NEW type \in Types, Emit(Event(type, s, work[s].id)), Stop(s) PROVE CoverInv'
  BY <1>1, <1>4, <1>5, StopMoves, CoverEmit DEF Works
<1>6. ASSUME NEW type \in Types, Emit(Event(type, s, work[s].id)),
             \A t \in Session : work'[t].kind = work[t].kind,
             ~Ends(Event(type, s, work[s].id))
      PROVE CoverInv'
  BY <1>1, <1>4, <1>6, CoverEmit DEF Works
<1>7. CASE Complete(s)
  <2>1. PICK type \in {"completed", "turn_failed"} : Emit(Event(type, s, work[s].id))
    BY <1>7 DEF Complete
  <2> QED BY <1>5, <1>7, <2>1 DEF Complete, Types
<1>8. CASE FinishCompact(s)
  BY <1>5, <1>8 DEF FinishCompact, Types
<1>9. CASE AutoCompact(s)
  <2>1. PICK from \in {"no", "yes"} :
          /\ work' = [work EXCEPT ![s].auto = IF from = "no" THEN "yes" ELSE "done"]
          /\ Emit(Event(IF from = "no" THEN "compacting" ELSE "compacted", s, work[s].id))
    BY <1>9 DEF AutoCompact
  <2>2. \A t \in Session : work'[t].kind = work[t].kind
    BY <2>1, WorkMoves
  <2>3. ~binding[s].manual
    BY <1>1, <1>9 DEF CoverInv, TurnsGuarded, AutoCompact
  <2>4. \A type \in {"compacting", "compacted"} : type \in Types /\ ~Ends(Event(type, s, work[s].id))
    BY <2>3 DEF Types, Ends, Event
  <2> QED BY <1>6, <2>1, <2>2, <2>4
<1>10. CASE Ask(s)
  <2>1. \A t \in Session : work'[t].kind = work[t].kind
    BY <1>10, WorkMoves DEF Ask
  <2>2. "ask" \in Types /\ ~Ends(Event("ask", s, work[s].id))
    BY DEF Types, Ends, Event
  <2> QED BY <1>6, <1>10, <2>1, <2>2 DEF Ask
<1> QED BY <1>7, <1>8, <1>9, <1>10 DEF Provider

\* Send's outcomes, with the names that the other lemmas use.
Accepted(c) ==
    LET kind == IF call[c].op = "compact" THEN "compact" ELSE "turn"
    IN  /\ CanServe /\ server' = Served
        /\ work' = [work EXCEPT ![call[c].s] =
                       [id |-> @.id + 1, kind |-> kind, asks |-> "no", auto |-> "no"]]
        /\ Emit(Event(IF kind = "turn" THEN "started" ELSE "compacting", call[c].s,
                      work'[call[c].s].id))
        /\ call' = [call EXCEPT ![c].pc = "reply", ![c].turn = work'[call[c].s].id,
                                ![c].gen = server'.gen]
Refused(c) == Attempted /\ Goto(c, "release") /\ UNCHANGED <<work, monitor>>

LEMMA SendOutcomes ==
    ASSUME NEW c \in Caller, Send(c)
    PROVE  /\ call[c].pc = "send" /\ UNCHANGED <<state, binding, pending, reconf>>
           /\ Accepted(c) \/ Refused(c)
BY DEF Send, Accepted, Refused

LEMMA AcceptedMoves ==
    ASSUME TypeInv, NEW c \in Caller, call[c].pc = "send", Accepted(c),
           UNCHANGED <<state, binding, pending, reconf>>
    PROVE  /\ call[c].s \in Session /\ server'.alive
           /\ work'[call[c].s].kind = IF call[c].op = "compact" THEN "compact" ELSE "turn"
           /\ work'[call[c].s].asks = "no" /\ work'[call[c].s].auto = "no"
           /\ \A s \in Session \ {call[c].s} : work'[s] = work[s]
           /\ Onto(c, "reply")
           /\ call'[c].turn = work'[call[c].s].id /\ call'[c].gen = server'.gen
           /\ \A d \in Caller \ {c} : call'[d] = call[d]
           /\ \E turn \in 1 .. MaxId, type \in Types :
                 /\ Emit(Event(type, call[c].s, turn)) /\ turn = work'[call[c].s].id
                 /\ type = IF call[c].op = "compact" THEN "compacting" ELSE "started"
<1> DEFINE kind == IF call[c].op = "compact" THEN "compact" ELSE "turn"
           w == [id |-> work[call[c].s].id + 1, kind |-> kind, asks |-> "no", auto |-> "no"]
<1>1. kind \in {"turn", "compact"} /\ kind = IF call[c].op = "compact" THEN "compact" ELSE "turn"
  OBVIOUS
<1>2. /\ CanServe /\ server' = Served
      /\ work' = [work EXCEPT ![call[c].s] =
                       [id |-> @.id + 1, kind |-> kind, asks |-> "no", auto |-> "no"]]
      /\ Emit(Event(IF kind = "turn" THEN "started" ELSE "compacting", call[c].s,
                      work'[call[c].s].id))
      /\ call' = [call EXCEPT ![c].pc = "reply", ![c].turn = work'[call[c].s].id,
                                ![c].gen = server'.gen]
  BY DEF Accepted
<1> HIDE DEF kind
<1>3. /\ TypeInv' /\ server'.alive
      /\ work'[call[c].s] = w
      /\ \A s \in Session \ {call[c].s} : work'[s] = work[s]
      /\ Onto(c, "reply")
      /\ call'[c].turn = work'[call[c].s].id /\ call'[c].gen = server'.gen
      /\ \A d \in Caller \ {c} : call'[d] = call[d]
  BY <1>1, <1>2, SendMoves DEF Onto
<1>4. call[c].s \in Session
  BY DEF TypeInv, CallsKnow, Knows
<1>5. /\ w.kind = kind /\ w.asks = "no" /\ w.auto = "no" /\ w.id = work[call[c].s].id + 1
  OBVIOUS
<1>6. w.id \in 1 .. MaxId
  <2>1. work[call[c].s].id \in Nat
    BY <1>4, TypeHelpers, MaxIdType
  <2>2. work'[call[c].s].id \in 0 .. MaxId
    BY <1>3, <1>4 DEF TypeInv, Shapes, Workings
  <2> QED BY <1>3, <1>5, <2>1, <2>2, MaxIdType
<1> HIDE DEF w
<1>7. "started" \in Types /\ "compacting" \in Types
  BY DEF Types
<1>8. \E turn \in 1 .. MaxId, type \in Types :
                 /\ Emit(Event(type, call[c].s, turn)) /\ turn = work'[call[c].s].id
                 /\ type = IF call[c].op = "compact" THEN "compacting" ELSE "started"
  <2>1. (IF kind = "turn" THEN "started" ELSE "compacting") =
            IF call[c].op = "compact" THEN "compacting" ELSE "started"
    BY <1>1
  <2> QED BY <1>2, <1>3, <1>6, <1>7, <2>1
<1> QED BY <1>1, <1>3, <1>4, <1>5, <1>8

LEMMA SendCover ==
    ASSUME TypeInv, TypeInv', CoverInv, NEW c \in Caller, Send(c)
    PROVE  CoverInv'
<1> DEFINE s0 == call[c].s
<1>1. /\ call[c].pc = "send" /\ UNCHANGED <<state, binding, pending, reconf>>
      /\ s0 \in Session /\ call[c].op \in TurnOps
  BY SendOutcomes DEF TypeInv, CallsKnow, Knows, TurnSteps
<1>2. /\ binding[s0].guard /\ ~Works(s0) /\ NoEvents(s0) /\ ~Releasing(s0)
      /\ binding[s0].manual <=> call[c].op = "compact"
      /\ \A d \in Caller \ {c} : Holder(d) => call[d].s \in Session \ {s0}
  BY <1>1 DEF CoverInv, CallsInTurn, InTurn, Holder, Apart, TypeInv, CallsKnow, Knows
<1>3. CASE Refused(c)
  <2>1. Onto(c, "release") /\ \A d \in Caller \ {c} : call'[d] = call[d]
    BY <1>3, GotoOnto, StepNames DEF Refused
  <2>2. Serves /\ UNCHANGED <<work, monitor>>
    BY <1>3, ServesServed DEF Refused, CoverInv
  <2>3. ProcessStays'
    BY <1>1, <2>1, <2>2, ProcessGoesOn DEF CoverInv, ProcessStays, Listening, Onto, Serves
  <2> QED BY <1>1, <2>1, <2>2, <2>3, CoverPlain DEF Onto
<1>4. CASE Accepted(c)
  <2> DEFINE K == IF call[c].op = "compact" THEN "compact" ELSE "turn"
  <2>1. /\ server'.alive /\ Serves /\ work'[s0].kind = K
        /\ \A s \in Session \ {s0} : work'[s] = work[s]
        /\ Onto(c, "reply") /\ call'[c].gen = server'.gen
        /\ \A d \in Caller \ {c} : call'[d] = call[d]
    BY <1>1, <1>4, AcceptedMoves, ServesServed DEF Accepted, CoverInv
  <2>2. PICK turn \in 1 .. MaxId, type \in Types :
                 /\ Emit(Event(type, s0, turn))
                 /\ type = IF call[c].op = "compact" THEN "compacting" ELSE "started"
    BY <1>1, <1>4, AcceptedMoves
  <2> DEFINE e == Event(type, s0, turn)
  <2>3. Appended(e) /\ e.s = s0 /\ monitor'.pc = monitor.pc /\ monitor'.gen = monitor.gen
        /\ monitor'.s = monitor.s
    BY <1>1, <2>2, EmitAppends, EventType
  <2>4. ~Ends(e)
    BY <2>2 DEF Ends, Event
  <2> HIDE DEF e
  <2>5. ProcessStays'
    BY <1>1, <2>1, <2>3 DEF CoverInv, ProcessStays, Serves, Listening, Onto
  <2>7. GuardMeans' /\ TurnsGuarded'
    BY <1>1, <1>2, <2>1 DEF CoverInv, GuardMeans, TurnsGuarded, Works
  <2>8. CallsInTurn'
    <3>1. InTurn(c)' /\ ~Holder(c)' /\ call'[c].pc # "subscribe"
      BY <2>1 DEF InTurn, Holder, Onto
    <3>2. ASSUME NEW d \in Caller \ {c} PROVE InTurn(d)'
      <4>1. InTurn(d) /\ call'[d] = call[d] /\ (Holder(d)' <=> Holder(d))
        BY <2>1 DEF CoverInv, CallsInTurn, Holder
      <4>2. call[d].pc = "send" => Holder(d)
        BY DEF Holder
      <4>3. ASSUME Holder(d)
            PROVE  ~Works(call[d].s)' /\ NoEvents(call[d].s)' /\ ~Releasing(call[d].s)'
        <5>1. call[d].s \in Session \ {s0}
          BY <1>2, <4>3
        <5>2. ~Works(call[d].s) /\ NoEvents(call[d].s) /\ ~Releasing(call[d].s)
          BY <4>1, <4>3 DEF InTurn
        <5>3. NoEvents(call[d].s)'
          BY <2>3, <4>1, <5>1, <5>2, NoEventsKept
        <5> QED BY <2>1, <4>1, <2>3, <5>1, <5>2, <5>3 DEF Works, Releasing
      <4> QED BY <1>1, <2>3, <4>1, <4>2, <4>3 DEF InTurn
    <3>3. ASSUME NEW d \in Caller, NEW b \in Caller \ {d} PROVE Apart(d, b)'
      BY <2>1, <3>1 DEF CoverInv, CallsInTurn, Apart, Holder
    <3> QED BY <3>1, <3>2, <3>3 DEF CallsInTurn
  <2>9. EventsGuarded'
    <3> SUFFICES ASSUME NEW i \in Places'
                 PROVE  /\ binding'[Queued(i)'.s].guard
                        /\ Ends(Queued(i))' =>
                              /\ work'[Queued(i)'.s].kind = "none"
                              /\ \A j \in Places' : j > i => Queued(j)'.s # Queued(i)'.s
      BY DEF EventsGuarded, Works
    <3>1. CASE i \in Places
      <4>1. /\ Queued(i)' = Queued(i) /\ Queued(i).s \in Session \ {s0}
            /\ Ends(Queued(i))' <=> Ends(Queued(i))
        BY <1>1, <1>2, <2>3, <3>1, PlacesType DEF Appended, Ends, NoEvents
      <4> QED BY <1>1, <2>1, <2>3, <3>1, <4>1 DEF Appended, CoverInv, EventsGuarded, Works
    <3>2. CASE i \notin Places
      <4>1. Queued(i)' = e
        BY <2>3, <3>2 DEF Appended
      <4>2. Ends(Queued(i))' <=> Ends(e)
        BY <1>1, <4>1 DEF Ends
      <4> QED BY <1>1, <1>2, <2>3, <2>4, <4>1, <4>2
    <3> QED BY <3>1, <3>2
  <2>10. ReleaseIsDue'
    <3>1. \A s \in Session \ {s0} : NoEvents(s)' <=> NoEvents(s)
      BY <2>3, NoEventsKept
    <3> QED BY <1>1, <1>2, <2>1, <2>3, <3>1 DEF CoverInv, ReleaseIsDue, Releasing, Works,
                                               TypeInv, Shapes
  <2> QED BY <2>5, <2>7, <2>8, <2>9, <2>10 DEF CoverInv
<1> QED BY <1>1, <1>3, <1>4, SendOutcomes

LEMMA InterruptCover ==
    ASSUME TypeInv, TypeInv', CoverInv, NEW c \in Caller, Interrupt(c)
    PROVE  CoverInv'
<1> USE TypeHelpers
<1>0. PICK s0 \in Session : s0 = call[c].s
  BY DEF Interrupt, TypeInv, CallsKnow, Knows
<1>1. /\ call[c].pc = "interrupt" /\ UNCHANGED <<state, binding, pending, reconf>>
      /\ ProcessStays
  BY DEF Interrupt, CoverInv
<1>2. /\ \A d \in Caller \ {c} : call'[d] = call[d]
      /\ call'[c].pc = "idle" \/ Onto(c, "failed")
  <2>1. CASE Goto(c, "failed")
    BY <2>1, GotoOnto, StepNames
  <2>2. CASE Return(c)
    BY <2>2, ReturnMoves
  <2> QED BY <2>1, <2>2 DEF Interrupt
<1>3. Serves
  BY <1>1, ServesServed DEF Interrupt
<1>4. ~Holder(c)' /\ call'[c].pc # "subscribe"
  BY <1>2 DEF Holder, Onto
<1>5. CASE UNCHANGED <<work, monitor>>
  <2>1. ProcessStays'
    BY <1>1, <1>2, <1>3, <1>5, ProcessGoesOn DEF ProcessStays, Listening, Onto, Serves
  <2> QED BY <1>1, <1>2, <1>4, <1>5, <2>1, CoverPlain DEF Onto
<1>6. CASE /\ work[s0].kind = "turn" /\ work[s0].id = call[c].turn /\ Stop(s0)
           /\ Emit(Event("interrupted", s0, call[c].turn))
  <2>1. "interrupted" \in Types /\ Works(s0) /\ work[s0].id \in 1 .. MaxId
    BY <1>1, <1>6 DEF Types, Works
  <2>2. Emit(Event("interrupted", s0, work[s0].id))
    BY <1>6
  <2>3. ProcessStays'
    BY <1>1, <1>2, <1>3, <2>1, <2>2, EmitAppends, ProcessGoesOn
       DEF ProcessStays, Listening, Onto, Serves
  <2>4. /\ \A t \in Session \ {s0} : work'[t].kind = work[t].kind
        /\ work'[s0].kind = "none"
    BY <1>1, <1>6, StopMoves
  <2>5. \A d \in Caller : call'[d].pc = "subscribe" \/ Holder(d)' => call'[d] = call[d]
    BY <1>2, <1>4
  <2>6. ~Works(s0)'
    BY <2>4 DEF Works
  <2> QED BY <2>6, <1>1, <2>1, <2>2, <2>3, <2>4, <2>5, CoverEmit
<1> QED BY <1>0, <1>5, <1>6 DEF Interrupt

LEMMA AnswerCover ==
    ASSUME TypeInv, TypeInv', CoverInv, NEW c \in Caller, Answer(c)
    PROVE  CoverInv'
<1> USE TypeHelpers
<1> DEFINE s0 == call[c].s
<1>1. /\ call[c].pc = "answer" /\ UNCHANGED <<state, binding, pending, reconf>>
      /\ s0 \in Session /\ ProcessStays
  BY DEF Answer, CoverInv, TypeInv, CallsKnow, Knows
<1>2. /\ \A d \in Caller \ {c} : call'[d] = call[d]
      /\ call'[c].pc = "idle" \/ Onto(c, "answered")
  <2>1. CASE Goto(c, "answered")
    BY <2>1, GotoOnto, StepNames
  <2>2. CASE Return(c)
    BY <2>2, ReturnMoves
  <2> QED BY <2>1, <2>2 DEF Answer
<1>3. Serves
  BY <1>1, ServesServed DEF Answer
<1>4. ~Holder(c)' /\ call'[c].pc # "subscribe"
  BY <1>2 DEF Holder, Onto
<1>5. CASE UNCHANGED <<work, monitor>>
  <2>1. ProcessStays'
    BY <1>1, <1>2, <1>3, <1>5, ProcessGoesOn DEF ProcessStays, Listening, Onto, Serves
  <2> QED BY <1>1, <1>2, <1>4, <1>5, <2>1, CoverPlain DEF Onto
<1>6. CASE /\ work[s0].kind = "turn" /\ work[s0].id = call[c].turn
           /\ work' = [work EXCEPT ![s0].asks = "answered"]
           /\ Emit(Event("resolved", s0, call[c].turn))
  <2>1. /\ "resolved" \in Types /\ ~Ends(Event("resolved", s0, work[s0].id)) /\ Works(s0)
        /\ work[s0].id \in 1 .. MaxId
    BY <1>1, <1>6 DEF Types, Ends, Event, Works
  <2>2. Emit(Event("resolved", s0, work[s0].id))
    BY <1>6
  <2>3. ProcessStays'
    BY <1>1, <1>2, <1>3, <2>1, <2>2, EmitAppends, ProcessGoesOn
       DEF ProcessStays, Listening, Onto, Serves
  <2>4. \A t \in Session : work'[t].kind = work[t].kind
    BY <1>1, <1>6, WorkMoves
  <2>5. \A d \in Caller : call'[d].pc = "subscribe" \/ Holder(d)' => call'[d] = call[d]
    BY <1>2, <1>4
  <2> QED BY <1>1, <2>1, <2>2, <2>3, <2>4, <2>5, CoverEmit
<1> QED BY <1>5, <1>6 DEF Answer

\* The turn of s is taken out of its binding, while the session is at rest.
LEMMA CoverRelease ==
    ASSUME TypeInv, TypeInv', CoverInv, NEW s \in Session,
           binding' = [binding EXCEPT ![s] = Released(@)], UNCHANGED work,
           ~Works(s), NoEvents(s),
           monitor'.queue = monitor.queue, monitor'.pc = "releasing" => monitor'.s # s /\
               monitor.pc = "releasing" /\ monitor'.s = monitor.s,
           monitor.pc = "subscribing" => monitor'.pc = "subscribing",
           \A c \in Caller : /\ call'[c].pc = "subscribe" => call'[c] = call[c]
                             /\ Holder(c)' => call'[c] = call[c] /\ call[c].s # s,
           ProcessStays'
    PROVE  CoverInv'
<1>1. /\ \A t \in Session \ {s} : binding'[t] = binding[t]
      /\ \A t \in Session : binding'[t].bound = binding[t].bound
      /\ ~binding'[s].guard /\ ~binding'[s].manual
  BY ReleaseMoves, ReleasedType, TypeHelpers
<1>2. Places' = Places /\ \A i \in Places : Queued(i)' = Queued(i) /\ Queued(i).s \in Session \ {s}
  BY PlacesType DEF Places, Queued, NoEvents
<1>3. \A t \in Session : (Works(t)' <=> Works(t)) /\ (NoEvents(t)' <=> NoEvents(t))
  BY <1>2 DEF Works, NoEvents
<1>4. GuardMeans' /\ TurnsGuarded'
  BY <1>1, <1>3 DEF CoverInv, GuardMeans, TurnsGuarded, Works
<1>5. CallsInTurn'
  <2>1. ASSUME NEW c \in Caller PROVE InTurn(c)'
    <3>1. InTurn(c) /\ (call[c].pc # "idle" => call[c].s \in Session)
      BY DEF CoverInv, CallsInTurn, TypeInv, CallsKnow, Knows
    <3>2. /\ call'[c].pc = "send" => Holder(c)'
          /\ Holder(c)' => Holder(c) /\ call'[c] = call[c] /\ call[c].s \in Session \ {s}
      BY <3>1 DEF Holder
    <3>3. ASSUME Holder(c)'
          PROVE  /\ binding'[call[c].s] = binding[call[c].s]
                 /\ ~Works(call[c].s)' /\ NoEvents(call[c].s)' /\ ~Releasing(call[c].s)'
      BY <1>1, <1>3, <3>1, <3>2, <3>3 DEF InTurn, Releasing
    <3> QED BY <3>1, <3>2, <3>3 DEF InTurn
  <2>2. ASSUME NEW c \in Caller, NEW d \in Caller \ {c} PROVE Apart(c, d)'
    BY DEF CoverInv, CallsInTurn, Apart, Holder
  <2> QED BY <2>1, <2>2 DEF CallsInTurn
<1>6. EventsGuarded'
  BY <1>1, <1>2 DEF CoverInv, EventsGuarded, Ends, Works
<1>7. ReleaseIsDue'
  BY <1>1, <1>3 DEF CoverInv, ReleaseIsDue, TypeInv, Shapes
<1> QED BY <1>4, <1>5, <1>6, <1>7 DEF CoverInv

LEMMA ReleaseFailedCover ==
    ASSUME TypeInv, TypeInv', CoverInv, ~LosesGuard, NEW c \in Caller, ReleaseFailed(c)
    PROVE  CoverInv'
<1> DEFINE s0 == call[c].s
<1>1. /\ call[c].pc = "release" /\ UNCHANGED <<state, pending, monitor, server, work, reconf>>
      /\ s0 \in Session
      /\ binding' = [binding EXCEPT ![s0] = Released(@)]
      /\ IF call[c].op = "cancel" THEN Return(c) ELSE Goto(c, "failed")
  BY DEF ReleaseFailed, TypeInv, CallsKnow, Knows
<1>2. /\ \A d \in Caller \ {c} : call'[d] = call[d]
      /\ call'[c].pc \in {"idle", "failed"}
  BY <1>1, ReturnMoves, GotoOnto, StepNames, TypeHelpers DEF Onto
<1>3. ProcessStays' /\ ~Holder(c)' /\ call'[c].pc # "subscribe"
  BY <1>1, <1>2 DEF CoverInv, ProcessStays, Listening, Holder
<1>4. CASE call[c].op = "cancel"
  <2>1. ~binding[s0].guard /\ ~binding[s0].manual
    <3>1. ~Busy(binding[s0])
      BY <1>1, <1>2, <1>4 DEF LosesGuard
    <3> QED BY <1>1, <3>1 DEF CoverInv, GuardMeans, Busy
  <2>2. /\ \A s \in Session \ {s0} : binding'[s] = binding[s]
        /\ ~binding'[s0].guard /\ ~binding'[s0].manual /\ binding'[s0].bound = binding[s0].bound
    BY <1>1, ReleaseMoves, ReleasedType, TypeHelpers
  <2> QED BY <1>1, <1>2, <1>3, <2>1, <2>2, CoverPlain
<1>5. CASE call[c].op # "cancel"
  <2>1. Holder(c)
    BY <1>1, <1>5 DEF Holder
  <2>2. /\ ~Works(s0) /\ NoEvents(s0) /\ ~Releasing(s0)
        /\ \A d \in Caller \ {c} : Holder(d) => call[d].s # s0
    BY <2>1 DEF CoverInv, CallsInTurn, InTurn, Apart
  <2>3. \A d \in Caller : /\ call'[d].pc = "subscribe" => call'[d] = call[d]
                          /\ Holder(d)' => call'[d] = call[d] /\ call[d].s # s0
    BY <1>2, <1>3, <2>2 DEF Holder
  <2> QED BY <1>1, <1>3, <2>2, <2>3, CoverRelease DEF Releasing
<1> QED BY <1>4, <1>5

LEMMA ReleaseTurnCover ==
    ASSUME TypeInv, TypeInv', CoverInv, ReleaseTurn
    PROVE  CoverInv'
<1> DEFINE s0 == monitor.s
<1>1. /\ monitor.pc = "releasing" /\ s0 \in Session
      /\ UNCHANGED <<state, call, server, work, reconf>>
      /\ binding' = [binding EXCEPT ![s0] = Released(@)]
      /\ monitor'.pc = "listening" /\ monitor'.queue = monitor.queue /\ monitor'.gen = monitor.gen
  BY TypeHelpers DEF ReleaseTurn, TypeInv, Shapes, Monitors
<1>2. ~Works(s0) /\ NoEvents(s0)
  BY <1>1 DEF CoverInv, ReleaseIsDue
<1>3. \A d \in Caller : /\ call'[d].pc = "subscribe" => call'[d] = call[d]
                        /\ Holder(d)' => call'[d] = call[d] /\ call[d].s # s0
  BY <1>1 DEF CoverInv, CallsInTurn, InTurn, Releasing, Holder
<1>4. ProcessStays'
  BY <1>1 DEF CoverInv, ProcessStays, Listening
<1> QED BY <1>1, <1>2, <1>3, <1>4, CoverRelease

\* The monitor takes an event; after the last one of a turn it releases the turn.
LEMMA CoverTaken ==
    ASSUME TypeInv, TypeInv', CoverInv, UNCHANGED <<binding, call, server, work, reconf>>,
           monitor.pc = "listening", monitor.queue # <<>>,
           monitor'.queue = Tail(monitor.queue), monitor'.gen = monitor.gen,
           \/ monitor'.pc = "listening"
           \/ /\ monitor'.pc = "releasing" /\ monitor'.s = Queued(1).s
              /\ Ends(Queued(1))
    PROVE  CoverInv'
<1>1. /\ 1 \in Places /\ Places \subseteq Nat \ {0}
      /\ \A i \in Places' : i \in Nat /\ i + 1 \in Places /\ Queued(i)' = Queued(i + 1)
  BY TakenMoves
<1>2. ProcessStays' /\ GuardMeans' /\ TurnsGuarded'
  BY DEF CoverInv, ProcessStays, Listening, GuardMeans, TurnsGuarded, Works
<1>3. \A s \in Session : NoEvents(s) => NoEvents(s)'
  BY <1>1 DEF NoEvents
<1>4. /\ ReleaseIsDue'
      /\ monitor'.pc = "releasing" => \E s \in Session : s = monitor'.s /\ ~NoEvents(s)
  <2>1. CASE monitor'.pc = "listening"
    BY <2>1 DEF ReleaseIsDue
  <2>2. CASE monitor'.pc = "releasing" /\ monitor'.s = Queued(1).s /\ Ends(Queued(1))
    <3>1. /\ binding[Queued(1).s].guard /\ ~Works(Queued(1).s)
          /\ \A j \in Places : j > 1 => Queued(j).s # Queued(1).s
      BY <1>1, <2>2 DEF CoverInv, EventsGuarded
    <3>2. PICK s \in Session : s = Queued(1).s
      BY <1>1, PlacesType
    <3>3. NoEvents(s)'
      <4>1. \A i \in Places' : i + 1 > 1 /\ i + 1 \in Places
        <5>1. \A i \in Places' : i \in Nat /\ i # 0
          BY PlacesTypeNext, TypeHelpers DEF TypeInv, Shapes, Monitors, Places
        <5> QED BY <1>1, <5>1
      <4>2. \A i \in Places' : Queued(i)' = Queued(i + 1) /\ Queued(i + 1).s # Queued(1).s
        BY <1>1, <3>1, <4>1
      <4> QED BY <3>2, <4>2 DEF NoEvents
    <3>4. monitor'.s = s /\ ~NoEvents(s) /\ binding'[s].guard /\ work'[s].kind = "none"
      BY <1>1, <2>2, <3>1, <3>2 DEF NoEvents, Works
    <3> QED BY <3>3, <3>4 DEF ReleaseIsDue, Works
  <2> QED BY <2>1, <2>2
<1>5. CallsInTurn'
  <2>1. ASSUME NEW c \in Caller PROVE InTurn(c)'
    <3>1. InTurn(c) /\ (call[c].pc # "idle" => call[c].s \in Session) /\ (Holder(c)' <=> Holder(c))
      BY DEF CoverInv, CallsInTurn, TypeInv, CallsKnow, Knows, Holder
    <3>2. ASSUME Holder(c) PROVE NoEvents(call[c].s)' /\ ~Releasing(call[c].s)'
      <4>1. NoEvents(call[c].s) /\ call[c].s \in Session
        BY <3>1, <3>2 DEF InTurn, Holder
      <4>2. NoEvents(call[c].s)'
        BY <1>3, <4>1
      <4> QED BY <1>4, <4>1, <4>2 DEF Releasing
    <3> QED BY <3>1, <3>2 DEF InTurn, Works
  <2>2. ASSUME NEW c \in Caller, NEW d \in Caller \ {c} PROVE Apart(c, d)'
    BY DEF CoverInv, CallsInTurn, Apart, Holder
  <2> QED BY <2>1, <2>2 DEF CallsInTurn
<1>6. EventsGuarded'
  <2>1. \A i, j \in Places' : j > i => j + 1 > i + 1
    BY <1>1
  <2> QED BY <1>1, <2>1 DEF CoverInv, EventsGuarded, Ends, Works
<1> QED BY <1>2, <1>4, <1>5, <1>6 DEF CoverInv

\* What handling an event does to the monitor.
LEMMA HandleMoves ==
    ASSUME TypeInv, CoverInv, Handle
    PROVE  /\ monitor.pc = "listening" /\ monitor.queue # <<>>
           /\ UNCHANGED <<binding, call, server, work, reconf>>
           /\ 1 \in Places /\ Queued(1) = Head(monitor.queue) /\ binding[Queued(1).s].bound
           /\ monitor'.queue = Tail(monitor.queue) /\ monitor'.gen = monitor.gen
           /\ \/ OnStarted(Queued(1)) \/ OnCompleted(Queued(1)) \/ OnAsk(Queued(1))
              \/ OnCompacting(Queued(1)) \/ OnCompacted(Queued(1)) \/ OnResolved(Queued(1))
           /\ IF Ends(Queued(1)) THEN monitor'.pc = "releasing" /\ monitor'.s = Queued(1).s
              ELSE monitor'.pc = "listening"
<1> DEFINE e == Head(monitor.queue)
<1>1. /\ monitor.pc = "listening" /\ monitor.queue # <<>>
      /\ UNCHANGED <<binding, call, server, work, reconf>>
  BY DEF Handle
<1>2. monitor.queue \in Seq(Events)
  BY TypeHelpers DEF Monitors
<1>3. 1 \in Places /\ Queued(1) = e /\ e.s \in Session
  BY <1>1, <1>2, PlacesType DEF Places, Queued
<1>4. binding[e.s].bound
  BY <1>3 DEF CoverInv, EventsGuarded, GuardMeans
<1>5. \/ OnStarted(e) \/ OnCompleted(e) \/ OnAsk(e)
      \/ OnCompacting(e) \/ OnCompacted(e) \/ OnResolved(e)
  BY <1>4 DEF Handle
<1>6. /\ Taken.pc = "listening" /\ Taken.gen = monitor.gen /\ Taken.queue = Tail(monitor.queue)
      /\ Ending(e).pc = "releasing" /\ Ending(e).gen = monitor.gen
      /\ Ending(e).queue = Tail(monitor.queue) /\ Ending(e).s = e.s
  BY <1>1, TakenType
<1>7. monitor' = IF Ends(e) THEN Ending(e) ELSE Taken
  BY <1>5 DEF OnStarted, OnCompleted, OnAsk, OnCompacting, OnCompacted, OnResolved, Ends
<1> QED BY <1>1, <1>3, <1>4, <1>5, <1>6, <1>7

LEMMA HandleCover ==
    ASSUME TypeInv, TypeInv', CoverInv, Handle
    PROVE  CoverInv'
BY HandleMoves, CoverTaken

LEMMA LagCover ==
    ASSUME TypeInv, TypeInv', CoverInv, Lag
    PROVE  CoverInv'
<1>1. /\ monitor.pc = "listening" /\ monitor.queue # <<>> /\ monitor' = Taken
      /\ UNCHANGED <<binding, call, server, work, reconf>>
  BY DEF Lag
<1> QED BY <1>1, TakenType, CoverTaken

\* The monitor never sees its channel closed.
LEMMA StaysOpen ==
    ASSUME CoverInv
    PROVE  ~FailActiveSessions
BY DEF CoverInv, ProcessStays, Listening, FailActiveSessions, Closed

LEMMA ProcessCover ==
    ASSUME TypeInv, TypeInv', WorksAlive, CoverInv,
           Crash \/ Poll \/ Start \/ CheckReconfigure \/ Shutdown
    PROVE  CoverInv' \/ Ended'
<1>1. UNCHANGED <<binding, call, monitor>>
  BY DEF Crash, Poll, Start, CheckReconfigure, Shutdown
<1>2. CASE Start
  <2>1. Serves /\ UNCHANGED work
    BY <1>2, ServesServed DEF CoverInv, Start
  <2>2. ProcessStays'
    BY <1>1, <2>1, ProcessGoesOn DEF CoverInv, ProcessStays, Serves, Listening
  <2> QED BY <1>1, <2>1, <2>2, CoverSame
<1>3. CASE Crash
  <2>1. server'.gen = server.gen /\ ~server'.alive /\ server.gen > 0
    BY <1>3, TypeHelpers DEF Crash, CoverInv, ProcessStays, Servers
  <2> QED BY <2>1 DEF Ended
<1>4. CASE Poll
  BY <1>4 DEF Poll, CoverInv, ProcessStays
<1>5. CASE CheckReconfigure
  BY <1>1, <1>5, CoverSame DEF CheckReconfigure
<1>6. CASE Shutdown
  <2>1. server'.gen = server.gen /\ ~server'.alive /\ ~server'.held /\ AllStop
    BY <1>6, TypeHelpers DEF Shutdown, Servers
  <2>2. CASE server.gen > 0
    BY <2>1, <2>2 DEF Ended
  <2>3. CASE ~(server.gen > 0)
    <3>1. ~server.alive /\ \A s \in Session : work[s].kind = "none"
      BY <2>3 DEF CoverInv, ProcessStays, WorksAlive, Works
    <3>2. UNCHANGED work
      BY <2>1, <3>1, TypeHelpers DEF AllStop, Workings
    <3>3. ProcessStays'
      BY <1>1, <2>1, <2>3, <3>1 DEF CoverInv, ProcessStays, Listening
    <3> QED BY <1>1, <3>2, <3>3, CoverSame
  <2> QED BY <2>2, <2>3
<1> QED BY <1>2, <1>3, <1>4, <1>5, <1>6

LEMMA StepCover ==
    ASSUME TypeInv, TypeInv', CoverInv, ~LosesGuard, NEW c \in Caller, Step(c)
    PROVE  CoverInv'
BY EnsureMonitorCover, SubscribeCover, OpenThreadCover, BindCover, BeginTurnCover, SendCover,
   ReplyCover, MarkCover, ReleaseFailedCover, InterruptCover, AnswerCover DEF Step

LEMMA CoverInit == Init => CoverInv
<1> SUFFICES ASSUME Init PROVE CoverInv
  OBVIOUS
<1>1. /\ \A s \in Session : ~binding[s].guard /\ ~binding[s].manual /\ ~Works(s)
      /\ \A c \in Caller : call[c].pc = "idle"
      /\ monitor.pc = "off" /\ monitor.queue = <<>>
  BY DEF Init, Unbound, Fresh, Works, Idle
<1>2. Places = {}
  BY <1>1 DEF Places
<1>3. ProcessStays
  BY <1>1 DEF Init, ProcessStays, Listening
<1>4. GuardMeans /\ TurnsGuarded /\ CallsInTurn
  BY <1>1 DEF GuardMeans, TurnsGuarded, CallsInTurn, InTurn, Apart, Holder
<1>5. EventsGuarded /\ ReleaseIsDue
  BY <1>1, <1>2 DEF EventsGuarded, ReleaseIsDue
<1> QED BY <1>3, <1>4, <1>5 DEF CoverInv

\* A process starts with a number of its own.
LEMMA AliveGrows ==
    ASSUME TypeInv, [Next]_sessionVars
    PROVE  server'.alive => server.alive \/ server'.gen # server.gen
<1> USE TypeHelpers
<1>1. CanServe => /\ Served \in Servers
                  /\ server.alive => Served = server
                  /\ ~server.alive => Served.gen = server.gen + 1
  BY ServedType
<1>2. CanServe => server.alive \/ Served.gen # server.gen
  BY <1>1, MaxIdType DEF Servers
<1>3. ASSUME NEW c \in Caller, Step(c) PROVE server'.alive => server.alive \/ server'.gen # server.gen
  <2>1. \/ UNCHANGED server \/ (CanServe /\ server' = Served) \/ Attempted
        \/ CanServe /\ server' = [Served EXCEPT !.loaded = @ \cup {call[c].s}]
    BY <1>3 DEF Step, EnsureMonitor, Subscribe, OpenThread, Bind, Begin, Send, Reply, MarkRunning,
                ReleaseFailed, MarkFailed, Drain, Interrupt, Answer, Answered
  <2> QED BY <1>1, <1>2, <2>1 DEF Attempted, Servers
<1>4. ASSUME Crash \/ Poll \/ Start \/ CheckReconfigure \/ Shutdown
      PROVE  server'.alive => server.alive \/ server'.gen # server.gen
  BY <1>2, <1>4 DEF Crash, Poll, Start, CheckReconfigure, Shutdown, Servers
<1>5. CASE UNCHANGED server
  BY <1>5
<1> QED BY <1>3, <1>4, <1>5
        DEF Next, Move, Monitor, Handle, ReleaseTurn, FailActiveSessions, Lag, Provider, Complete,
            FinishCompact, AutoCompact, Ask, BeginRespond, BeginTask, BeginTurn, BeginCancel,
            sessionVars, vars

\* Only a process that runs is at work, and one that has ended stays so.
LEMMA WorksStep ==
    ASSUME TypeInv, WorksAlive, [Next]_sessionVars
    PROVE  /\ WorksAlive'
           /\ Ended /\ ~LosesGuard => Ended'
<1> USE TypeHelpers
<1>1. server.alive => \/ server'.alive /\ server'.gen = server.gen
                      \/ ~server'.alive /\ server'.gen = server.gen /\ AllStop
  <2>1. CanServe => Served \in Servers /\ (server.alive => Served = server)
    BY ServedType
  <2>2. ASSUME NEW c \in Caller, Step(c), server.alive
        PROVE  server'.alive /\ server'.gen = server.gen
    <3>1. \/ UNCHANGED server \/ (CanServe /\ server' = Served) \/ Attempted
          \/ CanServe /\ server' = [Served EXCEPT !.loaded = @ \cup {call[c].s}]
      BY <2>2 DEF Step, EnsureMonitor, Subscribe, OpenThread, Bind, Begin, Send, Reply, MarkRunning,
                  ReleaseFailed, MarkFailed, Drain, Interrupt, Answer, Answered
    <3> QED BY <2>1, <2>2, <3>1 DEF Attempted, Servers
  <2>3. ASSUME server.alive, Crash \/ Poll \/ Start \/ CheckReconfigure \/ Shutdown
        PROVE  \/ server'.alive /\ server'.gen = server.gen
               \/ ~server'.alive /\ server'.gen = server.gen /\ AllStop
    BY <2>3 DEF Crash, Poll, Start, CheckReconfigure, Shutdown, Servers
  <2>4. CASE UNCHANGED server
    BY <2>4
  <2> QED BY <2>2, <2>3, <2>4
          DEF Next, Move, Monitor, Handle, ReleaseTurn, FailActiveSessions, Lag, Provider, Complete,
              FinishCompact, AutoCompact, Ask, BeginRespond, BeginTask, BeginTurn, BeginCancel,
              sessionVars, vars
<1>2. \A s \in Session : Works(s)' => Works(s) \/ server'.alive
  <2>1. ASSUME NEW c \in Caller, Step(c) PROVE \A s \in Session : Works(s)' => Works(s) \/ server'.alive
    <3>1. \A s \in Session : work'[s].kind # "none" => work[s].kind # "none" \/ server'.alive
      <4>1. CASE Send(c)
        <5>1. CASE UNCHANGED work
          BY <5>1
        <5>2. CASE CanServe /\ server' = Served
          BY <5>2, ServedType
        <5> QED BY <4>1, <5>1, <5>2 DEF Send
      <4>2. CASE Interrupt(c)
        <5>1. CASE UNCHANGED work
          BY <5>1
        <5>2. CASE server.alive /\ UNCHANGED server
          BY <5>2
        <5> QED BY <4>2, <5>1, <5>2 DEF Interrupt
      <4>3. CASE Answer(c)
        <5>1. CASE UNCHANGED work
          BY <5>1
        <5>2. CASE CanServe /\ server' = Served
          BY <5>2, ServedType
        <5> QED BY <4>3, <5>1, <5>2 DEF Answer
      <4>4. CASE UNCHANGED work
        BY <4>4
      <4> QED BY <2>1, <4>1, <4>2, <4>3, <4>4
              DEF Step, EnsureMonitor, Subscribe, OpenThread, Bind, Begin, Reply, MarkRunning,
                  ReleaseFailed, MarkFailed, Drain, Answered
    <3> QED BY <3>1 DEF Works
  <2>2. ASSUME NEW s \in Session, Provider(s) \/ Ask(s)
        PROVE  \A t \in Session : Works(t)' => Works(t)
    <3>1. CASE Complete(s) \/ FinishCompact(s)
      BY <3>1, StopMoves DEF Complete, FinishCompact
    <3>2. CASE AutoCompact(s) \/ Ask(s)
      <4>1. \/ work' = [work EXCEPT ![s].asks = "yes"]
            \/ work' = [work EXCEPT ![s].auto = "yes"]
            \/ work' = [work EXCEPT ![s].auto = "done"]
        BY <3>2 DEF AutoCompact, Ask
      <4> QED BY <4>1, WorkMoves
    <3> QED BY <2>2, <3>1, <3>2 DEF Provider
  <2>3. CASE UNCHANGED work
    BY <2>3 DEF Works
  <2>4. CASE AllStop
    BY <2>4 DEF AllStop, Works, Workings
  <2> QED BY <2>1, <2>2, <2>3, <2>4
          DEF Next, Move, Monitor, Handle, ReleaseTurn, FailActiveSessions, Lag, Crash, Poll, Start,
              CheckReconfigure, Shutdown, BeginRespond, BeginTask, BeginTurn, BeginCancel,
              sessionVars, vars
<1>3. WorksAlive'
  <2>1. AllStop => \A s \in Session : ~Works(s)'
    BY DEF AllStop, Works, Workings
  <2> QED BY <1>1, <1>2, <2>1 DEF WorksAlive
<1>4. ASSUME Ended, ~LosesGuard PROVE Ended'
  <2>1. server'.gen = server.gen
    BY <1>4 DEF Ended, LosesGuard
  <2>2. server'.alive => server.alive \/ server'.gen # server.gen
    BY AliveGrows
  <2> QED BY <1>4, <2>1, <2>2 DEF Ended
<1> QED BY <1>3, <1>4

\* As long as no guard is lost, the invariant holds until the process has ended.
Covered == TypeInv /\ WorksAlive /\ ("guard" \in astray \/ CoverInv \/ Ended)

LEMMA CoverStep ==
    ASSUME Covered, [Next]_sessionVars
    PROVE  Covered'
<1>0. TypeInv' /\ WorksAlive'
  BY TypeStep, WorksStep DEF Covered
<1>1. CASE UNCHANGED sessionVars
  BY <1>0, <1>1, CoverSame DEF sessionVars, vars, Covered, Ended
<1>2. CASE Next /\ ("guard" \in astray \/ LosesGuard)
  BY <1>0, <1>2 DEF Next, Strayed, Covered
<1>3. CASE Next /\ ~LosesGuard /\ Ended
  BY <1>0, <1>3, WorksStep DEF Covered
<1>4. CASE Next /\ ~LosesGuard /\ CoverInv
  <2> USE <1>0, <1>4 DEF Covered
  <2>1. CASE \E c \in Caller : \/ Step(c) \/ BeginRespond(c)
                               \/ \E s \in Session : BeginTask(c, s) \/ BeginTurn(c, s) \/ BeginCancel(c, s)
    BY <2>1, StepCover, BeginCover
  <2>2. CASE \E s \in Session : Provider(s) \/ Ask(s)
    BY <2>2, ProviderCover
  <2>3. CASE Monitor \/ Lag
    BY <2>3, HandleCover, ReleaseTurnCover, StaysOpen, LagCover DEF Monitor
  <2>4. CASE Crash \/ Poll \/ Start \/ CheckReconfigure \/ Shutdown
    BY <2>4, ProcessCover
  <2> QED BY <2>1, <2>2, <2>3, <2>4 DEF Next, Move
<1> QED BY <1>1, <1>2, <1>3, <1>4 DEF Covered

LEMMA CoveredAlways == Spec => []Covered
<1>1. Init => Covered
  <2>1. Init => WorksAlive
    BY DEF Init, WorksAlive, Works
  <2> QED BY <2>1, TypeInit, CoverInit DEF Covered
<1>2. Covered /\ [Next]_sessionVars => Covered'
  BY CoverStep
<1> QED BY <1>1, <1>2, PTL DEF Spec

\* Whatever the app-server runs in a thread is counted as work of the workspace,
\* however many calls give turns, answer and cancel: neither the monitor nor a call
\* that fails gives back the guard of a turn that still runs, until one of the four
\* steps of LosesGuard is taken (session/coordinator.rs, release_turn and
\* start_turn_internal).
THEOREM TurnsAreCovered == Spec => []GuardCoversTurn
<1>1. Covered => GuardCoversTurn
  BY DEF Covered, CoverInv, TurnsGuarded, GuardCoversTurn, TurnIsGuarded, Ended, WorksAlive
<1> QED BY <1>1, CoveredAlways, PTL
=============================================================================
