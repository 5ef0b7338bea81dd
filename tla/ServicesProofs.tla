--------------------------- MODULE ServicesProofs ---------------------------
(***************************************************************************)
(* Proofs about the components of Services, each for any size of its       *)
(* constants: the commands of ExecSessions (a running command keeps its    *)
(* workspace busy and can be killed by its id, and the reasons given for   *)
(* its end are true), the frpc process of FrpClient (with one instance of  *)
(* the application no frpc runs without its pid on record but for those    *)
(* that `slipped` tells of; with two it may, see README), the programs of  *)
(* TunnelSoftware (an installation that reports success left a whole       *)
(* program, unless another wrote the file as well), and the tunnels of     *)
(* TunnelSupervisor (the answer of a command is true of the line it        *)
(* leaves).                                                                *)
(***************************************************************************)
EXTENDS Services, FiniteSetTheorems, TLAPS

-----------------------------------------------------------------------------
(* ExecSessions                                                            *)

\* Whoever handles a session handles one whose process was spawned.
Unmade(s) == process[s] = "none"
HandledIsMade ==
    /\ \A s \in Session : Unmade(s) <=> call[s] \in {"none", "refused"}
    /\ \A s \in Session : Unmade(s) => record[s] = NoRecord /\ monitor[s] = "off"
    /\ \A k \in Client : client[k] # Idle => ~Unmade(client[k].s)

\* Who relies on the end of a process relies on one that happened.
EndsHappened ==
    \A s \in Session : call[s] = "collect" \/ monitor[s] = "evict" => ~Alive(s)

\* Once somebody gave a reason for killing, it is a reason for killing that
\* stands there, and who kills has given one.
Blamed(s) == record[s].reason \in {"timeout", "killed"}
KillersGaveReason ==
    /\ \A s \in Session : /\ call[s] = "kill" => Blamed(s)
                          /\ monitor[s] = "kill" => Blamed(s)
                          /\ process[s] = "killed" => Blamed(s)
    /\ \A k \in Client : client[k].pc = "signal" => Blamed(client[k].s)

\* Who speaks of a timeout has seen the deadline pass.
TimeoutsAreDue ==
    \A s \in Session :
        (\/ call[s] \in {"mark", "kill"}
         \/ monitor[s] \in {"mark", "kill"}
         \/ record[s].reason = "timeout") => s \in due

ExecInv == /\ TypeOK
        /\ HandledIsMade
        /\ RunningIsCovered
        /\ EndsHappened
        /\ KillersGaveReason
        /\ TimeoutsAreDue

-----------------------------------------------------------------------------
(* What the record and the steps become                                    *)

LEMMA EndedType == ASSUME NEW r \in Record
                   PROVE  /\ Ended(r) \in Record
                          /\ Ended(r).exited /\ Ended(r).stored = r.stored
                          /\ Ended(r).reason = (IF r.reason = "none" THEN "exited" ELSE r.reason)
BY DEF Ended, Record, Reason

\* Asking the process changes nothing while it runs, and otherwise records its
\* end under the reason that was given.
LEMMA RefreshedType ==
    ASSUME TypeOK, NEW s \in Session
    PROVE  /\ Refreshed(s) \in Record
           /\ Refreshed(s).stored = record[s].stored
           /\ Alive(s) => Refreshed(s) = record[s]
           /\ Refreshed(s).reason \in {record[s].reason, "exited"}
           /\ record[s].reason # "none" => Refreshed(s).reason = record[s].reason
           /\ ~Alive(s) => Refreshed(s).exited
<1>1. record[s] \in Record
  BY DEF TypeOK
<1> QED
  BY <1>1, EndedType DEF Refreshed, Record, Reason

\* No process is spawned.
NoneSpawned == \A s \in Session : /\ Alive(s)' => Alive(s)
                                  /\ Unmade(s)' <=> Unmade(s)

\* What the records may become, whatever a step does besides.
RecordsKept ==
    /\ record' \in [Session -> Record]
    /\ \A s \in Session : /\ Unmade(s) => record'[s] = NoRecord
                          /\ Alive(s)' => /\ record'[s].guard
                                          /\ record'[s].stored
                                          /\ ~record'[s].exited
                          /\ Blamed(s) => record'[s].reason \in {"timeout", "killed"}
                          /\ record'[s].reason = "timeout" => s \in due

LEMMA SameRecords == ASSUME ExecInv, NoneSpawned, UNCHANGED record PROVE RecordsKept
BY DEF ExecInv, NoneSpawned, RecordsKept, TypeOK, HandledIsMade, RunningIsCovered, Blamed, TimeoutsAreDue

LEMMA OneRecord ==
    ASSUME ExecInv, NoneSpawned, NEW s \in Session, ~Unmade(s), NEW r \in Record,
           record' = [record EXCEPT ![s] = r],
           Alive(s)' => r.guard /\ r.stored /\ ~r.exited,
           Blamed(s) => r.reason \in {"timeout", "killed"},
           r.reason = "timeout" => s \in due
    PROVE  RecordsKept
BY DEF ExecInv, NoneSpawned, RecordsKept, TypeOK, HandledIsMade, RunningIsCovered, Blamed, TimeoutsAreDue

LEMMA RefreshKeeps ==
    ASSUME ExecInv, NoneSpawned, NEW s \in Session, ~Unmade(s), NEW b \in BOOLEAN,
           b = TRUE \/ Refreshed(s).exited,
           record' = [record EXCEPT ![s] =
                         [Refreshed(s) EXCEPT !.stored = @ /\ b]]
    PROVE  RecordsKept
<1> DEFINE r == [Refreshed(s) EXCEPT !.stored = @ /\ b]
<1>0. TypeOK /\ record[s] \in Record
  BY DEF ExecInv, TypeOK
<1>1. /\ r \in Record
      /\ r.guard = Refreshed(s).guard /\ r.exited = Refreshed(s).exited
      /\ r.reason = Refreshed(s).reason /\ r.stored = (Refreshed(s).stored /\ b)
  BY <1>0, RefreshedType DEF Record
<1>2. Alive(s)' => b /\ r.guard /\ r.stored /\ ~r.exited
  BY <1>0, <1>1, RefreshedType DEF ExecInv, RunningIsCovered, NoneSpawned
<1>3. Blamed(s) => r.reason \in {"timeout", "killed"}
  BY <1>0, <1>1, RefreshedType DEF Blamed
<1>4. r.reason = "timeout" => s \in due
  BY <1>0, <1>1, RefreshedType DEF ExecInv, TimeoutsAreDue
<1> HIDE DEF r
<1>5. record' = [record EXCEPT ![s] = r]
  BY DEF r
<1> QED
  BY <1>1, <1>2, <1>3, <1>4, <1>5, OneRecord

\* A refresh is that with the session left where it is.
LEMMA RefreshStep ==
    ASSUME ExecInv, NoneSpawned, NEW s \in Session, ~Unmade(s), Refresh(s)
    PROVE  RecordsKept
<1>0. TypeOK
  BY DEF ExecInv
<1>1. Refreshed(s) \in Record
  BY <1>0, RefreshedType
<1>2. [Refreshed(s) EXCEPT !.stored = @ /\ TRUE] = Refreshed(s)
  BY <1>1 DEF Record
<1> QED
  BY <1>2, RefreshKeeps DEF Refresh

\* Giving a reason, where a timeout is due.
LEMMA MarkKeeps ==
    ASSUME ExecInv, NoneSpawned, NEW s \in Session, ~Unmade(s), NEW why \in {"timeout", "killed"},
           why = "timeout" => s \in due, MarkReason(s, why)
    PROVE  RecordsKept /\ record'[s].reason = why
<1> DEFINE r == [record[s] EXCEPT !.reason = why]
<1>0. record[s] \in Record /\ DOMAIN record = Session
  BY DEF ExecInv, TypeOK
<1>1. /\ r \in Record /\ r.reason = why
      /\ r.guard = record[s].guard /\ r.stored = record[s].stored
      /\ r.exited = record[s].exited
  BY <1>0 DEF Record, Reason
<1>2. Alive(s)' => r.guard /\ r.stored /\ ~r.exited
  BY <1>1 DEF ExecInv, RunningIsCovered, NoneSpawned
<1>3. record' = [record EXCEPT ![s] = r]
  BY DEF MarkReason
<1> HIDE DEF r
<1>4. RecordsKept
  BY <1>1, <1>2, <1>3, OneRecord
<1> QED
  BY <1>0, <1>1, <1>3, <1>4

\* Forgetting a session whose process is over.
LEMMA ForgetKeeps ==
    ASSUME ExecInv, NoneSpawned, NEW s \in Session, ~Unmade(s), ~Alive(s), Forget(s)
    PROVE  RecordsKept
<1> DEFINE r == [record[s] EXCEPT !.stored = FALSE]
<1>0. record[s] \in Record
  BY DEF ExecInv, TypeOK
<1>1. r \in Record /\ r.reason = record[s].reason
  BY <1>0 DEF Record
<1>2. record' = [record EXCEPT ![s] = r]
  BY DEF Forget
<1>3. r.reason = "timeout" => s \in due
  BY <1>1 DEF ExecInv, TimeoutsAreDue
<1> HIDE DEF r
<1> QED
  BY <1>1, <1>2, <1>3, OneRecord DEF Blamed, NoneSpawned

\* Killing, for somebody who gave the reason.
LEMMA KillKeeps ==
    ASSUME ExecInv, NEW s \in Session, ~Unmade(s), Blamed(s), KillAndWait(s)
    PROVE  /\ NoneSpawned /\ RecordsKept /\ ~Alive(s)'
           /\ process' \in [Session -> Process]
           /\ \A t \in Session : process'[t] = "killed" => t = s \/ process[t] = "killed"
<1>0. process \in [Session -> Process] /\ record[s] \in Record
  BY DEF ExecInv, TypeOK
<1>1. /\ NoneSpawned /\ ~Alive(s)'
      /\ process' \in [Session -> Process]
      /\ \A t \in Session : process'[t] = "killed" => t = s \/ process[t] = "killed"
  BY <1>0 DEF KillAndWait, NoneSpawned, Alive, Unmade, Process
<1>2. /\ Ended(record[s]) \in Record
      /\ Ended(record[s]).reason = record[s].reason
  BY <1>0, EndedType DEF Blamed
<1>3. record' = [record EXCEPT ![s] = Ended(record[s])]
  BY DEF KillAndWait
<1>4. Ended(record[s]).reason = "timeout" => s \in due
  BY <1>2 DEF ExecInv, TimeoutsAreDue
<1> QED
  BY <1>1, <1>2, <1>3, <1>4, OneRecord DEF Blamed

-----------------------------------------------------------------------------
(* The steps                                                               *)

LEMMA ExecInitInvariant == Init => ExecInv
BY DEF Init, ExecInv, TypeOK, HandledIsMade, RunningIsCovered, EndsHappened, KillersGaveReason,
       TimeoutsAreDue, Unmade, Alive, Blamed, Process, Record, NoRecord, Reason, Call,
       Monitor, Clients, Idle

\* The invariant after a step that spawns nothing, from what it does to the
\* records and to who handles sessions.
LEMMA Preserved ==
    ASSUME ExecInv, NoneSpawned, RecordsKept,
           process' \in [Session -> Process], call' \in [Session -> Call],
           monitor' \in [Session -> Monitor],
           due' \cup tty' \subseteq Session, due \subseteq due',
           client' \in [Client -> Clients],
           \A s \in Session :
             /\ call'[s] = call[s] \/ (~Unmade(s) /\ call'[s] \notin {"none", "refused"})
                  \/ (call[s] = "none" /\ call'[s] = "refused")
             /\ monitor'[s] = monitor[s] \/ ~Unmade(s)
             /\ call'[s] = "collect" => call[s] = "collect" \/ ~Alive(s)'
             /\ monitor'[s] = "evict" => monitor[s] = "evict" \/ ~Alive(s)'
             /\ call'[s] = "kill" => call[s] = "kill" \/ Blamed(s)'
             /\ monitor'[s] = "kill" => monitor[s] = "kill" \/ Blamed(s)'
             /\ process'[s] = "killed" => process[s] = "killed" \/ Blamed(s)
             /\ call'[s] \in {"mark", "kill"} => call[s] \in {"mark", "kill"} \/ s \in due
             /\ monitor'[s] \in {"mark", "kill"} => monitor[s] \in {"mark", "kill"} \/ s \in due,
           \A k \in Client :
             /\ client'[k] = Idle \/ client'[k].s \in Session
             /\ client'[k] # Idle => ~Unmade(client'[k].s)
             /\ client'[k].pc = "signal" => client'[k] = client[k] \/ Blamed(client[k].s)'
    PROVE  ExecInv'
<1>1. TypeOK'
  BY DEF RecordsKept, TypeOK
<1>2. HandledIsMade'
  <2>1. \A s \in Session : Unmade(s)' <=> call'[s] \in {"none", "refused"}
    BY DEF ExecInv, HandledIsMade, NoneSpawned
  <2>2. \A s \in Session : Unmade(s)' => record'[s] = NoRecord /\ monitor'[s] = "off"
    BY DEF ExecInv, HandledIsMade, NoneSpawned, RecordsKept
  <2>3. ASSUME NEW k \in Client, client'[k] # Idle PROVE ~Unmade(client[k].s)'
    <3>1. client'[k].s \in Session /\ ~Unmade(client'[k].s)
      BY <2>3
    <3> QED BY <3>1 DEF NoneSpawned, Unmade
  <2> QED BY <2>1, <2>2, <2>3 DEF HandledIsMade, Unmade
<1>3. RunningIsCovered'
  BY DEF RecordsKept, RunningIsCovered
<1>4. EndsHappened'
  BY DEF ExecInv, EndsHappened, NoneSpawned
<1>5. KillersGaveReason'
  <2>1. \A s \in Session : Blamed(s) => Blamed(s)'
    BY DEF RecordsKept, Blamed
  <2>2. \A k \in Client : client'[k].pc = "signal" => Blamed(client[k].s)'
    <3>1. ASSUME NEW k \in Client, client'[k].pc = "signal", client'[k] = client[k]
          PROVE  Blamed(client[k].s)'
      <4>1. client[k].s \in Session
        BY <3>1 DEF Clients, Idle
      <4>2. Blamed(client[k].s)
        BY <3>1 DEF ExecInv, KillersGaveReason
      <4> QED BY <3>1, <4>1, <4>2, <2>1 DEF Blamed
    <3> QED BY <3>1
  <2> QED BY <2>1, <2>2 DEF ExecInv, KillersGaveReason, Blamed
<1>6. TimeoutsAreDue'
  BY DEF ExecInv, TimeoutsAreDue, RecordsKept
<1> QED
  BY <1>1, <1>2, <1>3, <1>4, <1>5, <1>6 DEF ExecInv

\* Steps that leave the processes alone spawn none.
LEMMA NoProcessSteps == ASSUME UNCHANGED process PROVE NoneSpawned
BY DEF NoneSpawned, Alive, Unmade

\* The steps of exec_command.
LEMMA CallInvariant ==
    ASSUME ExecInv, NEW s \in Session, Refuse(s) \/ WriteInput(s) \/ ExecStep(s)
    PROVE  ExecInv'
<1>0. TypeOK /\ UNCHANGED <<due, tty, client>>
  BY DEF ExecInv, Refuse, WriteInput, ExecStep, Round, ReturnEnd, MarkTimeout, TimeOut
<1>c. \A k \in Client : /\ client[k] = Idle \/ client[k].s \in Session
                        /\ client[k] # Idle => ~Unmade(client[k].s)
  BY <1>0 DEF ExecInv, TypeOK, HandledIsMade, Clients
<1>m. call[s] \notin {"none", "refused"} => ~Unmade(s)
  BY DEF ExecInv, HandledIsMade
<1>1. CASE Refuse(s)
  <2>1. NoneSpawned /\ RecordsKept
    BY <1>1, NoProcessSteps, SameRecords DEF Refuse
  <2> QED
    BY <1>0, <1>1, <1>c, <2>1, Preserved DEF Refuse, GotoCall, TypeOK, Call
<1>2. CASE WriteInput(s)
  <2>1. NoneSpawned /\ RecordsKept
    BY <1>2, NoProcessSteps, SameRecords DEF WriteInput
  <2> QED
    BY <1>0, <1>2, <1>c, <1>m, <2>1, Preserved DEF WriteInput, GotoCall, TypeOK, Call
<1>3. CASE Round(s)
  <2>1. NoneSpawned /\ UNCHANGED process /\ ~Unmade(s)
    BY <1>3, <1>m, NoProcessSteps DEF Round
  <2>2. RecordsKept
    BY <1>0, <1>3, <2>1, RefreshStep DEF Round
  <2>3. /\ call' \in [Session -> Call] /\ monitor' \in [Session -> Monitor]
        /\ \A t \in Session : t # s => call'[t] = call[t] /\ monitor'[t] = monitor[t]
        /\ monitor'[s] \in {monitor[s], "armed"}
        /\ \/ call'[s] = "collect" /\ ~Alive(s)'
           \/ call'[s] = "mark" /\ s \in due
           \/ call'[s] = "kept"
    BY <1>0, <1>3 DEF Round, GotoCall, GotoMonitor, TypeOK, Call, Monitor, Alive
  <2> QED
    BY <1>0, <1>c, <2>1, <2>2, <2>3, Preserved DEF TypeOK
<1>4. CASE ReturnEnd(s)
  <2>1. NoneSpawned /\ ~Unmade(s) /\ ~Alive(s)
    BY <1>4, <1>m, NoProcessSteps DEF ReturnEnd, ExecInv, EndsHappened
  <2>2. RecordsKept
    BY <1>4, <2>1, ForgetKeeps DEF ReturnEnd
  <2> QED
    BY <1>0, <1>4, <1>c, <2>1, <2>2, Preserved DEF ReturnEnd, GotoCall, TypeOK, Call
<1>5. CASE MarkTimeout(s)
  <2>1. NoneSpawned /\ ~Unmade(s) /\ s \in due
    BY <1>5, <1>m, NoProcessSteps DEF MarkTimeout, ExecInv, TimeoutsAreDue
  <2>2. RecordsKept /\ Blamed(s)'
    BY <1>5, <2>1, MarkKeeps DEF MarkTimeout, Blamed
  <2> QED
    BY <1>0, <1>5, <1>c, <2>1, <2>2, Preserved DEF MarkTimeout, GotoCall, TypeOK, Call
<1>6. CASE TimeOut(s)
  <2>1. ~Unmade(s) /\ Blamed(s)
    BY <1>6, <1>m DEF TimeOut, ExecInv, KillersGaveReason
  <2>2. /\ NoneSpawned /\ RecordsKept /\ ~Alive(s)'
        /\ process' \in [Session -> Process]
        /\ \A t \in Session : process'[t] = "killed" => t = s \/ process[t] = "killed"
    BY <1>6, <2>1, KillKeeps DEF TimeOut
  <2>3. /\ call' \in [Session -> Call] /\ monitor' \in [Session -> Monitor]
        /\ \A t \in Session : t # s => call'[t] = call[t] /\ monitor'[t] = monitor[t]
        /\ call'[s] = "timedOut" /\ monitor'[s] = "evict"
    BY <1>0, <1>6 DEF TimeOut, GotoCall, GotoMonitor, TypeOK, Call, Monitor
  <2> QED
    BY <1>0, <1>c, <2>1, <2>2, <2>3, Preserved DEF TypeOK
<1> QED
  BY <1>1, <1>2, <1>3, <1>4, <1>5, <1>6 DEF ExecStep

\* The steps of the monitor and of the eviction.
LEMMA MonitorInvariant == ASSUME ExecInv, NEW s \in Session, MonitorStep(s)
                          PROVE  ExecInv'
<1>0. TypeOK /\ UNCHANGED <<call, due, tty, client>>
  BY DEF ExecInv, MonitorStep, Watch, MonitorMarks, MonitorKills, Evict
<1>c. \A k \in Client : /\ client[k] = Idle \/ client[k].s \in Session
                        /\ client[k] # Idle => ~Unmade(client[k].s)
  BY <1>0 DEF ExecInv, TypeOK, HandledIsMade, Clients
<1>m. ~Unmade(s)
  BY DEF ExecInv, HandledIsMade, MonitorStep, Watch, MonitorMarks, MonitorKills, Evict
<1>1. CASE Watch(s)
  <2>1. NoneSpawned /\ UNCHANGED process /\ s \in due
    BY <1>1, NoProcessSteps DEF Watch
  <2>2. RecordsKept
    BY <1>1, <1>m, <2>1, RefreshStep DEF Watch
  <2>3. Alive(s) => ~Refreshed(s).exited
    BY <1>0, RefreshedType DEF ExecInv, RunningIsCovered
  <2>4. /\ monitor' \in [Session -> Monitor]
        /\ \A t \in Session : t # s => monitor'[t] = monitor[t]
        /\ monitor'[s] = "mark" \/ (monitor'[s] = "evict" /\ ~Alive(s)')
    BY <1>0, <1>1, <2>1, <2>3 DEF Watch, GotoMonitor, TypeOK, Monitor, Alive
  <2> QED
    BY <1>0, <1>c, <1>m, <2>1, <2>2, <2>4, Preserved DEF TypeOK
<1>2. CASE MonitorMarks(s)
  <2>1. NoneSpawned /\ UNCHANGED process /\ s \in due
    BY <1>2, NoProcessSteps DEF MonitorMarks, ExecInv, TimeoutsAreDue
  <2>2. RecordsKept /\ Blamed(s)'
    BY <1>2, <1>m, <2>1, MarkKeeps DEF MonitorMarks, Blamed
  <2>3. /\ monitor' \in [Session -> Monitor]
        /\ \A t \in Session : t # s => monitor'[t] = monitor[t]
        /\ monitor'[s] = "kill"
    BY <1>0, <1>2 DEF MonitorMarks, GotoMonitor, TypeOK, Monitor
  <2> QED
    BY <1>0, <1>c, <1>m, <2>1, <2>2, <2>3, Preserved DEF TypeOK
<1>3. CASE MonitorKills(s)
  <2>1. Blamed(s)
    BY <1>3 DEF MonitorKills, ExecInv, KillersGaveReason
  <2>2. /\ NoneSpawned /\ RecordsKept /\ ~Alive(s)'
        /\ process' \in [Session -> Process]
        /\ \A t \in Session : process'[t] = "killed" => t = s \/ process[t] = "killed"
    BY <1>3, <1>m, <2>1, KillKeeps DEF MonitorKills
  <2>3. /\ monitor' \in [Session -> Monitor]
        /\ \A t \in Session : t # s => monitor'[t] = monitor[t]
        /\ monitor'[s] = "evict"
    BY <1>0, <1>3 DEF MonitorKills, GotoMonitor, TypeOK, Monitor
  <2> QED
    BY <1>0, <1>c, <1>m, <2>1, <2>2, <2>3, Preserved DEF TypeOK
<1>4. CASE Evict(s)
  <2>1. NoneSpawned /\ UNCHANGED process /\ ~Alive(s)
    BY <1>4, NoProcessSteps DEF Evict, ExecInv, EndsHappened
  <2>2. RecordsKept
    BY <1>4, <1>m, <2>1, ForgetKeeps DEF Evict
  <2>3. /\ monitor' \in [Session -> Monitor]
        /\ \A t \in Session : t # s => monitor'[t] = monitor[t]
        /\ monitor'[s] = "done"
    BY <1>0, <1>4 DEF Evict, GotoMonitor, TypeOK, Monitor
  <2> QED
    BY <1>0, <1>c, <1>m, <2>1, <2>2, <2>3, Preserved DEF TypeOK
<1> QED
  BY <1>1, <1>2, <1>3, <1>4 DEF MonitorStep

\* The later calls: at most one record and one client change.
LEMMA ClientKept ==
    ASSUME ExecInv, NoneSpawned, RecordsKept, NEW k \in Client, NEW s \in Session, ~Unmade(s),
           UNCHANGED <<call, monitor, due, tty>>,
           process' \in [Session -> Process],
           \A t \in Session : process'[t] = "killed" => process[t] = "killed" \/ Blamed(t),
           NEW new \in Clients, new = Idle \/ new.s = s,
           client' \in {client, [client EXCEPT ![k] = new]},
           new.pc = "signal" => Blamed(s)'
    PROVE  ExecInv'
<1>0. TypeOK
  BY DEF ExecInv
<1>c. \A j \in Client : /\ client[j] = Idle \/ client[j].s \in Session
                        /\ client[j] # Idle => ~Unmade(client[j].s)
  BY <1>0 DEF ExecInv, TypeOK, HandledIsMade, Clients
<1>1. new.pc = "signal" => new # Idle /\ Blamed(s)'
  BY DEF Idle
<1>2. \A j \in Client : client'[j] = client[j] \/ client'[j] = new
  BY <1>0 DEF TypeOK
<1>3. client' \in [Client -> Clients]
  BY <1>0 DEF TypeOK
<1>4. ASSUME NEW j \in Client
      PROVE  /\ client'[j] = Idle \/ client'[j].s \in Session
             /\ client'[j] # Idle => ~Unmade(client'[j].s)
             /\ client'[j].pc = "signal" => client'[j] = client[j] \/ Blamed(client[j].s)'
  <2>1. CASE client'[j] = client[j]
    BY <1>c, <2>1
  <2>2. CASE client'[j] = new
    <3>1. client'[j].pc = "signal" => client'[j].s = s /\ Blamed(s)'
      BY <1>1, <2>2
    <3> QED BY <1>1, <2>2, <3>1 DEF Blamed
  <2> QED BY <1>2, <2>1, <2>2
<1> QED
  BY <1>0, <1>3, <1>4, Preserved DEF TypeOK

LEMMA ClientInvariant ==
    ASSUME ExecInv, NEW k \in Client,
           \/ ClientContinues(k) \/ Wrote(k)
           \/ \E s \in Session : Kill(k, s) \/ Poll(k, s)
    PROVE  ExecInv'
<1>0. /\ TypeOK /\ UNCHANGED <<call, monitor, due, tty>>
      /\ client \in [Client -> Clients]
  BY DEF ExecInv, TypeOK, ClientContinues, MarkKilled, Signal, StopWaiting, Settle, Wrote, Kill, Poll
<1>p. ASSUME UNCHANGED process
      PROVE  /\ NoneSpawned /\ process' \in [Session -> Process]
             /\ \A t \in Session : process'[t] = "killed" => process[t] = "killed" \/ Blamed(t)
  BY <1>0, <1>p, NoProcessSteps DEF TypeOK
<1>1. ASSUME NEW s \in Session, Kill(k, s) \/ Poll(k, s) PROVE ExecInv'
  <2>1. ~Unmade(s) /\ UNCHANGED process
    BY <1>1 DEF ExecInv, HandledIsMade, Kill, Poll, Known
  <2>2. RecordsKept
    <3>1. CASE Refresh(s)
      BY <1>p, <2>1, <3>1, RefreshStep
    <3>2. CASE UNCHANGED record
      BY <1>p, <2>1, <3>2, SameRecords
    <3>3. CASE /\ Refreshed(s).exited
               /\ record' = [record EXCEPT ![s] = [Refreshed(s) EXCEPT !.stored = FALSE]]
      <4>1. [Refreshed(s) EXCEPT !.stored = @ /\ FALSE] = [Refreshed(s) EXCEPT !.stored = FALSE]
        OBVIOUS
      <4> QED BY <1>p, <2>1, <3>3, <4>1, RefreshKeeps
    <3> QED BY <1>1, <3>1, <3>2, <3>3 DEF Kill, Poll
  <2>3. PICK new \in Clients : /\ new.s = s /\ new.pc # "signal"
                               /\ client' \in {client, [client EXCEPT ![k] = new]}
    <3>1. PICK pc \in {"kill", "write"} :
             client' \in {client, [client EXCEPT ![k] = [pc |-> pc, s |-> s]]}
      BY <1>1 DEF Kill, Poll
    <3>2. [pc |-> pc, s |-> s] \in Clients
      BY DEF Clients, ClientStep
    <3> QED BY <3>1, <3>2
  <2> QED
    BY <1>0, <1>p, <2>1, <2>2, <2>3, ClientKept
<1>2. ASSUME client[k].pc \in ClientStep
      PROVE  /\ client[k].s \in Session /\ ~Unmade(client[k].s)
             /\ \A pc \in ClientStep :
                  [client[k] EXCEPT !.pc = pc] = [pc |-> pc, s |-> client[k].s]
  <2>1. client[k] \in [pc : ClientStep, s : Session] /\ client[k] # Idle
    BY <1>0, <1>2 DEF Clients, Idle, ClientStep
  <2> QED BY <2>1 DEF ExecInv, HandledIsMade
<1>3. CASE MarkKilled(k)
  <2>0. PICK s \in Session : s = client[k].s
    BY <1>2, <1>3 DEF MarkKilled, ClientStep
  <2>1. ~Unmade(s) /\ UNCHANGED process /\ NoneSpawned
    BY <1>2, <1>3, <1>p, <2>0 DEF MarkKilled, ClientStep
  <2>2. PICK new \in Clients : new.s = s /\ client' = [client EXCEPT ![k] = new]
    BY <1>2, <1>3, <2>0 DEF MarkKilled, Goto, ClientStep, Clients
  <2>3. MarkReason(s, "killed")
    BY <1>3, <2>0 DEF MarkKilled
  <2>4. RecordsKept /\ Blamed(s)'
    BY <2>1, <2>3, MarkKeeps DEF Blamed
  <2> QED
    BY <1>0, <1>p, <2>1, <2>2, <2>4, ClientKept
<1>4. CASE Signal(k)
  <2>0. PICK s \in Session : s = client[k].s
    BY <1>2, <1>4 DEF Signal, ClientStep
  <2>1. ~Unmade(s) /\ Blamed(s)
    BY <1>2, <1>4, <2>0 DEF Signal, ClientStep, ExecInv, KillersGaveReason
  <2>2. PICK new \in Clients : /\ new.s = s /\ new.pc # "signal"
                               /\ client' = [client EXCEPT ![k] = new]
    BY <1>2, <1>4, <2>0 DEF Signal, Goto, ClientStep, Clients
  <2>3. process' \in {process, [process EXCEPT ![s] = IF Alive(s) THEN "killed" ELSE @]}
    BY <1>4, <2>0 DEF Signal
  <2>4. /\ NoneSpawned /\ process' \in [Session -> Process]
        /\ \A t \in Session : process'[t] = "killed" => process[t] = "killed" \/ Blamed(t)
    BY <1>0, <2>1, <2>3 DEF TypeOK, NoneSpawned, Alive, Unmade, Process
  <2>5. RecordsKept
    BY <1>4, <2>4, SameRecords DEF Signal
  <2> QED
    BY <1>0, <2>1, <2>2, <2>4, <2>5, ClientKept
<1>5. CASE StopWaiting(k)
  <2>0. PICK s \in Session : s = client[k].s
    BY <1>2, <1>5 DEF StopWaiting, ClientStep
  <2>1. ~Unmade(s) /\ UNCHANGED process
    BY <1>2, <1>5, <2>0 DEF StopWaiting, ClientStep
  <2>2. PICK new \in Clients : /\ new.s = s /\ new.pc # "signal"
                               /\ client' = [client EXCEPT ![k] = new]
    BY <1>2, <1>5, <2>0 DEF StopWaiting, Goto, ClientStep, Clients
  <2>3. RecordsKept
    BY <1>5, <1>p, <2>1, SameRecords DEF StopWaiting
  <2> QED
    BY <1>0, <1>p, <2>1, <2>2, <2>3, ClientKept
<1>6. CASE Settle(k) \/ Wrote(k)
  <2>0. PICK s \in Session : s = client[k].s
    BY <1>2, <1>6 DEF Settle, Wrote, ClientStep
  <2>1. ~Unmade(s) /\ UNCHANGED process
    BY <1>2, <1>6, <2>0 DEF Settle, Wrote, ClientStep
  <2>2. /\ client' = [client EXCEPT ![k] = Idle]
        /\ Idle \in Clients /\ Idle.pc # "signal"
    BY <1>6 DEF Settle, Wrote, Return, Clients, Idle
  <2>3. RecordsKept
    <3>1. CASE Refresh(s)
      BY <1>p, <2>1, <3>1, RefreshStep
    <3>2. CASE UNCHANGED record
      BY <1>p, <2>1, <3>2, SameRecords
    <3>3. CASE record' = [record EXCEPT ![s] =
                             [Refreshed(s) EXCEPT !.stored = @ /\ ~Refreshed(s).exited]]
      <4>1. Refreshed(s).exited \in BOOLEAN
        BY <1>0, <2>1, RefreshedType DEF Record
      <4>2. CASE Refreshed(s).exited
        BY <1>p, <2>1, <3>3, <4>1, <4>2, RefreshKeeps
      <4>3. CASE ~Refreshed(s).exited
        BY <1>p, <2>1, <3>3, <4>1, <4>3, RefreshKeeps
      <4> QED BY <4>2, <4>3
    <3> QED BY <1>6, <2>0, <3>1, <3>2, <3>3 DEF Settle, Wrote
  <2> QED
    BY <1>0, <1>p, <2>1, <2>2, <2>3, ClientKept
<1> QED
  BY <1>1, <1>3, <1>4, <1>5, <1>6 DEF ClientContinues

\* A spawn and what happens by itself.
LEMMA SpawnInvariant == ASSUME ExecInv, NEW s \in Session, Spawn(s) PROVE ExecInv'
<1>0. /\ TypeOK /\ call[s] = "none" /\ Unmade(s) /\ record[s] = NoRecord
      /\ monitor[s] = "off" /\ UNCHANGED <<due, client>>
  BY DEF ExecInv, Spawn, HandledIsMade
<1>1. /\ process' \in [Session -> Process] /\ record' \in [Session -> Record]
      /\ call' \in [Session -> Call] /\ monitor' \in [Session -> Monitor]
      /\ tty' \subseteq Session
  <2>1. process' \in [Session -> Process] /\ tty' \subseteq Session
    BY <1>0 DEF Spawn, TypeOK, Process
  <2>2. record' \in [Session -> Record]
    BY <1>0 DEF Spawn, TypeOK, Record
  <2>3. call' \in [Session -> Call] /\ monitor' \in [Session -> Monitor]
    BY <1>0 DEF Spawn, TypeOK, GotoCall, GotoMonitor, Call, Monitor
  <2> QED BY <2>1, <2>2, <2>3
<1>2. /\ \A t \in Session : t # s => /\ process'[t] = process[t] /\ record'[t] = record[t]
                                    /\ call'[t] = call[t] /\ monitor'[t] = monitor[t]
      /\ process'[s] = "running" /\ call'[s] \in {"kept", "loop", "input"}
      /\ monitor'[s] \in {"off", "armed"}
  BY <1>0 DEF Spawn, TypeOK, GotoCall, GotoMonitor
<1>3. /\ record'[s].guard /\ record'[s].stored
      /\ ~record'[s].exited /\ record'[s].reason = "none"
  BY <1>0 DEF Spawn, TypeOK, Record, NoRecord
<1>4. \A k \in Client : client[k] # Idle => client[k].s \in Session \ {s}
  BY <1>0 DEF ExecInv, HandledIsMade, TypeOK, Clients
<1>5. TypeOK'
  BY <1>0, <1>1 DEF TypeOK
<1>6. HandledIsMade'
  <2>1. \A t \in Session : /\ Unmade(t)' <=> call'[t] \in {"none", "refused"}
                           /\ Unmade(t)' => record'[t] = NoRecord /\ monitor'[t] = "off"
    BY <1>2 DEF ExecInv, HandledIsMade, Unmade
  <2>2. ASSUME NEW k \in Client, client'[k] # Idle PROVE ~Unmade(client[k].s)'
    BY <1>0, <1>2, <1>4, <2>2 DEF ExecInv, HandledIsMade, Unmade
  <2> QED BY <2>1, <2>2 DEF HandledIsMade, Unmade
<1>7. RunningIsCovered' /\ EndsHappened'
  BY <1>2, <1>3 DEF ExecInv, RunningIsCovered, EndsHappened, Alive
<1>8. KillersGaveReason'
  <2>1. ASSUME NEW t \in Session
        PROVE  /\ call'[t] = "kill" => Blamed(t)'
               /\ monitor'[t] = "kill" => Blamed(t)'
               /\ process'[t] = "killed" => Blamed(t)'
    BY <1>2 DEF ExecInv, KillersGaveReason, Blamed
  <2>2. ASSUME NEW k \in Client, client'[k].pc = "signal" PROVE Blamed(client[k].s)'
    <3>1. client[k] # Idle /\ client'[k] = client[k]
      BY <1>0, <2>2 DEF Idle
    <3> QED BY <1>2, <1>4, <2>2, <3>1 DEF ExecInv, KillersGaveReason, Blamed
  <2> QED BY <2>1, <2>2 DEF KillersGaveReason, Blamed
<1>9. TimeoutsAreDue'
  BY <1>0, <1>2, <1>3 DEF ExecInv, TimeoutsAreDue
<1> QED
  BY <1>5, <1>6, <1>7, <1>8, <1>9 DEF ExecInv

LEMMA EnvironmentInvariant ==
    ASSUME ExecInv, NEW s \in Session, ProcessEnds(s) \/ Deadline(s)
    PROVE  ExecInv'
<1>0. /\ TypeOK /\ UNCHANGED <<record, call, monitor, tty, client>>
      /\ due \subseteq due' /\ due' \subseteq Session
  BY DEF ExecInv, TypeOK, ProcessEnds, Deadline
<1>1. /\ NoneSpawned /\ process' \in [Session -> Process]
      /\ \A t \in Session : process'[t] = "killed" => process[t] = "killed"
  BY <1>0 DEF TypeOK, NoneSpawned, Unmade, Alive, ProcessEnds, Deadline, Process
<1>2. RecordsKept
  BY <1>0, <1>1, SameRecords
<1>c. \A k \in Client : /\ client[k] = Idle \/ client[k].s \in Session
                        /\ client[k] # Idle => ~Unmade(client[k].s)
  BY <1>0 DEF ExecInv, TypeOK, HandledIsMade, Clients
<1> QED
  BY <1>0, <1>1, <1>2, <1>c, Preserved DEF TypeOK

LEMMA ExecStepInvariant == ExecInv /\ [Next]_vars => ExecInv'
<1> SUFFICES ASSUME ExecInv, [Next]_vars PROVE ExecInv'
  OBVIOUS
<1>1. CASE UNCHANGED vars
  BY <1>1 DEF vars, ExecInv, TypeOK, HandledIsMade, RunningIsCovered, EndsHappened,
              KillersGaveReason, TimeoutsAreDue, Unmade, Alive, Blamed
<1>2. CASE Next
  BY <1>2, CallInvariant, MonitorInvariant, ClientInvariant, SpawnInvariant,
     EnvironmentInvariant DEF Next
<1> QED BY <1>1, <1>2

LEMMA ExecInvariance == Spec => []ExecInv
BY ExecInitInvariant, ExecStepInvariant, PTL DEF Spec

-----------------------------------------------------------------------------
(* The theorems                                                            *)

\* The state of sessions, monitors and calls is well typed.
THEOREM ExecTypeCorrect == Spec => []TypeOK
<1>1. ExecInv => TypeOK
  BY DEF ExecInv
<1> QED BY <1>1, ExecInvariance, PTL

\* A running command holds the guard that keeps its workspace busy, and is in
\* the table, whichever of the call, the monitor, the eviction and the clients
\* sees its end or removes sessions (tools/exec.rs, tools/session.rs).
THEOREM RunningStaysCovered == Spec => []RunningIsCovered
<1>1. ExecInv => RunningIsCovered
  BY DEF ExecInv
<1> QED BY <1>1, ExecInvariance, PTL

\* The reasons for an end are true, although the monitor and several calls to
\* kill_session may mark one session.
THEOREM ReasonsAreTrue == Spec => []ReasonIsTrue
<1>1. ASSUME ExecInv, NEW s \in Session, record[s].exited
      PROVE  /\ record[s].reason = "exited" => process[s] = "ended"
             /\ record[s].reason = "timeout" => s \in due
  <2>1. ~Alive(s) /\ ~Unmade(s)
    BY <1>1 DEF ExecInv, RunningIsCovered, HandledIsMade, NoRecord
  <2>2. record[s].reason = "exited" => process[s] # "killed"
    BY <1>1 DEF ExecInv, KillersGaveReason, Blamed
  <2> QED
    BY <1>1, <2>1, <2>2 DEF ExecInv, TypeOK, Process, Alive, Unmade, TimeoutsAreDue
<1>2. ExecInv => ReasonIsTrue
  BY <1>1 DEF ReasonIsTrue
<1> QED BY <1>2, ExecInvariance, PTL

-----------------------------------------------------------------------------
(* FrpClient                                                               *)

\* The application is a single instance, and the marks are no members.
Sole == /\ \A i, j \in Instance : i = j
        /\ NoPid \notin Pid
        /\ Free \notin Instance /\ Dead \notin Instance

\* The process an instance started is the recorded one, from the record on
\* and until it was killed.
ChildIsRecorded ==
    \A i \in Instance : /\ app[i].child # NoPid /\ app[i].pc # "record" => recorded = app[i].child
                        /\ app[i].pc \in {"record", "ready"} => app[i].child # NoPid
                        /\ app[i].pc \in {"clear", "recorded", "spawn", "failed"} =>
                             app[i].child = NoPid

\* Where the record is taken away or replaced, nothing runs; where it is still
\* to be written, only the new process does; and elsewhere only what it names.
GoneBeforeForgotten ==
    /\ \A i \in Instance : /\ app[i].pc \in {"clear", "spawn", "failed"} => live = {}
                           /\ app[i].pc = "record" => live \subseteq {app[i].child}
    /\ (\A i \in Instance : app[i].pc # "record") => live \subseteq {recorded}

FrpInv == FrpTypeOK /\ (slipped \/ (ChildIsRecorded /\ GoneBeforeForgotten))

-----------------------------------------------------------------------------
LEMMA FrpInitHolds == ASSUME Sole, FrpInit PROVE FrpInv
BY DEF Sole, FrpInit, FrpInv, FrpTypeOK, ChildIsRecorded, GoneBeforeForgotten, Apps, Steps, Started

\* What the steps that change more than the place of an instance make of it.
LEMMA Goneto == ASSUME NEW a \in Apps, NEW pc \in Steps
                PROVE  LET b == [a EXCEPT !.pc = pc]
                       IN  b \in Apps /\ b.pc = pc /\ b.child = a.child
BY DEF Apps, Steps

LEMMA Late == ASSUME NEW a \in Apps
              PROVE  LET b == [a EXCEPT !.late = TRUE]
                     IN  b \in Apps /\ b.pc = a.pc /\ b.child = a.child
BY DEF Apps, Steps

LEMMA Anew == ASSUME NEW u \in BOOLEAN
              PROVE  LET b == [Started EXCEPT !.up = u]
                     IN  b \in Apps /\ b.pc = "idle" /\ b.child = NoPid
BY DEF Apps, Steps, Started

\* What a step of the instance i may make of the process it knows and of its
\* place: the rest of the state is of its type, and nothing has got away.
Becomes(i, pc, p) == /\ app' \in [Instance -> Apps]
                     /\ app'[i].pc = pc /\ app'[i].child = p

LEMMA AppGoes == ASSUME FrpTypeOK, NEW i \in Instance, NEW pc \in Steps, FrpGoto(i, pc)
                 PROVE  Becomes(i, pc, app[i].child)
<1>1. app \in [Instance -> Apps] /\ app[i] \in Apps
  BY DEF FrpTypeOK
<1>2. app' = [app EXCEPT ![i] = [app[i] EXCEPT !.pc = pc]]
  BY DEF FrpGoto
<1>3. app'[i] = [app[i] EXCEPT !.pc = pc]
  BY <1>1, <1>2
<1> QED BY <1>1, <1>2, <1>3, Goneto DEF Becomes

LEMMA AppMoves == ASSUME FrpTypeOK, NEW i \in Instance, NEW pc \in Steps, NEW p \in Pid \cup {NoPid},
                         app' = [app EXCEPT ![i].child = p, ![i].pc = pc]
                  PROVE  Becomes(i, pc, p)
<1>1. app \in [Instance -> Apps] /\ app[i] \in Apps
  BY DEF FrpTypeOK
<1>2. app' = [app EXCEPT ![i] = [app[i] EXCEPT !.child = p, !.pc = pc]]
  OBVIOUS
<1>3. app'[i] = [app[i] EXCEPT !.child = p, !.pc = pc]
  BY <1>1, <1>2
<1>4. app'[i] \in Apps /\ app'[i].pc = pc /\ app'[i].child = p
  BY <1>1, <1>3 DEF Apps
<1> QED BY <1>1, <1>2, <1>4 DEF Becomes

LEMMA AppBegins == ASSUME FrpTypeOK, NEW i \in Instance, NEW w \in BOOLEAN,
                          app' = [app EXCEPT ![i].pc = "lock", ![i].wanted = w, ![i].late = FALSE]
                   PROVE  Becomes(i, "lock", app[i].child)
<1>1. app \in [Instance -> Apps] /\ app[i] \in Apps
  BY DEF FrpTypeOK
<1>2. app' = [app EXCEPT ![i] = [app[i] EXCEPT !.pc = "lock", !.wanted = w, !.late = FALSE]]
  OBVIOUS
<1>3. app'[i] = [app[i] EXCEPT !.pc = "lock", !.wanted = w, !.late = FALSE]
  BY <1>1, <1>2
<1>4. app'[i] \in Apps /\ app'[i].pc = "lock" /\ app'[i].child = app[i].child
  BY <1>1, <1>3 DEF Apps, Steps
<1> QED BY <1>1, <1>2, <1>4 DEF Becomes

LEMMA AppIsLate == ASSUME FrpTypeOK, NEW i \in Instance, app' = [app EXCEPT ![i].late = TRUE]
                   PROVE  Becomes(i, app[i].pc, app[i].child)
<1>1. app \in [Instance -> Apps] /\ app[i] \in Apps
  BY DEF FrpTypeOK
<1>2. app' = [app EXCEPT ![i] = [app[i] EXCEPT !.late = TRUE]]
  OBVIOUS
<1>3. app'[i] = [app[i] EXCEPT !.late = TRUE]
  BY <1>1, <1>2
<1> QED BY <1>1, <1>2, <1>3, Late DEF Becomes

LEMMA AppIsNew == ASSUME FrpTypeOK, NEW i \in Instance, Crash(i) \/ Restart(i)
                  PROVE  Becomes(i, "idle", NoPid)
<1>1. app \in [Instance -> Apps]
  BY DEF FrpTypeOK
<1>2. PICK a \in Apps : a.pc = "idle" /\ a.child = NoPid /\ app' = [app EXCEPT ![i] = a]
  <2>1. [Started EXCEPT !.up = FALSE] \in Apps /\ Started \in Apps
    BY DEF Started, Apps, Steps
  <2> QED BY <2>1 DEF Crash, Restart, Started
<1> QED BY <1>1, <1>2 DEF Becomes

\* An instance that is down does nothing.
DownIsIdle == \A i \in Instance : ~app[i].up => app[i].pc = "idle"

LEMMA DownStays == ASSUME FrpTypeOK, DownIsIdle, [FrpNext]_frpVars PROVE DownIsIdle'
<1> USE DEF FrpTypeOK, DownIsIdle, Apps, At, FrpGoto
<1>1. CASE UNCHANGED frpVars
  BY <1>1 DEF frpVars
<1>2. ASSUME NEW p \in Pid, FrpcDies(p) PROVE DownIsIdle'
  BY <1>2 DEF FrpcDies
<1>3. ASSUME NEW i \in Instance,
             \/ Begin(i) \/ TakeLock(i) \/ SeeStaleLock(i) \/ Unlink(i) \/ GiveUpLock(i) \/ Release(i)
      PROVE  DownIsIdle'
  <2>1. app[i].up /\ \A j \in Instance : app'[j].up = app[j].up /\ (j # i => app'[j] = app[j])
    <3>1. CASE Begin(i)
      <4>1. PICK w \in BOOLEAN :
              app' = [app EXCEPT ![i].pc = "lock", ![i].wanted = w, ![i].late = FALSE]
        BY <3>1, Zenon DEF Begin
      <4> QED BY <3>1, <4>1 DEF Begin
    <3>2. CASE TakeLock(i) \/ SeeStaleLock(i) \/ Unlink(i) \/ GiveUpLock(i) \/ Release(i)
      BY <3>2 DEF TakeLock, SeeStaleLock, Unlink, GiveUpLock, Release
    <3> QED BY <1>3, <3>1, <3>2
  <2> QED BY <2>1
<1>4. ASSUME NEW i \in Instance, StopOwn(i) \/ ClearRecord(i) \/ StopRecorded(i) PROVE DownIsIdle'
  BY <1>4 DEF StopOwn, ClearRecord, StopRecorded
<1>5. ASSUME NEW i \in Instance, SpawnFrpc(i) \/ RecordPid(i) \/ Ready(i) \/ ReadyFailed(i)
      PROVE  DownIsIdle'
  <2>1. app[i].up /\ \A j \in Instance : app'[j].up = app[j].up /\ (j # i => app'[j] = app[j])
    <3>1. CASE SpawnFrpc(i)
      BY <3>1 DEF SpawnFrpc
    <3>2. CASE RecordPid(i)
      BY <3>2 DEF RecordPid
    <3>3. CASE Ready(i) \/ ReadyFailed(i)
      BY <3>3 DEF Ready, ReadyFailed
    <3> QED BY <1>5, <3>1, <3>2, <3>3
  <2> QED BY <2>1
<1>6. ASSUME NEW i \in Instance, Crash(i) \/ Restart(i) \/ FrpDeadline(i) PROVE DownIsIdle'
  BY <1>6 DEF Crash, Restart, FrpDeadline, Started
<1> QED BY <1>1, <1>2, <1>3, <1>4, <1>5, <1>6 DEF FrpNext, Operation

\* A step of the only instance, seen from the invariant.
LEMMA SoleMoves ==
    ASSUME Sole, FrpInv, NEW i \in Instance, NEW pc, NEW p, Becomes(i, pc, p),
           live' \subseteq Pid, recorded' \in Pid \cup {NoPid}, lock' \in Instance \cup {Free, Dead},
           slipped' \in BOOLEAN, slipped => slipped',
           ~slipped /\ ~slipped' =>
             /\ p # NoPid /\ pc # "record" => recorded' = p
             /\ pc \in {"record", "ready"} => p # NoPid
             /\ pc \in {"clear", "recorded", "spawn", "failed"} => p = NoPid
             /\ pc \in {"clear", "spawn", "failed"} => live' = {}
             /\ pc = "record" => live' \subseteq {p}
             /\ pc # "record" => live' \subseteq {recorded'}
    PROVE  FrpInv'
<1>1. \A j \in Instance : j = i
  BY DEF Sole
<1>2. FrpTypeOK'
  BY DEF FrpTypeOK, Becomes
<1>3. ASSUME ~slipped' PROVE (ChildIsRecorded /\ GoneBeforeForgotten)'
  BY <1>1, <1>3 DEF Becomes, ChildIsRecorded, GoneBeforeForgotten
<1> QED BY <1>2, <1>3 DEF FrpInv

\* What holds of the only instance before a step.
LEMMA SoleIs ==
    ASSUME Sole, FrpInv, NEW i \in Instance
    PROVE  /\ live \subseteq Pid /\ recorded \in Pid \cup {NoPid} /\ lock \in Instance \cup {Free, Dead}
           /\ slipped \in BOOLEAN /\ app[i].child \in Pid \cup {NoPid} /\ app[i].pc \in Steps
           /\ ~slipped =>
                /\ app[i].child # NoPid /\ app[i].pc # "record" => recorded = app[i].child
                /\ app[i].pc \in {"record", "ready"} => app[i].child # NoPid
                /\ app[i].pc \in {"clear", "recorded", "spawn", "failed"} => app[i].child = NoPid
                /\ app[i].pc \in {"clear", "spawn", "failed"} => live = {}
                /\ app[i].pc = "record" => live \subseteq {app[i].child}
                /\ app[i].pc # "record" => live \subseteq {recorded}
<1>1. FrpTypeOK /\ \A j \in Instance : j = i
  BY DEF Sole, FrpInv
<1>2. /\ live \subseteq Pid /\ recorded \in Pid \cup {NoPid} /\ lock \in Instance \cup {Free, Dead}
      /\ slipped \in BOOLEAN /\ app[i].child \in Pid \cup {NoPid} /\ app[i].pc \in Steps
  BY <1>1 DEF FrpTypeOK, Apps
<1> QED BY <1>1, <1>2 DEF FrpInv, ChildIsRecorded, GoneBeforeForgotten

LEMMA FrpStepHolds == ASSUME Sole, FrpInv, DownIsIdle, [FrpNext]_frpVars PROVE FrpInv'
<1>0. /\ FrpTypeOK /\ NoPid \notin Pid
      /\ {"lock", "own", "unlink", "idle", "recorded", "clear", "release", "spawn", "record", "ready",
          "failed"} \subseteq Steps
  BY DEF FrpInv, Sole, Steps
<1>1. CASE UNCHANGED frpVars
  BY <1>1 DEF frpVars, FrpInv, FrpTypeOK, ChildIsRecorded, GoneBeforeForgotten
<1>2. ASSUME NEW p \in Pid, FrpcDies(p) PROVE FrpInv'
  BY <1>2 DEF FrpcDies, FrpInv, FrpTypeOK, ChildIsRecorded, GoneBeforeForgotten
<1>3. ASSUME NEW i \in Instance, Begin(i) PROVE FrpInv'
  <2>1. UNCHANGED <<live, recorded, lock, slipped>> /\ app[i].pc = "idle"
    BY <1>3 DEF Begin, At
  <2>2. Becomes(i, "lock", app[i].child)
    <3>1. PICK w \in BOOLEAN :
            app' = [app EXCEPT ![i].pc = "lock", ![i].wanted = w, ![i].late = FALSE]
      BY <1>3, Zenon DEF Begin
    <3> QED BY <1>0, <3>1, AppBegins, Zenon
  <2> QED BY <2>1, <2>2, SoleIs, SoleMoves
<1>4. ASSUME NEW i \in Instance, FrpDeadline(i) PROVE FrpInv'
  <2>1. UNCHANGED <<live, recorded, lock, slipped>>
    BY <1>4 DEF FrpDeadline
  <2>2. Becomes(i, app[i].pc, app[i].child)
    BY <1>0, <1>4, AppIsLate DEF FrpDeadline
  <2> QED BY <2>1, <2>2, SoleIs, SoleMoves
<1>5. ASSUME NEW i \in Instance,
             TakeLock(i) \/ SeeStaleLock(i) \/ Unlink(i) \/ GiveUpLock(i) \/ Release(i)
      PROVE  FrpInv'
  <2>1. UNCHANGED <<live, recorded, slipped>> /\ lock' \in {lock, i, Free}
    BY <1>5 DEF TakeLock, SeeStaleLock, Unlink, GiveUpLock, Release
  <2>2. app[i].pc \in {"lock", "unlink", "release"}
    BY <1>5 DEF TakeLock, SeeStaleLock, Unlink, GiveUpLock, Release, At
  <2>3. PICK pc \in {"own", "unlink", "lock", "idle"} : FrpGoto(i, pc)
    BY <1>5 DEF TakeLock, SeeStaleLock, Unlink, GiveUpLock, Release
  <2>4. Becomes(i, pc, app[i].child)
    BY <1>0, <2>3, AppGoes
  <2> QED BY <2>1, <2>2, <2>4, SoleIs, SoleMoves
<1>6. ASSUME NEW i \in Instance, StopOwn(i) PROVE FrpInv'
  <2>1. UNCHANGED <<recorded, lock, slipped>> /\ app[i].pc = "own"
    BY <1>6 DEF StopOwn, At
  <2>2. PICK pc \in {"recorded", "clear", "release"} :
          /\ app' = [app EXCEPT ![i].child = NoPid, ![i].pc = pc]
          /\ \/ pc = "recorded" /\ app[i].child = NoPid
             \/ pc = "clear" /\ app[i].child # NoPid
             \/ pc = "release"
          /\ live' = live \/ (live' = live \ {app[i].child})
          /\ pc # "release" => live' = live \ {app[i].child}
    BY <1>6 DEF StopOwn
  <2>3. Becomes(i, pc, NoPid)
    BY <1>0, <2>2, AppMoves
  <2> QED BY <1>0, <2>1, <2>2, <2>3, SoleIs, SoleMoves
<1>7. ASSUME NEW i \in Instance, ClearRecord(i) PROVE FrpInv'
  <2>1. UNCHANGED <<live, lock, slipped>> /\ recorded' = NoPid /\ app[i].pc = "clear"
    BY <1>7 DEF ClearRecord, At
  <2>2. Becomes(i, "recorded", app[i].child)
    BY <1>0, <1>7, AppGoes DEF ClearRecord
  <2> QED BY <2>1, <2>2, SoleIs, SoleMoves
<1>8. ASSUME NEW i \in Instance, StopRecorded(i) PROVE FrpInv'
  <2>1. UNCHANGED <<recorded, lock>> /\ app[i].pc = "recorded"
    BY <1>8 DEF StopRecorded, At
  <2>2. PICK pc \in {"clear", "release", "spawn"} :
          /\ FrpGoto(i, pc)
          /\ \/ pc = "clear" /\ live' = live \ {recorded} /\ slipped' = slipped
             \/ pc = "clear" /\ live' = live /\ slipped' = (slipped \/ recorded \in live')
             \/ pc = "release" /\ live' = live /\ slipped' = slipped
             \/ pc = "spawn" /\ recorded = NoPid /\ live' = live /\ slipped' = slipped
    BY <1>8 DEF StopRecorded, Slips, Holds
  <2>3. Becomes(i, pc, app[i].child)
    BY <1>0, <2>2, AppGoes
  <2>4. /\ slipped' \in BOOLEAN /\ (slipped => slipped')
        /\ ~slipped' => pc = "release" \/ live' = live \ {recorded} \/ recorded \notin live'
                        \/ recorded = NoPid
    <3>1. slipped \in BOOLEAN
      BY SoleIs
    <3>2. slipped' = slipped \/ slipped' = (slipped \/ recorded \in live')
      BY <2>2, Zenon
    <3>3. slipped' \in BOOLEAN /\ (slipped => slipped')
      BY <3>1, <3>2, Zenon
    <3>4. CASE pc = "clear" /\ live' = live /\ slipped' = (slipped \/ recorded \in live')
      BY <3>4, Zenon
    <3>5. CASE (live' = live \ {recorded}) \/ pc = "release" \/ recorded = NoPid
      BY <3>3, <3>5
    <3> QED BY <2>2, <3>3, <3>4, <3>5, Zenon
  <2>5. live' \subseteq live
    BY <2>2
  <2> QED BY <1>0, <2>1, <2>2, <2>3, <2>4, <2>5, SoleIs, SoleMoves
<1>9. ASSUME NEW i \in Instance, SpawnFrpc(i) PROVE FrpInv'
  <2>1. UNCHANGED <<recorded, lock, slipped>> /\ app[i].pc = "spawn"
    BY <1>9 DEF SpawnFrpc, At
  <2>2. CASE FrpGoto(i, "release") /\ UNCHANGED live
    <3>1. Becomes(i, "release", app[i].child)
      BY <1>0, <2>2, AppGoes
    <3> QED BY <2>1, <2>2, <3>1, SoleIs, SoleMoves
  <2>3. ASSUME NEW p \in Pid, live' = live \cup {p},
               app' = [app EXCEPT ![i].child = p, ![i].pc = "record"]
        PROVE  FrpInv'
    <3>1. Becomes(i, "record", p)
      BY <1>0, <2>3, AppMoves
    <3> QED BY <1>0, <2>1, <2>3, <3>1, SoleIs, SoleMoves
  <2> QED BY <1>9, <2>2, <2>3 DEF SpawnFrpc
<1>10. ASSUME NEW i \in Instance, RecordPid(i) \/ Ready(i) PROVE FrpInv'
  <2>1. UNCHANGED lock /\ app[i].pc \in {"record", "ready"}
    BY <1>10 DEF RecordPid, Ready, At
  <2>2. CASE \E pc \in {"ready", "release"} :
               /\ FrpGoto(i, pc) /\ UNCHANGED <<live, slipped>>
               /\ recorded' = app[i].child \/ (app[i].pc = "ready" /\ recorded' = recorded)
    <3>1. PICK pc \in {"ready", "release"} :
               /\ FrpGoto(i, pc) /\ UNCHANGED <<live, slipped>>
               /\ recorded' = app[i].child \/ (app[i].pc = "ready" /\ recorded' = recorded)
      BY <2>2
    <3>2. Becomes(i, pc, app[i].child)
      BY <1>0, <3>1, AppGoes
    <3> QED BY <2>1, <3>1, <3>2, SoleIs, SoleMoves
  <2>3. CASE \E pc \in {"failed", "release"} :
               /\ app' = [app EXCEPT ![i].child = NoPid, ![i].pc = pc]
               /\ StopChild(i) /\ recorded' \in {recorded, NoPid}
               /\ pc = "release" => app[i].pc = "record"
    <3>1. PICK pc \in {"failed", "release"} :
               /\ app' = [app EXCEPT ![i].child = NoPid, ![i].pc = pc]
               /\ StopChild(i) /\ recorded' \in {recorded, NoPid}
               /\ pc = "release" => app[i].pc = "record"
      BY <2>3
    <3>2. Becomes(i, pc, NoPid)
      BY <1>0, <3>1, AppMoves
    <3>3. /\ live' \subseteq live /\ slipped' \in BOOLEAN /\ (slipped => slipped')
          /\ ~slipped' => live' \subseteq live \ {app[i].child}
      BY <3>1, SoleIs DEF StopChild, Slips
    <3>4. ~slipped /\ ~slipped' => live' = {}
      BY <2>1, <3>3, SoleIs
    <3> QED BY <2>1, <3>1, <3>2, <3>3, <3>4, SoleIs, SoleMoves
  <2> QED BY <1>10, <2>2, <2>3 DEF RecordPid, Ready, Holds, At
<1>11. ASSUME NEW i \in Instance, ReadyFailed(i) PROVE FrpInv'
  <2>1. UNCHANGED <<live, lock, slipped>> /\ recorded' = NoPid /\ app[i].pc = "failed"
    BY <1>11 DEF ReadyFailed, At
  <2>2. PICK pc \in {"release", "spawn"} : FrpGoto(i, pc)
    BY <1>11 DEF ReadyFailed
  <2>3. Becomes(i, pc, app[i].child)
    BY <1>0, <2>2, AppGoes
  <2> QED BY <2>1, <2>2, <2>3, SoleIs, SoleMoves
<1>12. ASSUME NEW i \in Instance, Crash(i) \/ Restart(i) PROVE FrpInv'
  <2>1. UNCHANGED <<live, recorded>> /\ lock' \in {lock, Dead}
    BY <1>12 DEF Crash, Restart
  <2>2. /\ slipped' \in BOOLEAN /\ (slipped => slipped')
        /\ ~slipped' => app[i].pc # "record" \/ app[i].child \notin live
    <3>1. slipped \in BOOLEAN
      BY SoleIs
    <3>2. CASE Restart(i)
      BY <3>1, <3>2, Zenon DEF Restart, DownIsIdle
    <3>3. CASE Crash(i)
      <4>1. live' = live
        BY <3>3 DEF Crash
      <4>2. IF app[i].pc = "record" THEN slipped' = (slipped \/ app[i].child \in live')
                                    ELSE slipped' = slipped
        BY <3>3 DEF Crash, Slips, Holds
      <4> QED BY <3>1, <4>1, <4>2, Zenon
    <3> QED BY <1>12, <3>2, <3>3
  <2>3. Becomes(i, "idle", NoPid)
    BY <1>0, <1>12, AppIsNew
  <2> QED BY <1>0, <2>1, <2>2, <2>3, SoleIs, SoleMoves
<1> QED BY <1>1, <1>2, <1>3, <1>4, <1>5, <1>6, <1>7, <1>8, <1>9, <1>10, <1>11, <1>12
        DEF FrpNext, Operation

LEMMA FrpInvariance == ASSUME Sole PROVE FrpSpec => []FrpInv
<1>1. FrpInit => FrpInv /\ DownIsIdle
  <2>1. FrpInit => DownIsIdle
    BY DEF FrpInit, DownIsIdle, Started
  <2> QED BY <2>1, FrpInitHolds
<1>2. FrpInv /\ DownIsIdle /\ [FrpNext]_frpVars => FrpInv' /\ DownIsIdle'
  BY FrpStepHolds, DownStays DEF FrpInv
<1> QED BY <1>1, <1>2, PTL DEF FrpSpec

-----------------------------------------------------------------------------
\* The types of FrpClient's state.
THEOREM FrpTypeCorrect == ASSUME Sole PROVE FrpSpec => []FrpTypeOK
<1>1. FrpInv => FrpTypeOK
  BY DEF FrpInv
<1> QED BY <1>1, FrpInvariance, PTL

\* No frpc runs without its pid in the file the next life of the application
\* will look in, at whichever step of a start, a stop or a retry it crashes and
\* whatever survives a stop, unless one got away in the ways that `slipped`
\* tells (client.rs: spawn_frpc, stop_recorded_frpc_instance).
THEOREM NoFrpcIsForgotten == ASSUME Sole PROVE FrpSpec => []NoneForgotten
<1>1. FrpInv => NoneForgotten
  <2> SUFFICES ASSUME FrpInv, ~slipped, NEW p \in live PROVE p \in Traced
    BY DEF NoneForgotten
  <2>1. CASE \E i \in Instance : app[i].pc = "record"
    BY <2>1 DEF FrpInv, GoneBeforeForgotten, Traced
  <2>2. CASE \A i \in Instance : app[i].pc # "record"
    BY <2>2 DEF FrpInv, GoneBeforeForgotten, Traced
  <2> QED BY <2>1, <2>2
<1> QED BY <1>1, FrpInvariance, PTL

\* A workspace never has two frpc processes, unless one got away so.
THEOREM NeverTwoFrpc == ASSUME Sole PROVE FrpSpec => []OneFrpc
<1>1. FrpInv => OneFrpc
  <2> SUFFICES ASSUME FrpInv, ~slipped PROVE Cardinality(live) <= 1
    BY DEF OneFrpc
  <2>1. PICK p : live \subseteq {p}
    BY DEF FrpInv, GoneBeforeForgotten
  <2>2. IsFiniteSet({p}) /\ Cardinality({p}) = 1
    BY FS_Singleton
  <2> QED BY <2>1, <2>2, FS_Subset
<1> QED BY <1>1, FrpInvariance, PTL
-----------------------------------------------------------------------------
(* TunnelSoftware                                                          *)

\* The installations that created the file and have not ended without an answer.
Writes(j) == job[j].pc \in S!Writing \cup {"ok"}

\* Of two that created one file, the second crossed the first.
OneUncrossed ==
    \A i, j \in Installer :
        i # j /\ job[i].kind = job[j].kind /\ Writes(i) /\ Writes(j) => job[i].crossed \/ job[j].crossed

\* What was asked for its version, or was filled from a whole archive, stays
\* until it is crossed.
VerifiedStays ==
    \A j \in Installer : /\ job[j].pc \in {"mark", "ok"} /\ ~job[j].crossed => bin[job[j].kind] = "whole"
                         /\ job[j].pc \in {"verify", "mark"} => job[j].kind = "cloudflared"

SoftwareInv == S!TypeOK /\ OneUncrossed /\ VerifiedStays

LEMMA NoJobIs == /\ S!NoJob \in S!Jobs /\ S!NoJob.pc \notin S!Writing \cup {"ok"}
                 /\ [S!NoJob EXCEPT !.pc = "found"] \in S!Jobs
                 /\ [S!NoJob EXCEPT !.pc = "found"].pc \notin S!Writing \cup {"ok"}
BY DEF S!NoJob, S!Jobs, S!Kind, S!Answers, S!Writing

LEMMA SoftwareInitHolds == S!Init => SoftwareInv
<1> SUFFICES ASSUME S!Init PROVE SoftwareInv
  OBVIOUS
<1>1. \A j \in Installer : job[j] = S!NoJob
  BY DEF S!Init
<1>2. job \in [Installer -> S!Jobs]
  BY NoJobIs DEF S!Init
<1>3. bin \in [S!Kind -> S!File]
  BY DEF S!Init, S!Kind, S!File
<1>4. S!TypeOK
  BY <1>2, <1>3 DEF S!Init, S!TypeOK
<1> QED BY <1>1, <1>4 DEF SoftwareInv, OneUncrossed, VerifiedStays, Writes, S!Writing, S!NoJob

\* A step that gives the installation j a place where it has created no file.
LEMMA AsideHolds ==
    ASSUME SoftwareInv, NEW j \in Installer, NEW r \in S!Jobs,
           r.pc \notin S!Writing \cup {"ok"}, job' = [job EXCEPT ![j] = r],
           UNCHANGED <<bin, system>>, archive' \in {"absent", "broken", "whole"}, marker' \in BOOLEAN
    PROVE  SoftwareInv'
<1>1. /\ S!TypeOK' /\ job'[j] = r /\ \A i \in Installer : i # j => job'[i] = job[i]
  BY DEF SoftwareInv, S!TypeOK
<1>2. OneUncrossed'
  BY <1>1 DEF SoftwareInv, OneUncrossed, Writes
<1>3. VerifiedStays'
  BY <1>1 DEF SoftwareInv, VerifiedStays, S!Writing
<1> QED BY <1>1, <1>2, <1>3 DEF SoftwareInv

\* A step that takes j from one place with its file to another.
LEMMA OnwardHolds ==
    ASSUME SoftwareInv, NEW j \in Installer, NEW pc \in {"verify", "mark", "ok"}, Writes(j),
           S!Goto(j, pc), UNCHANGED <<archive, system>>, marker' \in BOOLEAN,
           bin' \in [S!Kind -> S!File],
           \A k \in S!Kind : k # job[j].kind \/ job[j].crossed => bin'[k] = bin[k],
           pc \in {"verify", "mark"} => job[j].kind = "cloudflared",
           pc \in {"mark", "ok"} /\ ~job[j].crossed => bin'[job[j].kind] = "whole"
    PROVE  SoftwareInv'
<1>1. job \in [Installer -> S!Jobs] /\ job[j] \in S!Jobs
  BY DEF SoftwareInv, S!TypeOK
<1>2. job' = [job EXCEPT ![j] = [job[j] EXCEPT !.pc = pc]]
  BY DEF S!Goto
<1>3. /\ job'[j].kind = job[j].kind /\ job'[j].crossed = job[j].crossed /\ job'[j].pc = pc
      /\ job'[j] \in S!Jobs /\ job' \in [Installer -> S!Jobs]
      /\ \A i \in Installer : i # j => job'[i] = job[i]
  BY <1>1, <1>2 DEF S!Jobs, S!Writing, S!Answers
<1>4. S!TypeOK'
  BY <1>3 DEF SoftwareInv, S!TypeOK
<1>5. OneUncrossed'
  BY <1>3 DEF SoftwareInv, OneUncrossed, Writes
<1>6. VerifiedStays'
  <2> SUFFICES ASSUME NEW i \in Installer
               PROVE  /\ job'[i].pc \in {"mark", "ok"} /\ ~job'[i].crossed =>
                           bin'[job'[i].kind] = "whole"
                      /\ job'[i].pc \in {"verify", "mark"} => job'[i].kind = "cloudflared"
    BY DEF VerifiedStays
  <2>1. CASE i = j
    BY <1>3, <2>1
  <2>2. CASE i # j
    <3>1. job[i].kind \in S!Kind
      BY DEF SoftwareInv, S!TypeOK, S!Jobs
    <3>2. job[i].pc \in {"mark", "ok"} => Writes(i)
      BY DEF Writes, S!Writing
    <3>3. job[i].pc \in {"mark", "ok"} /\ ~job[i].crossed => bin'[job[i].kind] = bin[job[i].kind]
      BY <2>2, <3>1, <3>2 DEF SoftwareInv, OneUncrossed
    <3> QED BY <1>3, <2>2, <3>3 DEF SoftwareInv, VerifiedStays
  <2> QED BY <2>1, <2>2
<1> QED BY <1>4, <1>5, <1>6 DEF SoftwareInv

LEMMA InstallHolds == ASSUME SoftwareInv, NEW j \in Installer, NEW k \in S!Kind, S!Install(j, k)
                      PROVE  SoftwareInv'
<1>1. PICK pc \in {"unpack", "fetch"} : job' = [job EXCEPT ![j] = [kind |-> k, crossed |-> FALSE, pc |-> pc]]
  BY DEF S!Install
<1>2. /\ [kind |-> k, crossed |-> FALSE, pc |-> pc] \in S!Jobs
      /\ pc \notin S!Writing \cup {"ok"}
  BY DEF S!Jobs, S!Writing
<1> QED BY <1>1, <1>2, AsideHolds DEF S!Install, SoftwareInv, S!TypeOK

LEMMA EnsureHolds == ASSUME SoftwareInv, NEW j \in Installer, S!Ensure(j) PROVE SoftwareInv'
<1>1. CASE S!Install(j, "frpc")
  BY <1>1, InstallHolds DEF S!Kind
<1>2. CASE job' = [job EXCEPT ![j] = [S!NoJob EXCEPT !.pc = "found"]] /\ UNCHANGED <<bin, archive, marker, system>>
  BY <1>2, NoJobIs, AsideHolds DEF SoftwareInv, S!TypeOK
<1> QED BY <1>1, <1>2 DEF S!Ensure

LEMMA FailHolds ==
    ASSUME SoftwareInv, NEW j \in Installer, S!Fail(j), UNCHANGED <<bin, system>>,
           archive' \in {"absent", "broken", "whole"}, marker' \in BOOLEAN
    PROVE  SoftwareInv'
BY NoJobIs, AsideHolds DEF S!Fail

LEMMA FetchHolds == ASSUME SoftwareInv, NEW j \in Installer, S!Fetch(j) PROVE SoftwareInv'
<1>1. /\ UNCHANGED <<bin, marker, system>> /\ archive' \in {"absent", "broken", "whole"}
      /\ marker' \in BOOLEAN /\ job \in [Installer -> S!Jobs] /\ job[j] \in S!Jobs
  BY DEF S!Fetch, SoftwareInv, S!TypeOK
<1>2. CASE S!Fail(j)
  BY <1>1, <1>2, FailHolds
<1>3. CASE S!Goto(j, "unpack")
  <2>1. job' = [job EXCEPT ![j] = [job[j] EXCEPT !.pc = "unpack"]]
    BY <1>3 DEF S!Goto
  <2>2. [job[j] EXCEPT !.pc = "unpack"] \in S!Jobs /\ [job[j] EXCEPT !.pc = "unpack"].pc = "unpack"
    BY <1>1 DEF S!Jobs
  <2>3. "unpack" \notin S!Writing \cup {"ok"}
    BY DEF S!Writing
  <2> QED BY <1>1, <2>1, <2>2, <2>3, AsideHolds
<1> QED BY <1>2, <1>3 DEF S!Fetch

\* What another installation of the kind, or an uninstallation, makes of i.
LEMMA Crossed == ASSUME S!TypeOK, NEW k \in S!Kind, NEW i \in Installer
                 PROVE  /\ S!Cross(k, i) \in S!Jobs /\ S!Cross(k, i).kind = job[i].kind
                        /\ S!Cross(k, i).pc = job[i].pc
                        /\ job[i].kind = k /\ Writes(i) => S!Cross(k, i).crossed
                        /\ ~(job[i].kind = k /\ Writes(i)) => S!Cross(k, i) = job[i]
<1>1. job[i] \in S!Jobs
  BY DEF S!TypeOK
<1> QED BY <1>1 DEF S!Cross, Writes, S!Jobs

LEMMA UnpackHolds == ASSUME SoftwareInv, NEW j \in Installer, S!Unpack(j) PROVE SoftwareInv'
<1>0. S!TypeOK /\ job[j] \in S!Jobs /\ job[j].kind \in S!Kind
  BY DEF SoftwareInv, S!TypeOK, S!Jobs
<1>1. CASE S!Fail(j) /\ UNCHANGED bin
  BY <1>0, <1>1, FailHolds DEF S!Unpack, S!TypeOK
<1>2. CASE /\ bin' = [bin EXCEPT ![job[j].kind] = "broken"]
           /\ job' = [i \in Installer |->
                       IF i # j THEN S!Cross(job[j].kind, i)
                       ELSE IF job[j].kind = "frpc" /\ archive = "broken" THEN S!NoJob
                       ELSE [job[j] EXCEPT !.pc = "fill"]]
  <2>1. \A i \in Installer : i # j => job'[i] = S!Cross(job[j].kind, i)
    BY <1>2
  <2>2. job'[j] \in {S!NoJob, [job[j] EXCEPT !.pc = "fill"]}
    BY <1>2
  <2>3. [job[j] EXCEPT !.pc = "fill"] \in S!Jobs /\ [job[j] EXCEPT !.pc = "fill"].kind = job[j].kind
        /\ [job[j] EXCEPT !.pc = "fill"].pc = "fill" /\ S!NoJob.pc = "none"
    BY <1>0 DEF S!Jobs, S!Writing, S!NoJob
  <2>4. job' \in [Installer -> S!Jobs]
    <3>1. \A i \in Installer : job'[i] \in S!Jobs
      BY <1>0, <2>1, <2>2, <2>3, NoJobIs, Crossed
    <3> QED BY <1>2, <3>1
  <2>5. S!TypeOK'
    BY <1>0, <1>2, <2>4 DEF S!Unpack, S!TypeOK, S!File
  <2>6. OneUncrossed'
    <3> SUFFICES ASSUME NEW a \in Installer, NEW b \in Installer, a # b, job'[a].kind = job'[b].kind,
                        Writes(a)', Writes(b)'
                 PROVE  job'[a].crossed \/ job'[b].crossed
      BY DEF OneUncrossed
    <3>1. \A i \in Installer : i # j /\ Writes(i)' => Writes(i) /\ job'[i].kind = job[i].kind
      BY <1>0, <2>1, Crossed DEF Writes
    <3>2. Writes(j)' => job'[j].kind = job[j].kind
      BY <2>2, <2>3 DEF Writes, S!Writing
    <3>3. \A i \in Installer : i # j /\ Writes(i)' /\ job[i].kind = job[j].kind => job'[i].crossed
      BY <1>0, <2>1, <3>1, Crossed
    <3>4. CASE a = j \/ b = j
      BY <3>1, <3>2, <3>3, <3>4
    <3>5. CASE a # j /\ b # j
      <4>1. job[a].crossed \/ job[b].crossed
        BY <3>1, <3>5 DEF SoftwareInv, OneUncrossed
      <4>2. \A i \in Installer : i # j /\ Writes(i)' /\ job[i].crossed => job'[i].crossed
        BY <1>0, <2>1, <3>1, Crossed
      <4> QED BY <3>5, <4>1, <4>2
    <3> QED BY <3>4, <3>5
  <2>7. VerifiedStays'
    <3> SUFFICES ASSUME NEW i \in Installer
                 PROVE  /\ job'[i].pc \in {"mark", "ok"} /\ ~job'[i].crossed =>
                             bin'[job'[i].kind] = "whole"
                        /\ job'[i].pc \in {"verify", "mark"} => job'[i].kind = "cloudflared"
      BY DEF VerifiedStays
    <3>1. CASE i = j
      BY <2>2, <2>3, <3>1
    <3>2. CASE i # j
      <4>1. job'[i].pc = job[i].pc /\ job'[i].kind = job[i].kind /\ job[i].kind \in S!Kind
        BY <1>0, <2>1, <3>2, Crossed DEF S!TypeOK, S!Jobs
      <4>2. job[i].pc \in {"mark", "ok"} => Writes(i)
        BY DEF Writes, S!Writing
      <4>3. job[i].pc \in {"mark", "ok"} /\ ~job'[i].crossed => job[i].kind # job[j].kind /\ ~job[i].crossed
        BY <1>0, <2>1, <3>2, <4>2, Crossed
      <4>4. job[i].kind # job[j].kind => bin'[job[i].kind] = bin[job[i].kind]
        BY <1>0, <1>2, <4>1 DEF S!TypeOK
      <4> QED BY <4>1, <4>3, <4>4 DEF SoftwareInv, VerifiedStays
    <3> QED BY <3>1, <3>2
  <2> QED BY <2>5, <2>6, <2>7 DEF SoftwareInv
<1> QED BY <1>1, <1>2 DEF S!Unpack

LEMMA FillHolds == ASSUME SoftwareInv, NEW j \in Installer, S!Fill(j) PROVE SoftwareInv'
<1>0. /\ S!TypeOK /\ job[j].kind \in S!Kind /\ Writes(j) /\ UNCHANGED <<archive, marker, system>>
      /\ archive' \in {"absent", "broken", "whole"} /\ marker' \in BOOLEAN
  BY DEF SoftwareInv, S!TypeOK, S!Jobs, S!Fill, S!At, Writes, S!Writing
<1>1. CASE S!Fail(j) /\ UNCHANGED bin
  BY <1>0, <1>1, FailHolds
<1>2. ASSUME NEW f \in S!Sent(job[j].kind),
             bin' = [bin EXCEPT ![job[j].kind] = IF job[j].crossed THEN @ ELSE f],
             IF bin'[job[j].kind] = "absent" THEN S!Fail(j)
             ELSE S!Goto(j, IF job[j].kind = "frpc" THEN "ok" ELSE "verify")
      PROVE  SoftwareInv'
  <2>1. f \in S!File /\ f # "absent" /\ (job[j].kind = "frpc" => f = "whole")
    BY DEF S!Sent, S!File
  <2>2. /\ bin' \in [S!Kind -> S!File]
        /\ \A k \in S!Kind : k # job[j].kind \/ job[j].crossed => bin'[k] = bin[k]
        /\ ~job[j].crossed => bin'[job[j].kind] = f
    BY <1>0, <1>2, <2>1 DEF S!TypeOK
  <2>3. CASE S!Fail(j) /\ bin'[job[j].kind] = "absent"
    <3>1. bin' = bin
      BY <1>0, <1>2, <2>1, <2>2, <2>3 DEF S!TypeOK
    <3> QED BY <1>0, <2>3, <3>1, FailHolds
  <2>4. CASE S!Goto(j, "ok") /\ job[j].kind = "frpc"
    BY <1>0, <2>1, <2>2, <2>4, OnwardHolds
  <2>5. CASE S!Goto(j, "verify") /\ job[j].kind # "frpc"
    <3>1. job[j].kind = "cloudflared"
      BY <1>0, <2>5 DEF S!Kind
    <3> QED BY <1>0, <2>2, <2>5, <3>1, OnwardHolds
  <2> QED BY <1>2, <2>3, <2>4, <2>5
<1> QED BY <1>1, <1>2 DEF S!Fill

LEMMA VerifyHolds == ASSUME SoftwareInv, NEW j \in Installer, S!Verify(j) \/ S!Mark(j) PROVE SoftwareInv'
<1>0. /\ S!TypeOK /\ job[j].kind = "cloudflared" /\ Writes(j) /\ UNCHANGED <<bin, archive, system>>
      /\ marker' \in BOOLEAN
  BY DEF SoftwareInv, VerifiedStays, S!TypeOK, S!Verify, S!Mark, S!At, Writes, S!Writing
<1>1. CASE S!Fail(j)
  BY <1>0, <1>1, FailHolds DEF S!TypeOK
<1>2. CASE bin["cloudflared"] = "whole" /\ S!Goto(j, "mark")
  BY <1>0, <1>2, OnwardHolds DEF S!TypeOK
<1>3. CASE job[j].pc = "mark" /\ S!Goto(j, "ok")
  BY <1>0, <1>3, OnwardHolds DEF S!TypeOK, SoftwareInv, VerifiedStays
<1> QED BY <1>1, <1>2, <1>3 DEF S!Verify, S!Mark, S!At

LEMMA UninstallHolds == ASSUME SoftwareInv, NEW k \in S!Kind, S!Uninstall(k) PROVE SoftwareInv'
<1>0. S!TypeOK
  BY DEF SoftwareInv
<1>1. \A i \in Installer : job'[i] = S!Cross(k, i)
  BY DEF S!Uninstall
<1>2. S!TypeOK'
  BY <1>0, <1>1, Crossed DEF S!Uninstall, S!TypeOK, S!File
<1>3. OneUncrossed'
  BY <1>0, <1>1, Crossed DEF SoftwareInv, OneUncrossed, Writes
<1>4. VerifiedStays'
  <2> SUFFICES ASSUME NEW i \in Installer
               PROVE  /\ job'[i].pc \in {"mark", "ok"} /\ ~job'[i].crossed =>
                           bin'[job'[i].kind] = "whole"
                      /\ job'[i].pc \in {"verify", "mark"} => job'[i].kind = "cloudflared"
    BY DEF VerifiedStays
  <2>1. job'[i].pc = job[i].pc /\ job'[i].kind = job[i].kind /\ job[i].kind \in S!Kind
    BY <1>0, <1>1, Crossed DEF S!TypeOK, S!Jobs
  <2>2. job[i].pc \in {"mark", "ok"} => Writes(i)
    BY DEF Writes, S!Writing
  <2>3. job[i].pc \in {"mark", "ok"} /\ ~job'[i].crossed => job[i].kind # k /\ ~job[i].crossed
    BY <1>0, <1>1, <2>2, Crossed
  <2>4. job[i].kind # k => bin'[job[i].kind] = bin[job[i].kind]
    BY <1>0, <2>1 DEF S!TypeOK, S!Uninstall
  <2> QED BY <2>1, <2>3, <2>4 DEF SoftwareInv, VerifiedStays
<1> QED BY <1>2, <1>3, <1>4 DEF SoftwareInv

LEMMA SoftwareCrashHolds == ASSUME SoftwareInv, S!Crash PROVE SoftwareInv'
<1>1. \A i \in Installer : job'[i] = S!NoJob
  BY DEF S!Crash
<1>2. S!TypeOK'
  BY <1>1, NoJobIs DEF S!Crash, S!TypeOK, SoftwareInv
<1> QED BY <1>1, <1>2, NoJobIs DEF SoftwareInv, OneUncrossed, VerifiedStays, Writes, S!Writing

LEMMA SoftwareStepHolds == SoftwareInv /\ [S!Next]_(S!vars) => SoftwareInv'
<1> SUFFICES ASSUME SoftwareInv, [S!Next]_(S!vars) PROVE SoftwareInv'
  OBVIOUS
<1>1. CASE UNCHANGED S!vars
  BY <1>1 DEF S!vars, SoftwareInv, S!TypeOK, OneUncrossed, VerifiedStays, Writes
<1>2. ASSUME NEW k \in S!Kind, S!SystemInstall(k) PROVE SoftwareInv'
  BY <1>2 DEF SoftwareInv, S!TypeOK, OneUncrossed, VerifiedStays, Writes, S!SystemInstall
<1>3. ASSUME NEW j \in Installer, NEW k \in S!Kind, S!Startup(j, k) PROVE SoftwareInv'
  BY <1>3, InstallHolds DEF S!Startup
<1> QED
  BY <1>1, <1>2, <1>3, InstallHolds, EnsureHolds, FetchHolds, UnpackHolds, FillHolds, VerifyHolds,
     UninstallHolds, SoftwareCrashHolds
     DEF S!Next, S!Step

LEMMA SoftwareInvariance == S!Spec => []SoftwareInv
BY SoftwareInitHolds, SoftwareStepHolds, PTL DEF S!Spec
-----------------------------------------------------------------------------
(* TunnelSupervisor                                                        *)

\* A command is about a workspace and the configuration it read, and is not
\* rolled back to nothing.
CommandsRead == \A k \in Caller :
    /\ cmd[k].pc # "idle" => cmd[k].ws \in Workspace /\ cmd[k].p \in T!Config
    /\ cmd[k].pc = "rollback" => cmd[k].back \in T!Frp

TunnelInv == T!TypeOK /\ CommandsRead

Results == [ok : BOOLEAN, line : T!Lines]

LEMMA SessionlessTyped == ASSUME NEW l \in T!Lines PROVE
    T!Sessionless(l) \in T!Lines /\ T!Sessionless(l).frpc = l.frpc /\ T!Sessionless(l).route = l.route
BY DEF T!Sessionless, T!Lines

\* A session shows its route.
LEMMA SyncTyped == ASSUME NEW l \in T!Lines, NEW pid \in {"none", "frpc", "cf"} PROVE
    LET s == T!SyncSession(l, pid)
    IN  /\ s \in T!Lines /\ s.frpc = l.frpc /\ s.route = l.route
        /\ l.route # NoConfig => s.url = l.route
BY SessionlessTyped DEF T!SyncSession, T!Lines, T!Config

LEMMA PidTyped == ASSUME NEW l \in T!Lines PROVE T!PidOf(l) \in {"none", "frpc", "cf"}
BY DEF T!PidOf

\* What the process and the session of a line are after it was made to match.
Matches(l, r) ==
    /\ r \in Results
    /\ r.line.route = l.route
    /\ r.line.frpc \in {"none", l.route}
    /\ r.ok /\ l.route # NoConfig => r.line.frpc = l.route /\ r.line.url = l.route

LEMMA RestartMatches == ASSUME NEW l \in T!Lines, NEW r \in T!RestartFrpc(l) PROVE Matches(l, r)
<1> DEFINE bare == [l EXCEPT !.frpc = "none"]
           stopped == T!SyncSession(bare, "none")
<1>1. bare \in T!Lines /\ bare.route = l.route /\ bare.frpc = "none"
  BY DEF T!Lines
<1>2. stopped \in T!Lines /\ stopped.route = l.route /\ stopped.frpc = "none"
  BY <1>1, SyncTyped
<1>3. ASSUME NEW c \in {l.route} \cap Subdomain
      PROVE  LET n == T!SyncSession([stopped EXCEPT !.frpc = c], "frpc")
             IN  n \in T!Lines /\ n.route = l.route /\ n.frpc = l.route /\ n.url = l.route
  <2> DEFINE run == [stopped EXCEPT !.frpc = c]
  <2>1. run \in T!Lines /\ run.route = l.route /\ run.frpc = c
    BY <1>2 DEF T!Lines
  <2>2. l.route # NoConfig
    BY TunnelAssumption
  <2> HIDE DEF run
  <2>3. LET n == T!SyncSession(run, "frpc")
        IN  n \in T!Lines /\ n.route = l.route /\ n.frpc = l.route /\ n.url = l.route
    BY <2>1, <2>2, SyncTyped
  <2> QED BY <2>3 DEF run
<1>4. \/ r = [ok |-> FALSE, line |-> stopped]
      \/ l.route = NoConfig /\ r = [ok |-> TRUE, line |-> stopped]
      \/ \E c \in {l.route} \cap Subdomain :
            r = [ok |-> TRUE, line |-> T!SyncSession([stopped EXCEPT !.frpc = c], "frpc")]
  BY DEF T!RestartFrpc
<1> HIDE DEF stopped
<1>5. CASE r = [ok |-> FALSE, line |-> stopped]
  BY <1>2, <1>5 DEF Matches, Results
<1>6. CASE l.route = NoConfig /\ r = [ok |-> TRUE, line |-> stopped]
  BY <1>2, <1>6 DEF Matches, Results
<1>7. ASSUME NEW c \in {l.route} \cap Subdomain,
             r = [ok |-> TRUE, line |-> T!SyncSession([stopped EXCEPT !.frpc = c], "frpc")]
      PROVE  Matches(l, r)
  <2> DEFINE n == T!SyncSession([stopped EXCEPT !.frpc = c], "frpc")
  <2>1. n \in T!Lines /\ n.route = l.route /\ n.frpc = l.route /\ n.url = l.route
    BY <1>3
  <2>2. r = [ok |-> TRUE, line |-> n]
    BY <1>7
  <2> HIDE DEF n
  <2> QED BY <2>1, <2>2 DEF Matches, Results
<1> QED BY <1>4, <1>5, <1>6, <1>7

LEMMA EnsureMatches == ASSUME NEW l \in T!Lines, NEW r \in T!EnsureFrpc(l) PROVE Matches(l, r)
<1>1. CASE l.route # NoConfig /\ l.frpc = l.route
  <2>1. r = [ok |-> TRUE, line |-> T!SyncSession(l, T!PidOf(l))]
    BY <1>1 DEF T!EnsureFrpc
  <2> QED BY <1>1, <2>1, SyncTyped, PidTyped DEF Matches, Results
<1>2. CASE ~(l.route # NoConfig /\ l.frpc = l.route)
  BY <1>2, RestartMatches DEF T!EnsureFrpc
<1> QED BY <1>1, <1>2

LEMMA RouteRestored ==
    ASSUME NEW l \in T!Lines, NEW was \in T!Lines
    PROVE  LET n == T!RestoreRoute([l EXCEPT !.route = NoConfig], was)
           IN  /\ n \in T!Lines /\ n.route = was.route /\ n.frpc = l.frpc
BY DEF T!RestoreRoute, T!Lines

\* A command that is rolled back fails, and has the old route again, with a
\* process of it or with none.
LEMMA RollBackFails ==
    ASSUME NEW l \in T!Lines, NEW was \in T!Lines, NEW r \in T!RollBack(l, was)
    PROVE  r \in Results /\ ~r.ok /\ r.line.route = was.route /\ r.line.frpc \in {"none", was.route}
<1> DEFINE n == T!RestoreRoute([l EXCEPT !.route = NoConfig], was)
<1>1. n \in T!Lines /\ n.route = was.route
  BY RouteRestored
<1>2. PICK q \in T!EnsureFrpc(n) : r = [ok |-> FALSE, line |-> q.line]
  BY DEF T!RollBack
<1> HIDE DEF n
<1>3. Matches(n, q)
  BY <1>1, EnsureMatches
<1> QED BY <1>1, <1>2, <1>3 DEF Matches, Results

\* What the start of an FRP line answers: it serves, or the line is as it was,
\* or rolled back.
LEMMA StartFrpAnswers ==
    ASSUME T!TypeOK, NEW w \in Workspace, NEW c \in Subdomain, NEW r \in T!StartFrp(w, c)
    PROVE  /\ r \in Results
           /\ r.ok => r.line.frpc = c /\ r.line.url = c
           /\ ~r.ok => \/ r.line = line[w]
                       \/ r.line.route = line[w].route /\ r.line.frpc \in {"none", line[w].route}
<1> DEFINE was == line[w]
           bare == T!Sessionless([was EXCEPT !.route = NoConfig])
           next == [bare EXCEPT !.route = c]
<1>1. was \in T!Lines
  BY DEF T!TypeOK
<1>2. next \in T!Lines /\ next.route = c
  BY <1>1 DEF T!Sessionless, T!Lines, T!Frp
<1>3. CASE T!Conflicts(w, c)
  <2>1. r = [ok |-> FALSE, line |-> was]
    BY <1>3 DEF T!StartFrp
  <2> QED BY <1>1, <2>1 DEF Results
<1>4. CASE ~T!Conflicts(w, c)
  <2>1. PICK q \in T!EnsureFrpc(next) :
             r \in IF q.ok THEN {[ok |-> TRUE, line |-> T!SyncSession(q.line, T!PidOf(q.line))]}
                           ELSE T!RollBack(q.line, was)
    BY <1>4 DEF T!StartFrp
  <2> HIDE DEF next, bare
  <2>2. Matches(next, q)
    BY <1>2, EnsureMatches
  <2>3. q.line \in T!Lines /\ q.line.route = c
    BY <1>2, <2>2 DEF Matches, Results
  <2>4. CASE q.ok
    <3>1. r = [ok |-> TRUE, line |-> T!SyncSession(q.line, T!PidOf(q.line))]
      BY <2>1, <2>4
    <3>2. q.line.frpc = c /\ c # NoConfig
      BY <1>2, <2>2, <2>4, TunnelAssumption DEF Matches
    <3> QED BY <2>3, <3>1, <3>2, SyncTyped, PidTyped DEF Results
  <2>5. CASE ~q.ok
    BY <1>1, <2>1, <2>3, <2>5, RollBackFails
  <2> QED BY <2>4, <2>5
<1> QED BY <1>3, <1>4

LEMMA ConnectedTyped == ASSUME NEW l \in T!Lines PROVE T!Connected(l) \in T!Lines
BY DEF T!Connected, T!Lines, T!Config, T!Frp

LEMMA ResultTyped == ASSUME NEW ok \in BOOLEAN, NEW l \in T!Lines PROVE [ok |-> ok, line |-> l] \in Results
BY DEF Results

LEMMA StartCloudflareTyped ==
    ASSUME NEW l \in T!Lines, NEW r \in T!StartCloudflare(l) PROVE r \in Results
<1>1. r \in {[ok |-> TRUE, line |-> l], [ok |-> FALSE, line |-> l],
            [ok |-> TRUE, line |-> T!Connected(l)]}
  BY DEF T!StartCloudflare
<1> QED BY <1>1, ConnectedTyped, ResultTyped

LEMMA StopTyped == ASSUME NEW l \in T!Lines, NEW r \in T!Stop(l) PROVE r \in Results
<1>1. CASE l.route # NoConfig
  <2> DEFINE bare == T!Sessionless([l EXCEPT !.route = NoConfig])
  <2>1. bare \in T!Lines
    BY DEF T!Lines, T!Sessionless
  <2>2. PICK q \in T!EnsureFrpc(bare) : r \in IF q.ok THEN {q} ELSE T!RollBack(q.line, l)
    BY <1>1 DEF T!Stop
  <2> HIDE DEF bare
  <2>3. q \in Results /\ q.line \in T!Lines
    BY <2>1, EnsureMatches DEF Matches, Results
  <2> QED BY <2>2, <2>3, RollBackFails
<1>2. CASE l.route = NoConfig
  <2> DEFINE gone == l.cf = "none" /\ l.pid = "frpc" /\ T!FrpcAlive(l)
             n == [T!Sessionless(l) EXCEPT !.frpc = IF gone THEN "dead" ELSE @]
  <2>1. r = [ok |-> TRUE, line |-> n]
    BY <1>2 DEF T!Stop
  <2>2. n \in T!Lines
    <3> HIDE DEF gone
    <3> QED BY SessionlessTyped DEF T!Lines
  <2> QED BY <2>1, <2>2 DEF Results
<1> QED BY <1>1, <1>2

LEMMA RollingTyped == ASSUME NEW l \in T!Lines, NEW r \in T!RestartRolling(l) PROVE r \in Results
<1>1. CASE l.route # NoConfig
  <2>1. PICK q \in T!Stop(l) : r \in IF q.ok THEN T!StartCloudflare(q.line) ELSE {q}
    BY <1>1 DEF T!RestartRolling
  <2>2. q \in Results /\ q.line \in T!Lines
    BY StopTyped DEF Results
  <2> QED BY <2>1, <2>2, StartCloudflareTyped
<1>2. CASE l.route = NoConfig
  <2>1. \/ r \in T!StartCloudflare(l)
        \/ r = [ok |-> FALSE, line |-> l] \/ r = [ok |-> TRUE, line |-> T!Connected(l)]
    BY <1>2 DEF T!RestartRolling
  <2> QED BY <2>1, ConnectedTyped, StartCloudflareTyped, ResultTyped
<1> QED BY <1>1, <1>2

\* What the answer of a command on an FRP line says; of other lines nothing.
Answers(w, c, r) ==
    /\ r \in Results
    /\ c \in Subdomain /\ r.ok => r.line.frpc = c /\ r.line.url = c
    /\ c \in T!Frp /\ ~r.ok => \/ r.line = line[w]
                               \/ /\ r.line.route = line[w].route
                                  /\ r.line.frpc \in {"none", line[w].route}

LEMMA StartAnswers ==
    ASSUME T!TypeOK, NEW w \in Workspace, NEW c \in T!Config, NEW r \in T!Start(w, c)
    PROVE  Answers(w, c, r)
<1>l. line[w] \in T!Lines
  BY DEF T!TypeOK
<1>1. CASE c \in Subdomain
  <2>1. r \in T!StartFrp(w, c)
    BY <1>1, TunnelAssumption DEF T!Start
  <2> QED BY <1>1, <2>1, StartFrpAnswers DEF Answers
<1>2. CASE c = Invalid
  <2>1. r = [ok |-> FALSE, line |-> line[w]]
    BY <1>2, TunnelAssumption DEF T!Start
  <2> QED BY <1>l, <1>2, <2>1, TunnelAssumption DEF Answers, Results
<1>3. CASE c = Cloudflare
  <2>1. r \in T!StartCloudflare(line[w])
    BY <1>3, TunnelAssumption DEF T!Start
  <2> QED BY <1>l, <1>3, <2>1, StartCloudflareTyped, TunnelAssumption DEF Answers, T!Frp
<1>4. CASE c = Off
  <2>1. r = [ok |-> T!IsRunning(line[w]), line |-> line[w]]
    BY <1>4, TunnelAssumption DEF T!Start
  <2>2. T!IsRunning(line[w]) \in BOOLEAN
    BY DEF T!IsRunning, T!FrpcAlive, T!PidAlive
  <2> QED BY <1>l, <1>4, <2>1, <2>2, TunnelAssumption DEF Answers, T!Frp, Results
<1> QED BY <1>1, <1>2, <1>3, <1>4 DEF T!Config, T!Frp

LEMMA ReplaceAnswers ==
    ASSUME T!TypeOK, NEW w \in Workspace, NEW c \in T!Config, NEW r \in T!Replace(w, c)
    PROVE  Answers(w, c, r)
<1>l. line[w] \in T!Lines
  BY DEF T!TypeOK
<1>1. CASE c \in T!Frp
  <2>1. r \in T!Start(w, c)
    BY <1>1, TunnelAssumption DEF T!Replace, T!Frp
  <2> QED BY <2>1, StartAnswers
<1>2. CASE c = Cloudflare
  <2>1. r \in T!RestartRolling(line[w])
    BY <1>2, TunnelAssumption DEF T!Replace, T!Frp
  <2> QED BY <1>l, <1>2, <2>1, RollingTyped, TunnelAssumption DEF Answers, T!Frp
<1>3. CASE c = Off
  <2>1. PICK q \in T!Stop(line[w]) : r = [ok |-> FALSE, line |-> q.line]
    BY <1>3, TunnelAssumption DEF T!Replace, T!Frp
  <2>2. q.line \in T!Lines
    BY <1>l, StopTyped DEF Results
  <2> QED BY <1>3, <2>1, <2>2, TunnelAssumption DEF Answers, T!Frp, Results
<1> QED BY <1>1, <1>2, <1>3 DEF T!Config

\* What a command may do, by what it was asked and the configuration it read.
LEMMA OutcomeAnswers ==
    ASSUME TunnelInv, NEW k \in Caller, cmd[k].pc = "act", NEW r \in T!Outcomes(k)
    PROVE  /\ cmd[k].ws \in Workspace /\ cmd[k].p \in T!Config /\ r \in Results
           /\ cmd[k].do \in {"start", "runtime", "test"} => Answers(cmd[k].ws, cmd[k].p, r)
           /\ cmd[k].do = "restart" => r.ok \/ Answers(cmd[k].ws, cmd[k].p, r)
<1> DEFINE w == cmd[k].ws
           c == cmd[k].p
           do == cmd[k].do
           was == IF do = "test" THEN cmd[k].was ELSE T!IsRunning(line[w])
<1>1. w \in Workspace /\ c \in T!Config /\ T!TypeOK
  BY DEF TunnelInv, CommandsRead
<1>2. do \in T!Do /\ line[w] \in T!Lines
  BY <1>1 DEF T!TypeOK, T!Cmds
<1>3. was \in BOOLEAN
  BY <1>1 DEF T!TypeOK, T!Cmds, T!IsRunning, T!FrpcAlive, T!PidAlive
<1>4. \/ do = "runtime" /\ c = Off /\ r = [ok |-> TRUE, line |-> line[w]]
      \/ r \in T!Start(w, c)
      \/ r \in T!Replace(w, c)
      \/ do = "restart" /\ r = [ok |-> TRUE, line |-> line[w]]
  BY <1>2, <1>3 DEF T!Outcomes, T!Do
<1>5. CASE do = "runtime" /\ c = Off /\ r = [ok |-> TRUE, line |-> line[w]]
  <2>1. r \in Results /\ r.ok /\ c \notin Subdomain
    BY <1>2, <1>5, ResultTyped, TunnelAssumption
  <2> QED BY <1>1, <1>5, <2>1 DEF Answers
<1>6. CASE r \in T!Start(w, c) \/ r \in T!Replace(w, c)
  <2>1. Answers(w, c, r)
    BY <1>1, <1>6, StartAnswers, ReplaceAnswers
  <2> QED BY <1>1, <2>1 DEF Answers
<1>7. CASE do = "restart" /\ r = [ok |-> TRUE, line |-> line[w]]
  BY <1>1, <1>2, <1>7, ResultTyped
<1> QED BY <1>4, <1>5, <1>6, <1>7

\* A step of a command that only moves it on.
LEMMA GoesOn ==
    ASSUME TunnelInv, NEW k \in Caller, cmd[k].pc # "idle",
           NEW pc \in {"sync", "probe", "act", "undo", "ok", "failed"}, T!Goto(k, pc)
    PROVE  /\ cmd' \in [Caller -> T!Cmds]
           /\ CommandsRead'
BY DEF TunnelInv, CommandsRead, T!TypeOK, T!Cmds, T!Goto

LEMMA IsDone ==
    ASSUME TunnelInv, NEW k \in Caller, T!Done(k)
    PROVE  /\ cmd' \in [Caller -> T!Cmds]
           /\ CommandsRead'
BY DEF TunnelInv, CommandsRead, T!TypeOK, T!Cmds, T!NoCmd, T!Done, T!Do

LEMMA LineBecomes ==
    ASSUME T!TypeOK, NEW w \in Workspace, NEW r \in Results, T!Become(w, r.line)
    PROVE  line' \in [Workspace -> T!Lines] /\ line'[w] = r.line
BY DEF T!TypeOK, T!Become, Results

\* The answer of a command names what comes next.
LEMMA AnswerMoves ==
    ASSUME TunnelInv, NEW k \in Caller, cmd[k].pc = "act", NEW r \in Results,
           T!Answer(k, r.ok, r.line)
    PROVE  /\ cmd' \in [Caller -> T!Cmds]
           /\ CommandsRead'
           /\ cmd'[k].pc = "ok" => r.ok
           /\ cmd'[k].pc \in {"rollback", "failed"} => ~r.ok
<1>1. r.ok \in BOOLEAN /\ r.line.route \in T!Frp \cup {NoConfig}
  BY DEF Results, T!Lines
<1>2. cmd[k] \in T!Cmds /\ cmd \in [Caller -> T!Cmds]
  BY DEF TunnelInv, CommandsRead, T!TypeOK
<1>3. \/ r.ok /\ T!Goto(k, "ok")
      \/ T!Goto(k, "undo")
      \/ /\ ~r.ok /\ r.line.route # NoConfig
         /\ cmd' = [cmd EXCEPT ![k].pc = "rollback", ![k].back = r.line.route]
      \/ ~r.ok /\ T!Goto(k, "failed")
  BY <1>1 DEF T!Answer
<1>4. CASE /\ ~r.ok /\ r.line.route # NoConfig
           /\ cmd' = [cmd EXCEPT ![k].pc = "rollback", ![k].back = r.line.route]
  BY <1>1, <1>2, <1>4 DEF TunnelInv, CommandsRead, T!Cmds
<1>5. CASE \/ r.ok /\ T!Goto(k, "ok")
           \/ T!Goto(k, "undo")
           \/ ~r.ok /\ T!Goto(k, "failed")
  <2>1. cmd'[k].pc \in {"ok", "undo", "failed"} /\ (cmd'[k].pc = "ok" => r.ok)
            /\ (cmd'[k].pc = "failed" => ~r.ok)
    BY <1>2, <1>5 DEF T!Goto, T!Cmds
  <2> QED BY <1>5, <2>1, GoesOn
<1> QED BY <1>3, <1>4, <1>5

\* A step that leaves the commands alone.
LEMMA CommandsStay ==
    ASSUME TunnelInv, UNCHANGED cmd, saved' \in [Workspace -> T!Config], served' \subseteq Workspace,
           line' \in [Workspace -> T!Lines], suspect' \subseteq Workspace, cool' \subseteq Workspace
    PROVE  TunnelInv'
BY DEF TunnelInv, CommandsRead, T!TypeOK

LEMMA StopHolds == ASSUME TunnelInv, NEW w \in Workspace, T!StopTunnel(w) PROVE TunnelInv'
<1>1. PICK r \in T!Stop(line[w]) : T!Become(w, r.line)
  BY DEF T!StopTunnel
<1>2. T!TypeOK /\ line[w] \in T!Lines
  BY DEF TunnelInv, T!TypeOK
<1>3. line' \in [Workspace -> T!Lines]
  BY <1>1, <1>2, StopTyped, LineBecomes
<1> QED BY <1>2, <1>3, CommandsStay DEF T!StopTunnel, T!TypeOK

LEMMA HealHolds == ASSUME TunnelInv, NEW w \in Workspace, T!Heal(w) PROVE TunnelInv'
<1>1. T!TypeOK /\ line[w] \in T!Lines
  BY DEF TunnelInv, T!TypeOK
<1>2. line' \in [Workspace -> T!Lines]
  <2>1. CASE UNCHANGED line
    BY <1>1, <2>1 DEF T!TypeOK
  <2>2. ASSUME NEW r \in T!RestartFrpc(line[w]), T!Become(w, r.line)
        PROVE  line' \in [Workspace -> T!Lines]
    <3>1. r \in Results
      BY <1>1, RestartMatches DEF Matches
    <3> QED BY <1>1, <2>2, <3>1, LineBecomes
  <2> QED BY <2>1, <2>2 DEF T!Heal
<1>3. suspect' \subseteq Workspace /\ cool' \subseteq Workspace
  BY <1>1 DEF T!Heal, T!TypeOK
<1> QED BY <1>1, <1>2, <1>3, CommandsStay DEF T!Heal, T!TypeOK

LEMMA WorkspaceHolds ==
    ASSUME TunnelInv, NEW w \in Workspace, NEW c \in T!Config,
           \/ T!Edit(w, c) \/ T!CleanupOrphan(w, c)
           \/ T!Serve(w) \/ T!Unserve(w) \/ T!StopTunnel(w) \/ T!DropWorkspace(w)
           \/ T!Heal(w) \/ T!CoolDown(w) \/ T!FrpcEnds(w) \/ T!CloudflaredEnds(w)
    PROVE  TunnelInv'
<1>t. T!TypeOK
  BY DEF TunnelInv
<1>1. CASE T!Edit(w, c)
  BY <1>t, <1>1, CommandsStay DEF T!Edit, T!TypeOK
<1>2. CASE T!CleanupOrphan(w, c) \/ T!StopTunnel(w) \/ T!DropWorkspace(w)
  BY <1>2, StopHolds DEF T!CleanupOrphan, T!DropWorkspace
<1>3. CASE T!Serve(w) \/ T!Unserve(w) \/ T!CoolDown(w)
  BY <1>t, <1>3, CommandsStay DEF T!Serve, T!Unserve, T!CoolDown, T!TypeOK
<1>4. CASE T!Heal(w)
  BY <1>4, HealHolds
<1>5. CASE T!FrpcEnds(w) \/ T!CloudflaredEnds(w)
  <2>1. line' \in [Workspace -> T!Lines]
    BY <1>t, <1>5 DEF T!FrpcEnds, T!CloudflaredEnds, T!TypeOK, T!Lines
  <2> QED BY <1>t, <1>5, <2>1, CommandsStay DEF T!FrpcEnds, T!CloudflaredEnds, T!TypeOK
<1> QED BY <1>1, <1>2, <1>3, <1>4, <1>5

LEMMA BeginTunnelHolds ==
    ASSUME TunnelInv, NEW k \in Caller, NEW w \in Workspace, NEW do \in T!Do, T!Begin(k, w, do)
    PROVE  TunnelInv'
<1>1. saved[w] \in T!Config
  BY DEF TunnelInv, T!TypeOK
<1> QED BY <1>1 DEF TunnelInv, CommandsRead, T!TypeOK, T!Begin, T!Cmds, T!NoCmd

LEMMA RoutesTyped ==
    ASSUME T!TypeOK, NEW w \in Workspace PROVE T!WithRoutes(w) \in T!Lines
<1> DEFINE l == IF w \in served /\ saved[w] \in T!Frp
                THEN [line[w] EXCEPT !.route = saved[w]] ELSE line[w]
<1>1. l \in T!Lines
  BY DEF T!TypeOK, T!Lines
<1>2. T!WithRoutes(w) \in {l, T!SyncSession(l, T!PidOf(l))}
  BY DEF T!WithRoutes
<1> HIDE DEF l
<1> QED BY <1>1, <1>2, SyncTyped, PidTyped

LEMMA ActHolds == ASSUME TunnelInv, NEW k \in Caller, T!Act(k) PROVE TunnelInv'
<1>1. PICK r \in T!Outcomes(k) : T!Become(cmd[k].ws, r.line) /\ T!Answer(k, r.ok, r.line)
  BY DEF T!Act
<1>2. cmd[k].pc = "act" /\ T!TypeOK
  BY DEF T!Act, TunnelInv
<1>3. cmd[k].ws \in Workspace /\ r \in Results
  BY <1>2, OutcomeAnswers
<1>4. line' \in [Workspace -> T!Lines]
  BY <1>1, <1>2, <1>3, LineBecomes
<1> QED BY <1>1, <1>2, <1>3, <1>4, AnswerMoves DEF T!Act, TunnelInv, T!TypeOK

LEMMA CommandHolds == ASSUME TunnelInv, NEW k \in Caller, T!CommandStep(k) PROVE TunnelInv'
<1>t. T!TypeOK /\ cmd[k] \in T!Cmds
  BY DEF TunnelInv, T!TypeOK
<1>1. CASE T!SyncRoutes(k)
  <2>1. line' \in [Workspace -> T!Lines]
    BY <1>t, <1>1, RoutesTyped DEF T!SyncRoutes
  <2>2. T!Goto(k, "probe") \/ T!Goto(k, "act")
    BY <1>1 DEF T!SyncRoutes
  <2> QED BY <1>t, <1>1, <2>1, <2>2, GoesOn DEF T!SyncRoutes, TunnelInv, T!TypeOK
<1>2. CASE T!ProbeLine(k)
  <2>1. T!IsRunning(line[cmd[k].ws]) \in BOOLEAN
    BY DEF T!IsRunning, T!FrpcAlive, T!PidAlive
  <2> QED BY <1>t, <1>2, <2>1 DEF T!ProbeLine, TunnelInv, CommandsRead, T!TypeOK, T!Cmds
<1>3. CASE T!Act(k)
  BY <1>3, ActHolds
<1>4. CASE T!RestoreConfig(k)
  <2>1. saved' \in [Workspace -> T!Config]
    <3>1. cmd[k].ws \in Workspace /\ cmd[k].back \in T!Frp
      BY <1>4 DEF T!RestoreConfig, TunnelInv, CommandsRead
    <3> QED BY <1>t, <1>4, <3>1 DEF T!RestoreConfig, T!TypeOK, T!Cmds, T!Config
  <2> QED BY <1>t, <1>4, <2>1, GoesOn DEF T!RestoreConfig, TunnelInv, T!TypeOK
<1>5. CASE T!Undo(k)
  <2>1. cmd[k].ws \in Workspace
    BY <1>5 DEF T!Undo, TunnelInv, CommandsRead
  <2>2. PICK r \in T!Stop(line[cmd[k].ws]) : T!Become(cmd[k].ws, r.line)
    BY <1>5 DEF T!Undo
  <2>3. line[cmd[k].ws] \in T!Lines
    BY <1>t, <2>1 DEF T!TypeOK
  <2>4. line' \in [Workspace -> T!Lines]
    BY <1>t, <2>1, <2>2, <2>3, StopTyped, LineBecomes
  <2> QED BY <1>t, <1>5, <2>4, IsDone DEF T!Undo, TunnelInv, T!TypeOK
<1>6. CASE T!Return(k)
  BY <1>t, <1>6, IsDone DEF T!Return, TunnelInv, T!TypeOK
<1> QED BY <1>1, <1>2, <1>3, <1>4, <1>5, <1>6 DEF T!CommandStep

LEMMA TunnelInitHolds == T!Init => TunnelInv
BY DEF T!Init, TunnelInv, CommandsRead, T!TypeOK, T!Config, T!NoLine, T!Lines, T!NoCmd, T!Cmds, T!Do

LEMMA TunnelStepHolds == TunnelInv /\ [T!Next]_(T!vars) => TunnelInv'
<1> SUFFICES ASSUME TunnelInv, [T!Next]_(T!vars) PROVE TunnelInv'
  OBVIOUS
<1>1. CASE UNCHANGED T!vars
  BY <1>1 DEF T!vars, TunnelInv, CommandsRead, T!TypeOK
<1>2. ASSUME NEW w \in Workspace,
             \/ \E c \in T!Config : T!Edit(w, c) \/ T!CleanupOrphan(w, c)
             \/ T!Serve(w) \/ T!Unserve(w) \/ T!StopTunnel(w) \/ T!DropWorkspace(w)
             \/ T!Heal(w) \/ T!CoolDown(w) \/ T!FrpcEnds(w) \/ T!CloudflaredEnds(w)
      PROVE  TunnelInv'
  BY <1>2, WorkspaceHolds DEF T!Config
<1> QED
  BY <1>1, <1>2, BeginTunnelHolds, CommandHolds DEF T!Next

LEMMA TunnelInvariance == T!Spec => []TunnelInv
BY TunnelInitHolds, TunnelStepHolds, PTL DEF T!Spec

\* Only its own step takes a command out of its act.
LEMMA OnlyItActs ==
    ASSUME TunnelInv, [T!Next]_(T!vars), NEW k \in Caller, T!Acts(k)
    PROVE  T!Act(k)
<1>1. cmd \in [Caller -> T!Cmds] /\ cmd[k].pc = "act" /\ cmd'[k].pc # "act"
  BY DEF TunnelInv, T!TypeOK, T!Acts
<1>2. cmd' # cmd
  BY <1>1
<1>3. ~ \E w \in Workspace :
           \/ \E c \in T!Config : T!Edit(w, c) \/ T!CleanupOrphan(w, c)
           \/ T!Serve(w) \/ T!Unserve(w) \/ T!StopTunnel(w) \/ T!DropWorkspace(w)
           \/ T!Heal(w) \/ T!CoolDown(w) \/ T!FrpcEnds(w) \/ T!CloudflaredEnds(w)
  BY <1>2 DEF T!Edit, T!CleanupOrphan, T!Serve, T!Unserve, T!StopTunnel, T!DropWorkspace,
              T!Heal, T!CoolDown, T!FrpcEnds, T!CloudflaredEnds
<1>4. ASSUME NEW j \in Caller, NEW w \in Workspace, NEW do \in T!Do, T!Begin(j, w, do) PROVE FALSE
  BY <1>1, <1>4 DEF T!Begin, T!Idle
<1>5. ASSUME NEW j \in Caller, T!CommandStep(j) PROVE T!Act(k)
  <2>1. CASE j = k
    BY <1>1, <1>5, <2>1 DEF T!CommandStep, T!SyncRoutes, T!ProbeLine, T!RestoreConfig, T!Undo, T!Return
  <2>2. CASE j # k
    <3>1. cmd'[k] = cmd[k]
      BY <1>1, <1>5, <2>2
         DEF T!CommandStep, T!SyncRoutes, T!ProbeLine, T!Act, T!Answer, T!RestoreConfig, T!Undo, T!Return,
             T!Goto, T!Done
    <3> QED BY <1>1, <3>1
  <2> QED BY <2>1, <2>2
<1> QED BY <1>2, <1>3, <1>4, <1>5 DEF T!Next, T!vars

\* What the act of a command leaves is what it answers.
LEMMA ActIsTrue ==
    ASSUME TunnelInv, NEW k \in Caller, T!Act(k)
    PROVE  LET w == cmd[k].ws
           IN  /\ (/\ cmd'[k].pc \in {"rollback", "failed"} /\ cmd[k].p \in T!Frp
                   /\ T!FrpcAlive(line[w]) /\ line[w].route = line[w].frpc)
                  => /\ line'[w].route = line[w].route
                     /\ line'[w].frpc \in {line[w].frpc, "none"}
               /\ (/\ cmd'[k].pc = "ok" /\ cmd[k].p \in Subdomain
                   /\ cmd[k].do \in {"start", "runtime", "test"})
                  => line'[w].frpc = cmd[k].p /\ line'[w].url = cmd[k].p
<1> DEFINE w == cmd[k].ws
<1>1. PICK r \in T!Outcomes(k) : T!Become(w, r.line) /\ T!Answer(k, r.ok, r.line)
  BY DEF T!Act
<1>2. cmd[k].pc = "act" /\ T!TypeOK /\ cmd[k].do \in T!Do
  BY DEF T!Act, TunnelInv, T!TypeOK, T!Cmds
<1>3. w \in Workspace /\ r \in Results
  BY <1>2, OutcomeAnswers
<1>4. line'[w] = r.line
  BY <1>1, <1>2, <1>3, LineBecomes
<1>5. (cmd'[k].pc = "ok" => r.ok) /\ (cmd'[k].pc \in {"rollback", "failed"} => ~r.ok)
  BY <1>1, <1>2, <1>3, AnswerMoves
<1>6. (cmd[k].do # "restart" \/ ~r.ok) => Answers(w, cmd[k].p, r)
  BY <1>2, OutcomeAnswers DEF T!Do
<1>7. ASSUME cmd'[k].pc \in {"rollback", "failed"}, cmd[k].p \in T!Frp,
             line[w].route = line[w].frpc
      PROVE  line'[w].route = line[w].route /\ line'[w].frpc \in {line[w].frpc, "none"}
  BY <1>4, <1>5, <1>6, <1>7 DEF Answers
<1>8. ASSUME cmd'[k].pc = "ok", cmd[k].p \in Subdomain, cmd[k].do \in {"start", "runtime", "test"}
      PROVE  line'[w].frpc = cmd[k].p /\ line'[w].url = cmd[k].p
  BY <1>4, <1>5, <1>6, <1>8 DEF Answers
<1> QED BY <1>7, <1>8

\* The answer of a tunnel command, however commands, the status refreshes and
\* the health loop interleave.
LEMMA TunnelAnswers == T!Spec => T!AnswersAreTrue
<1>1. TunnelInv /\ [T!Next]_(T!vars) =>
        [\A k \in Caller :
           LET w == cmd[k].ws
           IN  (/\ T!Acts(k) /\ cmd'[k].pc \in {"rollback", "failed"} /\ cmd[k].p \in T!Frp
                /\ T!FrpcAlive(line[w]) /\ line[w].route = line[w].frpc)
               => /\ line'[w].route = line[w].route
                  /\ line'[w].frpc \in {line[w].frpc, "none"}]_(T!vars)
  BY OnlyItActs, ActIsTrue
<1>2. TunnelInv /\ [T!Next]_(T!vars) =>
        [\A k \in Caller :
           LET w == cmd[k].ws
           IN  (/\ T!Acts(k) /\ cmd'[k].pc = "ok" /\ cmd[k].p \in Subdomain
                /\ cmd[k].do \in {"start", "runtime", "test"})
               => line'[w].frpc = cmd[k].p /\ line'[w].url = cmd[k].p]_(T!vars)
  BY OnlyItActs, ActIsTrue
<1> QED
  BY <1>1, <1>2, TunnelInvariance, PTL
     DEF T!Spec, T!AnswersAreTrue, T!FailureKeepsLine, T!StartedIsServed

-----------------------------------------------------------------------------
(* Services                                                                *)

\* A behaviour of the services is one of each component.
LEMMA EachBehaves == ServicesSpec => Spec /\ FrpSpec /\ S!Spec /\ T!Spec
<1>1. ServicesInit => Init /\ FrpInit /\ S!Init /\ T!Init
  BY DEF ServicesInit
<1>2. [ServicesNext]_servicesVars =>
        [Next]_vars /\ [FrpNext]_frpVars /\ [S!Next]_(S!vars) /\ [T!Next]_(T!vars)
  BY DEF ServicesNext, servicesVars, softwareVars, tunnelVars, S!vars, T!vars
<1> QED BY <1>1, <1>2, PTL DEF ServicesSpec, Spec, FrpSpec, S!Spec, T!Spec

\* The state of every component is well typed.
THEOREM ServicesTypeCorrect == ASSUME Sole PROVE ServicesSpec => []TypesOK
<1>1. SoftwareInv => S!TypeOK
  BY DEF SoftwareInv
<1>2. TunnelInv => T!TypeOK
  BY DEF TunnelInv
<1> QED
  BY <1>1, <1>2, EachBehaves, ExecTypeCorrect, FrpTypeCorrect, SoftwareInvariance, TunnelInvariance, PTL
     DEF TypesOK

\* An installation that reports success left a program that is whole and of
\* the wanted version, until another one writes the file or it is uninstalled:
\* whatever a write, an earlier archive, a mirror or the end of the application
\* left behind, and however many installations run at once (tunnel/software.rs,
\* tunnel/download.rs).  Of a file that a starting tunnel finds it says nothing.
THEOREM InstallationsAreWhole == ServicesSpec => []OkMeansWhole
<1>1. SoftwareInv => OkMeansWhole
  BY DEF SoftwareInv, VerifiedStays, OkMeansWhole, S!OkMeansWhole, S!At
<1> QED BY <1>1, EachBehaves, SoftwareInvariance, PTL

\* A failed FRP command keeps the line that was up, and a command that reports
\* an FRP tunnel as started serves the subdomain it read, whichever commands,
\* refreshes and health checks come in between (tunnel/supervisor.rs).
THEOREM AnswersStayTrue == ServicesSpec => AnswersAreTrue
BY EachBehaves, TunnelAnswers, PTL DEF AnswersAreTrue

=============================================================================
