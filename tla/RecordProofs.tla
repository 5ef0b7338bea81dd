---------------------------- MODULE RecordProofs ----------------------------
(***************************************************************************)
(* Proofs about what the desktop keeps in files and logs, each part about  *)
(* the actions of one component: the archive of sessions, the log of a     *)
(* session's events with a client that follows it, the logs of the         *)
(* harness, a patch, and the tasks of the harness.  DesktopProofs has what *)
(* they come to in the composition.                                        *)
(***************************************************************************)
EXTENDS HistoryArchive, SessionEvents, OperationLog, PatchTool, TaskHarness,
        FiniteSetTheorems, SequenceTheorems, WellFoundedInduction, TLAPS

-----------------------------------------------------------------------------
(* Numbers                                                                 *)

LEMMA LeastNumber ==
    ASSUME NEW S \in SUBSET Nat, S # {} PROVE \E m \in S : \A n \in S : m <= n
<1>1. PICK m \in S : \A n \in S : ~(<<n, m>> \in OpToRel(<, Nat))
  BY NatLessThanWellFounded, WFMin, Zenon
<1>2. \A n \in S : ~(n < m)
  BY <1>1 DEF OpToRel
<1> QED BY <1>2

LEMMA GreatestNumber ==
    ASSUME NEW N \in Nat, NEW S \in SUBSET (0 .. N), S # {} PROVE \E m \in S : \A n \in S : n <= m
<1> DEFINE D == {N - n : n \in S}
<1>1. D \in SUBSET Nat /\ D # {}
  <2>1. \A n \in S : N - n \in Nat
    OBVIOUS
  <2> QED BY <2>1
<1>2. PICK d \in D : \A e \in D : d <= e
  <2> HIDE DEF D
  <2> QED BY <1>1, LeastNumber
<1>3. PICK m \in S : d = N - m
  BY <1>2
<1>4. ASSUME NEW n \in S PROVE n <= m
  <2>1. N - n \in D
    OBVIOUS
  <2>2. N - m <= N - n
    BY <1>2, <1>3, <2>1
  <2> QED BY <2>2
<1> QED BY <1>4

-----------------------------------------------------------------------------
(* HistoryArchive                                                          *)

Archives == UNION {[S -> Documents] : S \in SUBSET (1 .. MaxFile)}
ArchiveCalls ==
    [op : {"none", "bootstrap", "checkpoint", "repair", "provider"},
     pc : {"idle", "provider", "lock", "decide", "rescan", "manifest", "state"},
     key : Key \cup {NoText}, turn : Turn \cup Text \cup {NoText}, text : Text \cup {NoText},
     create : BOOLEAN, path : 0 .. MaxFile, seen : Archives, with : Nat, current : Nat]
Outside == {"idle", "provider", "lock"}

HistoryTypes ==
    /\ files \in Archives /\ providers \in 0 .. MaxProvider
    /\ state.revision \in Nat /\ state.current \in 0 .. MaxFile
    /\ hcall \in [HCaller -> ArchiveCalls]
    /\ edits \in Nat

\* A call past the lock holds it, and decides by the archive there is.
HoldsTheLock == \A c \in HCaller : hcall[c].pc \notin Outside => lock = c
DecidesByNow == \A c \in HCaller : hcall[c].pc = "decide" => hcall[c].seen = files

\* What a call was given; what a checkpoint is about to report.
GivenOf(c) == /\ hcall[c].op = "checkpoint" => /\ hcall[c].key \in Key /\ hcall[c].text \in Text
                                               /\ hcall[c].turn \in Turn \cup Text
              /\ hcall[c].op = "bootstrap" => hcall[c].key \in Key
Archived(f, k, t, x) == \E n \in Of(f, k) : Known(f[n], t, x)
SavedBy(c) ==
    hcall[c].op = "checkpoint" /\ hcall[c].pc \in {"rescan", "manifest", "state"} =>
      Archived(files, hcall[c].key, hcall[c].turn, hcall[c].text)
CallsKnow == \A c \in HCaller : GivenOf(c) /\ SavedBy(c)

HistoryInv == HistoryTypes /\ HoldsTheLock /\ DecidesByNow /\ CallsKnow

LEMMA NobodyTyped ==
    ASSUME HistoryBounds
    PROVE  /\ Nobody \in ArchiveCalls /\ Nobody.pc = "idle" /\ Nobody.op = "none"
           /\ NoArchive \in Archives
<1>1. NoArchive \in [{} -> Documents] /\ {} \in SUBSET (1 .. MaxFile)
  BY DEF NoArchive
<1>2. NoArchive \in Archives
  BY <1>1 DEF Archives
<1> HIDE DEF NoArchive, Archives
<1> QED BY <1>2 DEF Nobody, ArchiveCalls, HistoryBounds

LEMMA FirstArchive == ASSUME HistoryBounds, HistoryInit PROVE HistoryInv
<1>1. /\ Nobody \in ArchiveCalls /\ Nobody.pc = "idle" /\ Nobody.op = "none"
      /\ NoArchive \in Archives
  BY NobodyTyped
<1> HIDE DEF Nobody, NoArchive, Archives, ArchiveCalls
<1>2. hcall \in [HCaller -> ArchiveCalls] /\ \A c \in HCaller : hcall[c] = Nobody
  BY <1>1 DEF HistoryInit
<1>3. HistoryTypes
  BY <1>1, <1>2 DEF HistoryInit, HistoryTypes, HistoryBounds, NoState
<1> QED
  BY <1>1, <1>2, <1>3 DEF HistoryInv, HoldsTheLock, DecidesByNow, CallsKnow, GivenOf, SavedBy, Outside

\* A step of one call, with the archive as it is or under its own lock.
LEMMA CallSteps ==
    ASSUME HistoryInv, NEW c \in HCaller, HistoryTypes', \A d \in HCaller \ {c} : hcall'[d] = hcall[d],
           files' = files \/ lock = c, lock' = lock \/ lock \in {c, NoCaller},
           hcall'[c].pc \notin Outside => lock' = c,
           hcall'[c].pc = "decide" => hcall'[c].seen = files',
           (GivenOf(c) /\ SavedBy(c))', HistoryBounds
    PROVE  HistoryInv'
<1>1. \A d \in HCaller \ {c} : hcall[d].pc \notin Outside => lock = d /\ d # c
  BY DEF HistoryInv, HoldsTheLock
<1>2. HoldsTheLock'
  BY <1>1 DEF HoldsTheLock, HistoryBounds
<1>3. DecidesByNow'
  BY <1>1 DEF HistoryInv, DecidesByNow, Outside
<1>4. ASSUME NEW d \in HCaller \ {c} PROVE (GivenOf(d) /\ SavedBy(d))'
  BY <1>1, <1>4 DEF HistoryInv, CallsKnow, GivenOf, SavedBy, Outside
<1>5. CallsKnow'
  BY <1>4 DEF CallsKnow
<1> QED BY <1>2, <1>3, <1>5 DEF HistoryInv

\* A call goes on to its next step.
LEMMA Moves ==
    ASSUME HistoryInv, NEW c \in HCaller,
           NEW pc \in {"idle", "provider", "lock", "decide", "rescan", "manifest", "state"}, MoveTo(c, pc)
    PROVE  /\ hcall' \in [HCaller -> ArchiveCalls] /\ hcall'[c].pc = pc
           /\ \A d \in HCaller \ {c} : hcall'[d] = hcall[d]
           /\ hcall'[c].op = hcall[c].op /\ hcall'[c].key = hcall[c].key /\ hcall'[c].turn = hcall[c].turn
           /\ hcall'[c].text = hcall[c].text /\ hcall'[c].seen = hcall[c].seen
BY DEF HistoryInv, HistoryTypes, ArchiveCalls, MoveTo

LEMMA GivenStay ==
    ASSUME HistoryInv, NEW c \in HCaller, hcall'[c].op = hcall[c].op, hcall'[c].key = hcall[c].key,
           hcall'[c].turn = hcall[c].turn, hcall'[c].text = hcall[c].text
    PROVE  GivenOf(c)'
BY DEF HistoryInv, CallsKnow, GivenOf

\* A call ends, however.
LEMMA EndKeeps ==
    ASSUME HistoryBounds, HistoryInv, NEW c \in HCaller, EndCall(c), UNCHANGED files, edits' \in Nat,
           providers' \in 0 .. MaxProvider, state'.revision \in Nat, state'.current \in 0 .. MaxFile
    PROVE  HistoryInv'
<1>1. Nobody \in ArchiveCalls /\ Nobody.pc = "idle" /\ Nobody.op = "none"
  BY NobodyTyped
<1>2. /\ hcall' = [hcall EXCEPT ![c] = Nobody]
      /\ lock' = IF lock = c THEN NoCaller ELSE lock
  BY DEF EndCall
<1> HIDE DEF Nobody
<1>3. hcall' \in [HCaller -> ArchiveCalls] /\ hcall'[c] = Nobody /\ \A d \in HCaller \ {c} : hcall'[d] = hcall[d]
  BY <1>1, <1>2 DEF HistoryInv, HistoryTypes
<1>4. HistoryTypes'
  BY <1>3 DEF HistoryInv, HistoryTypes
<1>5. (GivenOf(c) /\ SavedBy(c))'
  BY <1>1, <1>3 DEF GivenOf, SavedBy
<1> QED BY <1>1, <1>2, <1>3, <1>4, <1>5, CallSteps DEF Outside

LEMMA CallKeeps ==
    ASSUME HistoryBounds, HistoryInv, NEW c \in HCaller, NEW a \in Args, Call(c, a) PROVE HistoryInv'
<1> DEFINE told == IF a.op = "checkpoint" /\ a.turn = NoText THEN a.text ELSE a.turn
           pc == IF a.op = "provider" THEN "provider" ELSE "lock"
           new == [Nobody EXCEPT !.op = a.op, !.key = a.key, !.text = a.text, !.turn = told,
                                   !.create = a.create, !.path = a.path, !.pc = pc]
<1>1. /\ a.op \in {"bootstrap", "checkpoint", "repair", "provider"}
      /\ a.key \in Key \cup {NoText} /\ a.text \in Text \cup {NoText} /\ a.turn \in Turn \cup {NoText}
      /\ a.create \in BOOLEAN /\ a.path \in 0 .. MaxFile
      /\ a.op = "checkpoint" => a.key \in Key /\ a.text \in Text
      /\ a.op = "bootstrap" => a.key \in Key
  <2>1. CASE a \in [op : {"bootstrap"}, key : Key, text : Text \cup {NoText}, create : BOOLEAN,
                    turn : {NoText}, path : {0}]
    BY <2>1 DEF HistoryBounds
  <2>2. CASE a \in [op : {"checkpoint"}, key : Key, text : Text, create : {TRUE},
                    turn : Turn \cup {NoText}, path : 1 .. MaxFile]
    <3>1. a.op = "checkpoint" /\ a.path \in 1 .. MaxFile
      BY <2>2
    <3>3. a.create \in BOOLEAN
      <4>1. a.create = TRUE
        BY <2>2
      <4> QED BY <4>1, Zenon
    <3>2. a.key \in Key /\ a.text \in Text /\ a.turn \in Turn \cup {NoText}
      BY <2>2
    <3> QED BY <3>1, <3>2, <3>3 DEF HistoryBounds
  <2>3. CASE a \in [op : {"repair", "provider"}, key : {NoText}, text : {NoText}, create : {TRUE},
                    turn : {NoText}, path : {0}]
    <3>1. a.op \in {"repair", "provider"} /\ a.path = 0
      BY <2>3
    <3>3. a.create \in BOOLEAN
      <4>1. a.create = TRUE
        BY <2>3
      <4> QED BY <4>1, Zenon
    <3>2. a.key = NoText /\ a.text = NoText /\ a.turn = NoText
      BY <2>3
    <3> QED BY <3>1, <3>2, <3>3 DEF HistoryBounds
  <2> QED BY <2>1, <2>2, <2>3 DEF Args
<1>2. told \in Turn \cup Text \cup {NoText} /\ (a.op = "checkpoint" => told \in Turn \cup Text)
  BY <1>1
<1>3. NoArchive \in Archives
  BY NobodyTyped
<1>4. /\ new \in ArchiveCalls /\ new.op = a.op /\ new.key = a.key /\ new.text = a.text /\ new.turn = told
      /\ new.pc \in {"provider", "lock"}
  <2> HIDE DEF told, NoArchive, Archives
  <2> QED BY <1>1, <1>2, <1>3 DEF ArchiveCalls, Nobody
<1>5. hcall' = [hcall EXCEPT ![c] = new] /\ UNCHANGED <<files, providers, state, lock, edits>>
  BY DEF Call, written
<1> HIDE DEF new, told
<1>6. hcall' \in [HCaller -> ArchiveCalls] /\ hcall'[c] = new /\ \A d \in HCaller \ {c} : hcall'[d] = hcall[d]
  BY <1>4, <1>5 DEF HistoryInv, HistoryTypes
<1>7. HistoryTypes'
  BY <1>5, <1>6 DEF HistoryInv, HistoryTypes
<1>8. (GivenOf(c) /\ SavedBy(c))'
  BY <1>1, <1>2, <1>4, <1>6 DEF GivenOf, SavedBy
<1> QED BY <1>4, <1>5, <1>6, <1>7, <1>8, CallSteps DEF Outside

LEMMA ProviderKeeps ==
    ASSUME HistoryBounds, HistoryInv, NEW c \in HCaller, WriteProvider(c) PROVE HistoryInv'
<1>1. MoveTo(c, "lock") /\ UNCHANGED <<files, state, lock, edits>> /\ providers' \in 0 .. MaxProvider
  BY DEF WriteProvider, HistoryInv, HistoryTypes, HistoryBounds
<1>2. /\ hcall' \in [HCaller -> ArchiveCalls] /\ hcall'[c].pc = "lock"
      /\ \A d \in HCaller \ {c} : hcall'[d] = hcall[d]
      /\ GivenOf(c)'
  BY <1>1, Moves, GivenStay
<1>3. HistoryTypes'
  BY <1>1, <1>2 DEF HistoryInv, HistoryTypes
<1>4. SavedBy(c)'
  BY <1>2 DEF SavedBy
<1> QED BY <1>1, <1>2, <1>3, <1>4, CallSteps DEF Outside

\* A call goes on with an archive it has just scanned, and a count.
LEMMA SeesAndMoves ==
    ASSUME HistoryInv, NEW c \in HCaller, NEW pc \in {"decide", "manifest"}, NEW f \in Archives, NEW n \in Nat,
           \/ hcall' = [hcall EXCEPT ![c].pc = pc, ![c].seen = f]
           \/ hcall' = [hcall EXCEPT ![c].pc = pc, ![c].seen = f, ![c].with = n]
    PROVE  /\ hcall' \in [HCaller -> ArchiveCalls] /\ hcall'[c].pc = pc /\ hcall'[c].seen = f
           /\ \A d \in HCaller \ {c} : hcall'[d] = hcall[d]
           /\ hcall'[c].op = hcall[c].op /\ hcall'[c].key = hcall[c].key
           /\ hcall'[c].turn = hcall[c].turn /\ hcall'[c].text = hcall[c].text
<1>1. hcall \in [HCaller -> ArchiveCalls] /\ hcall[c] \in ArchiveCalls
  BY DEF HistoryInv, HistoryTypes
<1>2. CASE hcall' = [hcall EXCEPT ![c].pc = pc, ![c].seen = f]
  <2> DEFINE r == [hcall[c] EXCEPT !.pc = pc, !.seen = f]
  <2>1. hcall' = [hcall EXCEPT ![c] = r]
    BY <1>1, <1>2
  <2>2. /\ r \in ArchiveCalls /\ r.pc = pc /\ r.seen = f /\ r.op = hcall[c].op /\ r.key = hcall[c].key
        /\ r.turn = hcall[c].turn /\ r.text = hcall[c].text
    BY <1>1 DEF ArchiveCalls
  <2> HIDE DEF r, ArchiveCalls
  <2> QED BY <1>1, <2>1, <2>2
<1>3. CASE hcall' = [hcall EXCEPT ![c].pc = pc, ![c].seen = f, ![c].with = n]
  <2> DEFINE r == [hcall[c] EXCEPT !.pc = pc, !.seen = f, !.with = n]
  <2>1. hcall' = [hcall EXCEPT ![c] = r]
    BY <1>1, <1>3
  <2>2. /\ r \in ArchiveCalls /\ r.pc = pc /\ r.seen = f /\ r.op = hcall[c].op /\ r.key = hcall[c].key
        /\ r.turn = hcall[c].turn /\ r.text = hcall[c].text
    BY <1>1 DEF ArchiveCalls
  <2> HIDE DEF r, ArchiveCalls
  <2> QED BY <1>1, <2>1, <2>2
<1> QED BY <1>2, <1>3

LEMMA LockKeeps ==
    ASSUME HistoryBounds, HistoryInv, NEW c \in HCaller, TakeLock(c) PROVE HistoryInv'
<1>1. /\ hcall' = [hcall EXCEPT ![c].pc = "decide", ![c].seen = files] /\ lock = NoCaller /\ lock' = c
      /\ UNCHANGED <<files, providers, state, edits>>
  BY DEF TakeLock, written
<1>2. /\ hcall' \in [HCaller -> ArchiveCalls] /\ hcall'[c].pc = "decide" /\ hcall'[c].seen = files
      /\ \A d \in HCaller \ {c} : hcall'[d] = hcall[d]
      /\ hcall'[c].op = hcall[c].op /\ hcall'[c].key = hcall[c].key
      /\ hcall'[c].turn = hcall[c].turn /\ hcall'[c].text = hcall[c].text
  BY <1>1, SeesAndMoves DEF HistoryInv, HistoryTypes
<1>3. HistoryTypes'
  BY <1>1, <1>2 DEF HistoryInv, HistoryTypes
<1>4. GivenOf(c)' /\ SavedBy(c)'
  BY <1>2, GivenStay DEF SavedBy
<1> QED BY <1>1, <1>2, <1>3, <1>4, CallSteps

LEMMA FailKeeps ==
    ASSUME HistoryBounds, HistoryInv, NEW c \in HCaller, Fail(c) PROVE HistoryInv'
BY EndKeeps DEF Fail, written, HistoryInv, HistoryTypes

LEMMA RescanKeeps ==
    ASSUME HistoryBounds, HistoryInv, NEW c \in HCaller, Rescan(c) \/ WriteManifest(c) PROVE HistoryInv'
<1>1. UNCHANGED <<files, providers, state, lock, edits>>
  BY DEF Rescan, WriteManifest, written
<1>2. hcall[c].pc \in {"rescan", "manifest"} /\ lock = c
  BY DEF Rescan, WriteManifest, Running, HistoryInv, HoldsTheLock, Outside
<1>3. /\ hcall' \in [HCaller -> ArchiveCalls] /\ hcall'[c].pc \in {"manifest", "state"}
      /\ \A d \in HCaller \ {c} : hcall'[d] = hcall[d]
      /\ hcall'[c].op = hcall[c].op /\ hcall'[c].key = hcall[c].key
      /\ hcall'[c].turn = hcall[c].turn /\ hcall'[c].text = hcall[c].text
  <2>1. CASE Rescan(c)
    <3>1. files \in Archives /\ providers \in Nat
      BY DEF HistoryInv, HistoryTypes, HistoryBounds
    <3>2. hcall' = [hcall EXCEPT ![c].pc = "manifest", ![c].seen = files, ![c].with = providers]
      BY <2>1 DEF Rescan
    <3> HIDE DEF Archives, ArchiveCalls
    <3> QED BY <3>1, <3>2, SeesAndMoves
  <2>2. CASE WriteManifest(c)
    BY <2>2, Moves DEF WriteManifest
  <2> QED BY <2>1, <2>2
<1>4. HistoryTypes'
  BY <1>1, <1>3 DEF HistoryInv, HistoryTypes
<1>5. GivenOf(c)'
  BY <1>3, GivenStay
<1>6. SavedBy(c)'
  BY <1>1, <1>2, <1>3 DEF HistoryInv, CallsKnow, SavedBy
<1> QED BY <1>1, <1>2, <1>3, <1>4, <1>5, <1>6, CallSteps

LEMMA StateKeeps ==
    ASSUME HistoryBounds, HistoryInv, NEW c \in HCaller, WriteState(c)
    PROVE  HistoryInv' /\ (edits' = edits => state'.revision > state.revision)
<1>1. PICK read \in {state, NoState} :
         /\ state' = StateFile(hcall[c], read)
         /\ edits' = edits => read = state
         /\ edits' \in {edits, edits + 1}
  <2>1. edits \in Nat
    BY DEF HistoryInv, HistoryTypes
  <2> QED BY <2>1 DEF WriteState
<1>2. state'.revision = read.revision + 1
  BY <1>1 DEF StateFile
<1>3. state'.current \in 0 .. MaxFile
  <2>1. hcall[c].seen \in Archives
    BY DEF HistoryInv, HistoryTypes, ArchiveCalls
  <2>2. DOMAIN hcall[c].seen \subseteq 1 .. MaxFile
    BY <2>1 DEF Archives
  <2> QED BY <1>1, <2>2 DEF StateFile, HistoryBounds
<1>4. /\ state.revision \in Nat /\ read.revision \in Nat /\ edits \in Nat
      /\ providers \in 0 .. MaxProvider
  BY <1>1 DEF HistoryInv, HistoryTypes, NoState
<1>5. UNCHANGED <<files, providers>> /\ EndCall(c)
  BY DEF WriteState
<1>6. state'.revision \in Nat /\ edits' \in Nat /\ (edits' = edits => state'.revision > state.revision)
  BY <1>1, <1>2, <1>4
<1> QED BY <1>3, <1>4, <1>5, <1>6, EndKeeps

\* state.json is lost, while no call is at work.
LEMMA LossKeeps ==
    ASSUME HistoryBounds, HistoryInv, LoseState
    PROVE  HistoryInv' /\ UNCHANGED <<files, answered>> /\ edits' # edits
<1>1. /\ UNCHANGED <<files, providers, lock, hcall, answered>> /\ edits' = edits + 1 /\ edits \in Nat
      /\ state' = NoState
  BY DEF LoseState, HistoryInv, HistoryTypes
<1>2. HistoryTypes'
  BY <1>1 DEF HistoryInv, HistoryTypes, NoState, HistoryBounds
<1> QED
  BY <1>1, <1>2 DEF HistoryInv, HoldsTheLock, DecidesByNow, CallsKnow, GivenOf, SavedBy

LEMMA CrashKeeps ==
    ASSUME HistoryBounds, HistoryInv, CrashArchive PROVE HistoryInv'
<1>1. Nobody \in ArchiveCalls /\ Nobody.pc = "idle" /\ Nobody.op = "none"
  BY NobodyTyped
<1>2. hcall' = [c \in HCaller |-> Nobody] /\ UNCHANGED <<files, providers, state, edits>>
  BY DEF CrashArchive, written
<1> HIDE DEF Nobody
<1>3. hcall' \in [HCaller -> ArchiveCalls] /\ \A c \in HCaller : hcall'[c] = Nobody
  BY <1>1, <1>2
<1>4. HistoryTypes'
  BY <1>2, <1>3 DEF HistoryInv, HistoryTypes
<1> QED
  BY <1>1, <1>3, <1>4 DEF HistoryInv, HoldsTheLock, DecidesByNow, CallsKnow, GivenOf, SavedBy, Outside

LEMMA LatestIs ==
    ASSUME HistoryBounds, NEW f \in Archives
    PROVE  /\ DOMAIN f \subseteq 1 .. MaxFile /\ f \in [DOMAIN f -> Documents]
           /\ Latest(f) \in 0 .. MaxFile /\ \A k \in DOMAIN f : k <= Latest(f)
           /\ DOMAIN f # {} => Latest(f) \in DOMAIN f
<1>1. DOMAIN f \subseteq 1 .. MaxFile /\ f \in [DOMAIN f -> Documents]
  BY DEF Archives
<1>2. CASE DOMAIN f = {}
  BY <1>1, <1>2 DEF Latest, HistoryBounds
<1>3. CASE DOMAIN f # {}
  <2>1. DOMAIN f \in SUBSET (0 .. MaxFile) /\ MaxFile \in Nat
    BY <1>1 DEF HistoryBounds
  <2>2. \E m \in DOMAIN f : \A k \in DOMAIN f : k <= m
    BY <1>3, <2>1, GreatestNumber
  <2>3. Latest(f) \in DOMAIN f /\ \A k \in DOMAIN f : k <= Latest(f)
    BY <1>3, <2>2 DEF Latest
  <2> QED BY <1>1, <2>3 DEF HistoryBounds
<1> QED BY <1>2, <1>3

LEMMA PutIs ==
    ASSUME NEW f \in Archives, NEW n \in 1 .. MaxFile, NEW doc \in Documents
    PROVE  /\ Put(f, n, doc) \in Archives /\ DOMAIN Put(f, n, doc) = DOMAIN f \cup {n}
           /\ Put(f, n, doc)[n] = doc /\ \A k \in DOMAIN f \ {n} : Put(f, n, doc)[k] = f[k]
<1>1. PICK S \in SUBSET (1 .. MaxFile) : f \in [S -> Documents]
  BY DEF Archives
<1>2. Put(f, n, doc) \in [S \cup {n} -> Documents]
  BY <1>1 DEF Put
<1>3. S \cup {n} \in SUBSET (1 .. MaxFile)
  OBVIOUS
<1> QED BY <1>1, <1>2, <1>3 DEF Put, Archives

\* A call writes a document, or keeps the archive as it is.
LEMMA WritesKeep ==
    ASSUME HistoryBounds, HistoryInv, NEW c \in HCaller, hcall[c].pc = "decide", NEW n \in Nat,
           files' \in Archives, hcall' = [hcall EXCEPT ![c].pc = "rescan", ![c].current = n],
           UNCHANGED <<providers, state, lock, edits>>,
           hcall[c].op = "checkpoint" =>
             Archived(files', hcall[c].key, hcall[c].turn, hcall[c].text)
    PROVE  HistoryInv'
<1>1. hcall \in [HCaller -> ArchiveCalls] /\ hcall[c] \in ArchiveCalls /\ lock = c
  BY DEF HistoryInv, HistoryTypes, HoldsTheLock, Outside
<1> DEFINE r == [hcall[c] EXCEPT !.pc = "rescan", !.current = n]
<1>2. hcall' = [hcall EXCEPT ![c] = r]
  BY <1>1
<1>3. /\ r \in ArchiveCalls /\ r.pc = "rescan" /\ r.op = hcall[c].op /\ r.key = hcall[c].key
      /\ r.turn = hcall[c].turn /\ r.text = hcall[c].text
  BY <1>1 DEF ArchiveCalls
<1> HIDE DEF r, ArchiveCalls
<1>4. /\ hcall' \in [HCaller -> ArchiveCalls] /\ hcall'[c] = r
      /\ \A d \in HCaller \ {c} : hcall'[d] = hcall[d]
  BY <1>1, <1>2, <1>3
<1>5. HistoryTypes'
  BY <1>4 DEF HistoryInv, HistoryTypes
<1>6. GivenOf(c)'
  BY <1>3, <1>4, GivenStay
<1>7. SavedBy(c)'
  BY <1>3, <1>4 DEF SavedBy
<1> QED BY <1>1, <1>3, <1>4, <1>5, <1>6, <1>7, CallSteps

\* What one call does to the archive.
Grows(f, g) ==
    /\ \A n \in DOMAIN f : /\ n \in DOMAIN g
                           /\ IsPrefix(f[n].initial, g[n].initial)
                           /\ IsPrefix(f[n].records, g[n].records)
    /\ ~Ambiguous(f) => ~Ambiguous(g)
    /\ Missing(g) \subseteq Missing(f)

LEMMA PrefixOfItself == \A s : Len(s) \in Nat => IsPrefix(s, s)
BY DEF IsPrefix

LEMMA PrefixOfLonger == ASSUME NEW S, NEW s \in Seq(S), NEW x PROVE IsPrefix(s, Append(s, x))
<1>1. Append(s, x) \in Seq(S \cup {x}) /\ Len(Append(s, x)) = Len(s) + 1 /\ Len(s) \in Nat
  OBVIOUS
<1>2. \A i \in 1 .. Len(s) : Append(s, x)[i] = s[i]
  OBVIOUS
<1>3. SubSeq(s, 1, Len(s)) = SubSeq(Append(s, x), 1, Len(s))
  BY <1>1, <1>2
<1> QED BY <1>1, <1>3 DEF IsPrefix

LEMMA SameArchive0 == ASSUME NEW f \in Archives PROVE Grows(f, f)
<1>1. \A n \in DOMAIN f : f[n] \in Documents
  BY DEF Archives
<1>2. \A n \in DOMAIN f : Len(f[n].initial) \in Nat /\ Len(f[n].records) \in Nat
  BY <1>1 DEF Documents
<1> QED BY <1>2, PrefixOfItself DEF Grows

\* A document that has grown.
LEMMA DocumentGrows ==
    ASSUME HistoryBounds, NEW f \in Archives, NEW n \in DOMAIN f, NEW doc \in Documents, doc.key = f[n].key,
           IsPrefix(f[n].initial, doc.initial), IsPrefix(f[n].records, doc.records)
    PROVE  Grows(f, Put(f, n, doc)) /\ \A k : Of(Put(f, n, doc), k) = Of(f, k)
<1> DEFINE g == Put(f, n, doc)
<1>1. n \in 1 .. MaxFile
  BY LatestIs
<1>2. DOMAIN g = DOMAIN f /\ g[n] = doc /\ \A k \in DOMAIN f \ {n} : g[k] = f[k]
  BY <1>1, PutIs
<1> HIDE DEF g
<1>3. \A k : Of(g, k) = Of(f, k)
  BY <1>2 DEF Of
<1>4. ~Ambiguous(f) => ~Ambiguous(g)
  BY <1>3 DEF Ambiguous
<1>5. Missing(g) = Missing(f)
  BY <1>2 DEF Missing, Latest
<1>6. \A k \in DOMAIN f : IsPrefix(f[k].initial, f[k].initial) /\ IsPrefix(f[k].records, f[k].records)
  BY SameArchive0 DEF Grows
<1>7. Grows(f, g)
  BY <1>2, <1>4, <1>5, <1>6 DEF Grows
<1> QED BY <1>3, <1>7 DEF g

LEMMA AppendsTyped ==
    ASSUME NEW S, NEW s \in Seq(S), NEW x \in S PROVE Append(s, x) \in Seq(S)
OBVIOUS


-----------------------------------------------------------------------------
\* The revisions of the turns of a file.
ChainOf(r) ==
    \A i \in DOMAIN r :
      /\ r[i].revision = Cardinality({j \in 1 .. i : r[j].turn = r[i].turn})
      /\ \A j \in 1 .. (i - 1) : r[j].turn = r[i].turn => r[j].text # r[i].text
Records == [turn : Turn \cup Text, text : Text, revision : Nat \ {0}]

\* The next revision of a turn is one more than it has records.
LEMMA NextIsCount ==
    ASSUME NEW doc \in Documents, ChainOf(doc.records), NEW t
    PROVE  /\ Cardinality(OfTurn(doc, t)) \in Nat /\ IsFiniteSet(OfTurn(doc, t))
           /\ NextRevision(doc, t) = Cardinality(OfTurn(doc, t)) + 1
<1> DEFINE r == doc.records
           Mine == OfTurn(doc, t)
           R == {r[i].revision : i \in Mine}
           N == Len(r)
<1>1. r \in Seq(Records) /\ N \in Nat /\ DOMAIN r = 1 .. N
  BY DEF Documents, Records
<1>2. Mine = {i \in 1 .. N : r[i].turn = t}
  BY <1>1 DEF OfTurn
<1> DEFINE Upto(i) == {j \in 1 .. i : r[j].turn = t}
<1>3. \A i \in Mine : r[i].revision = Cardinality(Upto(i))
  BY <1>1, <1>2 DEF ChainOf
<1>4. IsFiniteSet(Mine) /\ Cardinality(Mine) \in Nat
  <2>1. \A n \in Nat : IsFiniteSet(1 .. n)
    BY FS_Interval
  <2> HIDE DEF N, Mine, r
  <2>2. IsFiniteSet(1 .. N) /\ Mine \subseteq 1 .. N
    BY <1>1, <1>2, <2>1
  <2> QED BY <2>2, FS_Subset, FS_CardinalityType
<1>5. LatestOf(doc, t) = IF R = {} THEN 0 ELSE CHOOSE m \in R : \A n \in R : n <= m
  BY DEF LatestOf
<1> HIDE DEF r, Mine, N, R
<1>6. CASE Mine = {}
  BY <1>4, <1>5, <1>6, FS_EmptySet DEF R, Mine, NextRevision
<1>7. CASE Mine # {}
  <2>0. Mine \in SUBSET (0 .. N)
    BY <1>1, <1>2
  <2>1. PICK top \in Mine : \A i \in Mine : i <= top
    BY <1>1, <1>7, <2>0, GreatestNumber
  <2>2. Upto(top) = Mine
    BY <1>1, <1>2, <2>1
  <2>3. r[top].revision = Cardinality(Mine)
    BY <1>3, <2>1, <2>2
  <2>4. ASSUME NEW i \in Mine PROVE r[i].revision \in Nat /\ r[i].revision <= Cardinality(Mine)
    <3>1. Upto(i) \subseteq Mine
      BY <1>1, <1>2
    <3>2. IsFiniteSet(Mine) /\ r[i].revision = Cardinality(Upto(i))
      BY <1>3, <1>4
    <3>3. Cardinality(Upto(i)) \in Nat /\ Cardinality(Upto(i)) <= Cardinality(Mine)
      BY <3>1, <3>2, FS_Subset, FS_CardinalityType
    <3> QED BY <3>2, <3>3
  <2>5. Cardinality(Mine) \in R /\ \A n \in R : n \in Nat /\ n <= Cardinality(Mine)
    BY <2>1, <2>3, <2>4 DEF R
  <2>6. (CHOOSE m \in R : \A n \in R : n <= m) = Cardinality(Mine)
    <3> DEFINE m == CHOOSE m \in R : \A n \in R : n <= m
    <3>1. m \in R /\ \A n \in R : n <= m
      BY <2>5
    <3> HIDE DEF m
    <3>2. m \in Nat /\ m <= Cardinality(Mine) /\ Cardinality(Mine) <= m
      BY <2>5, <3>1
    <3>3. m = Cardinality(Mine)
      BY <1>4, <3>2
    <3> QED BY <3>3 DEF m
  <2> QED BY <1>4, <1>5, <2>5, <2>6 DEF Mine, NextRevision
<1> QED BY <1>6, <1>7

LEMMA ChainGoesOn ==
    ASSUME NEW doc \in Documents, ChainOf(doc.records), NEW t \in Turn \cup Text, NEW x \in Text,
           ~Known(doc, t, x), NEW new,
           new = Append(doc.records, [turn |-> t, text |-> x, revision |-> NextRevision(doc, t)])
    PROVE  new \in Seq(Records) /\ ChainOf(new)
<1> DEFINE r == doc.records
           N == Len(r)
           Mine == OfTurn(doc, t)
           rec == [turn |-> t, text |-> x, revision |-> NextRevision(doc, t)]
<1>1. r \in Seq(Records) /\ N \in Nat /\ DOMAIN r = 1 .. N
  BY DEF Documents, Records
<1>2. Cardinality(Mine) \in Nat /\ IsFiniteSet(Mine) /\ NextRevision(doc, t) = Cardinality(Mine) + 1
  BY NextIsCount
<1>3. rec \in Records /\ rec.turn = t /\ rec.text = x /\ rec.revision = Cardinality(Mine) + 1
  BY <1>2 DEF Records
<1>4. Mine = {i \in 1 .. N : r[i].turn = t}
  BY <1>1 DEF OfTurn
<1>5. \A i \in Mine : r[i].text # x
  BY DEF Known
<1>n. N = Len(r)
  OBVIOUS
<1> HIDE DEF rec, Mine, N, r
<1>6. new = Append(r, rec)
  BY DEF r, rec
<1>7. /\ new \in Seq(Records) /\ DOMAIN new = 1 .. N + 1 /\ new[N + 1] = rec
      /\ \A i \in 1 .. N : new[i] = r[i]
  <2>1. new \in Seq(Records)
    BY <1>1, <1>3, <1>6, AppendsTyped
  <2>2. Len(new) = N + 1
    BY <1>1, <1>6, <1>n
  <2> QED BY <1>1, <1>6, <1>n, <2>1, <2>2
<1>8. ASSUME NEW i \in 1 .. N
      PROVE  /\ new[i].revision = Cardinality({j \in 1 .. i : new[j].turn = new[i].turn})
             /\ \A j \in 1 .. (i - 1) : new[j].turn = new[i].turn => new[j].text # new[i].text
  <2>1. /\ r[i].revision = Cardinality({j \in 1 .. i : r[j].turn = r[i].turn})
        /\ \A j \in 1 .. (i - 1) : r[j].turn = r[i].turn => r[j].text # r[i].text
    BY <1>1 DEF ChainOf, r
  <2>2. new[i] = r[i] /\ \A j \in 1 .. i : new[j] = r[j]
    BY <1>1, <1>7
  <2>3. {j \in 1 .. i : r[j].turn = r[i].turn} = {j \in 1 .. i : new[j].turn = new[i].turn}
    BY <2>2
  <2>4. \A j \in 1 .. (i - 1) : j \in 1 .. i
    BY <1>1
  <2>5. new[i].revision = Cardinality({j \in 1 .. i : new[j].turn = new[i].turn})
    BY <2>1, <2>2, <2>3
  <2>6. \A j \in 1 .. (i - 1) : new[j].turn = new[i].turn => new[j].text # new[i].text
    BY <2>1, <2>2, <2>4
  <2> QED BY <2>5, <2>6
<1>9. ASSUME NEW i, i = N + 1
      PROVE  new[i].revision = Cardinality({j \in 1 .. i : new[j].turn = new[i].turn})
  <2>1. {j \in 1 .. i : new[j].turn = new[i].turn} = Mine \cup {N + 1}
    BY <1>1, <1>3, <1>4, <1>7, <1>9
  <2>2. N + 1 \notin Mine
    BY <1>1, <1>4
  <2>3. Cardinality(Mine \cup {N + 1}) = Cardinality(Mine) + 1
    BY <1>2, <2>2, FS_AddElement
  <2>4. new[i].revision = Cardinality(Mine) + 1
    BY <1>3, <1>7, <1>9
  <2> QED BY <2>1, <2>3, <2>4
<1>10. \A j \in 1 .. N : new[j].turn = rec.turn => new[j].text # rec.text
  BY <1>3, <1>4, <1>5, <1>7
<1>11. ChainOf(new)
  <2> SUFFICES ASSUME NEW i \in 1 .. N + 1
               PROVE  /\ new[i].revision = Cardinality({j \in 1 .. i : new[j].turn = new[i].turn})
                      /\ \A j \in 1 .. (i - 1) : new[j].turn = new[i].turn => new[j].text # new[i].text
    BY <1>7 DEF ChainOf
  <2>1. CASE i \in 1 .. N
    BY <1>8, <2>1
  <2>2. CASE i = N + 1
    <3>1. (i - 1) = N
      BY <1>1, <2>2
    <3>2. \A j \in 1 .. (i - 1) : new[j].turn = new[i].turn => new[j].text # new[i].text
      BY <1>7, <1>10, <2>2, <3>1
    <3> QED BY <1>9, <2>2, <3>2
  <2>3. i \in 1 .. N \/ i = N + 1
    BY <1>1
  <2> QED BY <2>1, <2>2, <2>3
<1> QED BY <1>3, <1>7, <1>11 DEF N, r

Chains(f) == \A n \in DOMAIN f : ChainOf(f[n].records)

\* A file keeps its key and its records.
Stays(f, g) ==
    \A n \in DOMAIN f :
      /\ n \in DOMAIN g /\ g[n].key = f[n].key
      /\ \A i \in DOMAIN f[n].records : i \in DOMAIN g[n].records /\ g[n].records[i] = f[n].records[i]

LEMMA StoredStays ==
    ASSUME NEW f, NEW g, Stays(f, g), NEW k, NEW t, NEW x, Archived(f, k, t, x) PROVE Archived(g, k, t, x)
BY DEF Stays, Archived, Of, Known, OfTurn

\* A document that holds the records of the one it replaces.
LEMMA PutStays ==
    ASSUME HistoryBounds, NEW f \in Archives, NEW n \in 1 .. MaxFile, NEW doc \in Documents, ChainOf(doc.records),
           n \in DOMAIN f =>
             /\ doc.key = f[n].key
             /\ \A i \in DOMAIN f[n].records : i \in DOMAIN doc.records /\ doc.records[i] = f[n].records[i]
    PROVE  Stays(f, Put(f, n, doc)) /\ (Chains(f) => Chains(Put(f, n, doc)))
<1> DEFINE g == Put(f, n, doc)
<1>1. DOMAIN g = DOMAIN f \cup {n} /\ g[n] = doc /\ \A k \in DOMAIN f \ {n} : g[k] = f[k]
  BY PutIs
<1> HIDE DEF g
<1>2. Stays(f, g) /\ (Chains(f) => Chains(g))
  BY <1>1 DEF Stays, Chains
<1> QED BY <1>2 DEF g

\* bootstrap of a known key.
LEMMA ResumeKeeps ==
    ASSUME HistoryBounds, HistoryInv, Chains(files), NEW c \in HCaller, Resume(c)
    PROVE  HistoryInv' /\ Grows(files, files') /\ Stays(files, files') /\ Chains(files') /\ UNCHANGED edits
<1> DEFINE x == hcall[c].text
<1>1. /\ hcall[c].pc = "decide" /\ hcall[c].op = "bootstrap" /\ hcall[c].seen = files
      /\ UNCHANGED <<providers, state, lock, edits>> /\ files \in Archives
      /\ x \in Text \cup {NoText}
  BY DEF Resume, Running, HistoryInv, DecidesByNow, HistoryTypes, ArchiveCalls
<1>2. PICK n \in Of(files, hcall[c].key) :
         \/ x \in Range(files[n].initial) \cup {NoText} /\ Keep(c, n)
         \/ /\ x \notin Range(files[n].initial) \cup {NoText}
            /\ Store(c, n, [files[n] EXCEPT !.initial = Append(@, x)])
  BY <1>1 DEF Resume
<1>3. n \in DOMAIN files /\ n \in Nat /\ files[n] \in Documents
  BY <1>1, <1>2, LatestIs DEF Of
<1>4. CASE Keep(c, n)
  <2>1. files' = files /\ hcall' = [hcall EXCEPT ![c].pc = "rescan", ![c].current = n]
    BY <1>4 DEF Keep
  <2>2. HistoryInv' /\ Grows(files, files')
    BY <1>1, <1>3, <2>1, WritesKeep, SameArchive0
  <2> QED BY <1>1, <2>1, <2>2 DEF Stays
<1>5. CASE x \in Text /\ Store(c, n, [files[n] EXCEPT !.initial = Append(@, x)])
  <2> DEFINE doc == [files[n] EXCEPT !.initial = Append(@, x)]
  <2>1. /\ files[n].initial \in Seq(Text) /\ doc.key = files[n].key /\ doc.records = files[n].records
        /\ doc.initial = Append(files[n].initial, x)
    BY <1>3 DEF Documents
  <2>2. Append(files[n].initial, x) \in Seq(Text)
    BY <1>5, <2>1, AppendsTyped
  <2>3. doc \in Documents
    BY <1>3, <2>2 DEF Documents
  <2>4. files' = Put(files, n, doc) /\ hcall' = [hcall EXCEPT ![c].pc = "rescan", ![c].current = n]
    BY <1>5 DEF Store
  <2>5. IsPrefix(files[n].initial, doc.initial) /\ IsPrefix(files[n].records, doc.records)
    BY <1>1, <1>3, <2>1, PrefixOfLonger, SameArchive0 DEF Grows
  <2> HIDE DEF doc
  <2>6. Grows(files, files')
    BY <1>1, <1>3, <2>1, <2>3, <2>4, <2>5, DocumentGrows
  <2>7. files' \in Archives
    BY <1>1, <1>3, <2>3, <2>4, PutIs, LatestIs
  <2>8. HistoryInv'
    BY <1>1, <1>3, <2>4, <2>7, WritesKeep
  <2>9. ChainOf(doc.records)
    BY <1>3, <2>1 DEF Chains
  <2>10. n \in 1 .. MaxFile
    BY <1>1, <1>3, LatestIs
  <2>11. Stays(files, files') /\ Chains(files')
    BY <1>1, <2>1, <2>3, <2>4, <2>9, <2>10, PutStays
  <2> QED BY <1>1, <2>6, <2>8, <2>11
<1> QED BY <1>1, <1>2, <1>4, <1>5

\* bootstrap of a new key: the next number, which closes no gap and opens none.
LEMMA CreateKeeps ==
    ASSUME HistoryBounds, HistoryInv, Chains(files), NEW c \in HCaller, Create(c)
    PROVE  HistoryInv' /\ Grows(files, files') /\ Stays(files, files') /\ Chains(files') /\ UNCHANGED edits
<1> DEFINE x == hcall[c].text
           k == hcall[c].key
           n == Latest(files) + 1
           doc == [key |-> k, initial |-> IF x = NoText THEN <<>> ELSE <<x>>, records |-> <<>>]
<1>1. /\ hcall[c].pc = "decide" /\ hcall[c].op = "bootstrap" /\ hcall[c].seen = files
      /\ UNCHANGED <<providers, state, lock, edits>> /\ files \in Archives
      /\ x \in Text \cup {NoText}
  BY DEF Create, Running, HistoryInv, DecidesByNow, HistoryTypes, ArchiveCalls
<1>2. /\ ~Ambiguous(files) /\ Missing(files) = {} /\ Of(files, k) = {} /\ n <= MaxFile
      /\ Store(c, n, doc)
  BY <1>1 DEF Create
<1>3. k \in Key
  BY <1>1 DEF HistoryInv, CallsKnow, GivenOf
<1>4. n \in 1 .. MaxFile /\ n \notin DOMAIN files
  BY <1>1, <1>2, LatestIs DEF HistoryBounds
<1>5. doc \in Documents
  <2>1. (IF x = NoText THEN <<>> ELSE <<x>>) \in Seq(Text)
    BY <1>1
  <2>2. <<>> \in Seq([turn : Turn \cup Text, text : Text, revision : Nat \ {0}])
    OBVIOUS
  <2> QED BY <1>3, <2>1, <2>2 DEF Documents
<1>6. doc.key = k
  OBVIOUS
<1>7. files' = Put(files, n, doc) /\ hcall' = [hcall EXCEPT ![c].pc = "rescan", ![c].current = n]
  BY <1>2 DEF Store
<1> HIDE DEF doc, n
<1>8. /\ files' \in Archives /\ DOMAIN files' = DOMAIN files \cup {n} /\ files'[n] = doc
      /\ \A i \in DOMAIN files \ {n} : files'[i] = files[i]
  BY <1>1, <1>4, <1>5, <1>7, PutIs
<1>9. \A i \in DOMAIN files : IsPrefix(files[i].initial, files[i].initial)
                              /\ IsPrefix(files[i].records, files[i].records)
  BY <1>1, SameArchive0 DEF Grows
<1>10. ~Ambiguous(files')
  <2>1. Of(files', k) = {n}
    BY <1>2, <1>4, <1>6, <1>8 DEF Of
  <2>2. ASSUME NEW j \in Key, j # k PROVE Of(files', j) = Of(files, j)
    BY <1>4, <1>6, <1>8, <2>2 DEF Of
  <2>3. Cardinality({n}) = 1
    BY FS_Singleton
  <2>4. Cardinality(Of(files', k)) = 1
    BY <2>1, <2>3
  <2> QED BY <1>2, <2>2, <2>4 DEF Ambiguous
<1>11. Missing(files') = {}
  <2>1. Latest(files') \in 0 .. MaxFile /\ \A i \in DOMAIN files' : i <= Latest(files')
        /\ (DOMAIN files' # {} => Latest(files') \in DOMAIN files')
    BY <1>8, LatestIs
  <2>2. \A i \in DOMAIN files : i < n
    BY <1>1, LatestIs DEF n
  <2>3. Latest(files') = n
    BY <1>4, <1>8, <2>1, <2>2, LatestIs, <1>1
  <2>4. 1 .. Latest(files) \subseteq DOMAIN files
    BY <1>2 DEF Missing
  <2>5. 1 .. n = (1 .. Latest(files)) \cup {n}
    BY <1>1, LatestIs DEF n
  <2> QED BY <1>8, <2>3, <2>4, <2>5 DEF Missing
<1>12. Grows(files, files')
  BY <1>4, <1>8, <1>9, <1>10, <1>11 DEF Grows
<1>13. n \in Nat /\ hcall[c].op # "checkpoint"
  BY <1>1, <1>4
<1>14. HistoryInv'
  BY <1>1, <1>7, <1>8, <1>13, WritesKeep
<1>15. ChainOf(doc.records)
  BY DEF ChainOf, doc
<1>16. Stays(files, files') /\ Chains(files')
  BY <1>1, <1>4, <1>5, <1>7, <1>15, PutStays
<1> QED BY <1>1, <1>12, <1>14, <1>16


LEMMA AppendKeeps ==
    ASSUME NEW S, NEW s \in Seq(S), NEW x
    PROVE  Len(s) + 1 \in DOMAIN Append(s, x) /\ \A i \in DOMAIN s : i \in DOMAIN Append(s, x) /\ Append(s, x)[i] = s[i]
<1>1. Append(s, x) \in Seq(S \cup {x}) /\ Len(Append(s, x)) = Len(s) + 1 /\ Len(s) \in Nat
  OBVIOUS
<1>2. \A i \in 1 .. Len(s) : Append(s, x)[i] = s[i]
  OBVIOUS
<1> QED BY <1>1, <1>2

\* A document with one more record.
Recorded(doc, t, x) ==
    [doc EXCEPT !.records = Append(@, [turn |-> t, text |-> x, revision |-> NextRevision(doc, t)])]

LEMMA RecordedIs ==
    ASSUME NEW old \in Documents, ChainOf(old.records), NEW t \in Turn \cup Text, NEW x \in Text,
           ~Known(old, t, x), NEW doc, doc = Recorded(old, t, x)
    PROVE  /\ doc \in Documents /\ doc.key = old.key /\ ChainOf(doc.records)
           /\ IsPrefix(old.initial, doc.initial) /\ IsPrefix(old.records, doc.records)
           /\ \A i \in DOMAIN old.records : i \in DOMAIN doc.records /\ doc.records[i] = old.records[i]
           /\ Known(doc, t, x)
<1> DEFINE more == Append(old.records, [turn |-> t, text |-> x, revision |-> NextRevision(old, t)])
<1>1. /\ old.records \in Seq(Records) /\ old.initial \in Seq(Text)
      /\ doc.key = old.key /\ doc.initial = old.initial /\ doc.records = more
  BY DEF Documents, Records, Recorded
<1>2. more \in Seq(Records)
  BY ChainGoesOn, Zenon
<1>c. ChainOf(more)
  BY ChainGoesOn, Zenon
<1>t. more[Len(old.records) + 1].turn = t /\ more[Len(old.records) + 1].text = x
  <2>1. more[Len(old.records) + 1] = [turn |-> t, text |-> x, revision |-> NextRevision(old, t)]
    BY <1>1
  <2> QED BY <2>1
<1>3. Len(old.records) + 1 \in DOMAIN more /\ \A i \in DOMAIN old.records : i \in DOMAIN more /\ more[i] = old.records[i]
  BY <1>1, AppendKeeps
<1>4. IsPrefix(old.records, more) /\ IsPrefix(old.initial, old.initial)
  BY <1>1, PrefixOfLonger, PrefixOfItself
<1>5. doc \in Documents
  BY <1>1, <1>2 DEF Recorded, Documents, Records
<1> HIDE DEF more
<1>6. Known(doc, t, x)
  BY <1>1, <1>t, <1>3 DEF Known, OfTurn
<1> QED BY <1>1, <1>c, <1>3, <1>4, <1>5, <1>6

\* checkpoint: the record is there, or is put after the others.
LEMMA CheckpointKeeps ==
    ASSUME HistoryBounds, HistoryInv, Chains(files), NEW c \in HCaller, Checkpoint(c)
    PROVE  HistoryInv' /\ Grows(files, files') /\ Stays(files, files') /\ Chains(files') /\ UNCHANGED edits
<1> DEFINE k == hcall[c].key
           n == hcall[c].path
           t == hcall[c].turn
           x == hcall[c].text
           old == files[n]
           doc == Recorded(old, t, x)
<1>1. /\ hcall[c].pc = "decide" /\ hcall[c].op = "checkpoint" /\ hcall[c].seen = files
      /\ UNCHANGED <<providers, state, lock, edits>> /\ files \in Archives
  BY DEF Checkpoint, Running, HistoryInv, DecidesByNow, HistoryTypes
<1>2. /\ n \in Of(files, k)
      /\ \/ Known(old, t, x) /\ Keep(c, n)
         \/ ~Known(old, t, x) /\ Store(c, n, doc)
  BY <1>1 DEF Checkpoint, Recorded
<1>3. k \in Key /\ x \in Text /\ t \in Turn \cup Text
  BY <1>1 DEF HistoryInv, CallsKnow, GivenOf
<1>4. n \in DOMAIN files /\ n \in 1 .. MaxFile /\ n \in Nat /\ old \in Documents /\ old.key = k
      /\ ChainOf(old.records)
  BY <1>1, <1>2, LatestIs DEF Of, Chains
<1>5. CASE Known(old, t, x) /\ Keep(c, n)
  <2>1. files' = files /\ hcall' = [hcall EXCEPT ![c].pc = "rescan", ![c].current = n]
    BY <1>5 DEF Keep
  <2>2. Archived(files', k, t, x)
    BY <1>2, <1>5, <2>1 DEF Archived
  <2>3. HistoryInv' /\ Grows(files, files')
    BY <1>1, <1>4, <2>1, <2>2, WritesKeep, SameArchive0
  <2> QED BY <1>1, <2>1, <2>3 DEF Stays
<1>6. CASE ~Known(old, t, x) /\ Store(c, n, doc)
  <2>1. files' = Put(files, n, doc) /\ hcall' = [hcall EXCEPT ![c].pc = "rescan", ![c].current = n]
    BY <1>6 DEF Store
  <2>2. /\ doc \in Documents /\ doc.key = old.key /\ ChainOf(doc.records)
        /\ IsPrefix(old.initial, doc.initial) /\ IsPrefix(old.records, doc.records)
        /\ \A i \in DOMAIN old.records : i \in DOMAIN doc.records /\ doc.records[i] = old.records[i]
        /\ Known(doc, t, x)
    BY <1>3, <1>4, <1>6, RecordedIs
  <2> HIDE DEF doc
  <2>3. Grows(files, files')
    BY <1>1, <1>4, <2>1, <2>2, DocumentGrows
  <2>4. files' \in Archives /\ n \in DOMAIN files' /\ files'[n] = doc
    <3>1. n \in 1 .. MaxFile /\ doc \in Documents /\ files \in Archives
      BY <1>1, <1>4, <2>2
    <3>2. Put(files, n, doc) \in Archives
      BY <3>1, PutIs
    <3>3. n \in DOMAIN Put(files, n, doc)
      BY DEF Put
    <3>4. Put(files, n, doc)[n] = doc
      BY DEF Put
    <3> QED BY <2>1, <3>2, <3>3, <3>4
  <2>5. Stays(files, files') /\ Chains(files')
    BY <1>1, <1>4, <2>1, <2>2, PutStays
  <2>6. Archived(files', k, t, x)
    BY <1>4, <2>2, <2>4 DEF Archived, Of
  <2>7. HistoryInv'
    BY <1>1, <1>4, <2>1, <2>4, <2>6, WritesKeep
  <2> QED BY <1>1, <2>3, <2>5, <2>7
<1> QED BY <1>2, <1>5, <1>6

LEMMA RepairKeeps ==
    ASSUME HistoryBounds, HistoryInv, NEW c \in HCaller, Repair(c) \/ RefreshDerived(c)
    PROVE  HistoryInv' /\ UNCHANGED <<files, edits>>
<1>1. /\ hcall[c].pc = "decide" /\ hcall[c].op # "checkpoint" /\ hcall[c].seen = files
      /\ UNCHANGED <<providers, state, lock, edits>> /\ files \in Archives /\ state.current \in 0 .. MaxFile
  BY DEF Repair, RefreshDerived, Running, HistoryInv, DecidesByNow, HistoryTypes
<1>2. Latest(files) \in 0 .. MaxFile
  BY <1>1, LatestIs
<1>3. PICK n \in 0 .. MaxFile : Keep(c, n)
  BY <1>1, <1>2 DEF Repair, RefreshDerived, HistoryBounds
<1>4. files' = files /\ hcall' = [hcall EXCEPT ![c].pc = "rescan", ![c].current = n] /\ n \in Nat
  BY <1>3 DEF Keep, HistoryBounds
<1> QED BY <1>1, <1>4, WritesKeep

\* A file is removed or copied by hand, while no call decides.
LEMMA EditKeeps ==
    ASSUME HistoryBounds, HistoryInv, Chains(files), AnsweredIsStored, EditFiles
    PROVE  HistoryInv' /\ Chains(files') /\ AnsweredIsStored' /\ edits' # edits
<1>1. /\ lock = NoCaller /\ edits \in Nat /\ edits' = edits + 1 /\ files \in Archives
      /\ UNCHANGED <<providers, state, lock, hcall>>
  BY DEF EditFiles, HistoryInv, HistoryTypes
<1>2. PICK n \in DOMAIN files :
         \/ /\ files' = [k \in DOMAIN files \ {n} |-> files[k]]
            /\ answered' = {a \in answered : a[1] # files[n].key}
         \/ /\ Latest(files) < MaxFile
            /\ files' = Put(files, Latest(files) + 1, files[n])
            /\ UNCHANGED answered
  BY DEF EditFiles
<1>3. n \in 1 .. MaxFile /\ files[n] \in Documents /\ ChainOf(files[n].records)
  BY <1>1, LatestIs DEF Chains
<1>4. files' \in Archives /\ Chains(files') /\ AnsweredIsStored'
  <2>1. CASE files' = [k \in DOMAIN files \ {n} |-> files[k]] /\ answered' = {a \in answered : a[1] # files[n].key}
    <3>1. files' \in [DOMAIN files \ {n} -> Documents]
      BY <1>1, <2>1, LatestIs
    <3>2. files' \in Archives
      BY <1>1, <3>1, LatestIs DEF Archives
    <3>3. Chains(files')
      BY <2>1 DEF Chains
    <3>4. ASSUME NEW a \in answered' PROVE \E m \in DOMAIN files' : files'[m].key = a[1] /\ Known(files'[m], a[2], a[3])
      <4>1. PICK m \in DOMAIN files : files[m].key = a[1] /\ Known(files[m], a[2], a[3])
        BY <2>1 DEF AnsweredIsStored, Of
      <4> QED BY <2>1, <4>1
    <3>5. AnsweredIsStored'
      BY <3>4 DEF AnsweredIsStored, Of
    <3> QED BY <3>2, <3>3, <3>5
  <2>2. CASE Latest(files) < MaxFile /\ files' = Put(files, Latest(files) + 1, files[n]) /\ UNCHANGED answered
    <3>1. Latest(files) + 1 \in 1 .. MaxFile /\ Latest(files) + 1 \notin DOMAIN files
      BY <1>1, <2>2, LatestIs DEF HistoryBounds
    <3>2. files' \in Archives
      BY <1>1, <1>3, <2>2, <3>1, PutIs
    <3>3. Stays(files, files') /\ Chains(files')
      BY <1>1, <1>3, <2>2, <3>1, PutStays
    <3>4. AnsweredIsStored'
      BY <2>2, <3>3 DEF AnsweredIsStored, Stays, Of, Known, OfTurn
    <3> QED BY <3>2, <3>3, <3>4
  <2> QED BY <1>2, <2>1, <2>2
<1>5. \A c \in HCaller : hcall[c].pc \in Outside
  BY <1>1 DEF HistoryInv, HoldsTheLock, HistoryBounds
<1>6. HistoryTypes'
  BY <1>1, <1>4 DEF HistoryInv, HistoryTypes
<1>7. HistoryInv'
  BY <1>1, <1>5, <1>6 DEF HistoryInv, HoldsTheLock, DecidesByNow, CallsKnow, GivenOf, SavedBy, Outside
<1> QED BY <1>1, <1>4, <1>7

-----------------------------------------------------------------------------
(* The pages of a file                                                     *)

Letters == Key \cup Text

LEMMA SaidTyped ==
    ASSUME NEW doc \in Documents
    PROVE  /\ [i \in DOMAIN doc.records |-> doc.records[i].text] \in Seq(Letters)
           /\ <<doc.key>> \in Seq(Letters) /\ doc.initial \in Seq(Letters)
<1>1. /\ doc.key \in Key /\ doc.initial \in Seq(Text)
      /\ doc.records \in Seq([turn : Turn \cup Text, text : Text, revision : Nat \ {0}])
  BY DEF Documents
<1>2. [i \in DOMAIN doc.records |-> doc.records[i].text] \in Seq(Letters)
  <2>1. \A i \in 1 .. Len(doc.records) : doc.records[i].text \in Letters
    <3>1. ASSUME NEW i \in 1 .. Len(doc.records)
          PROVE  doc.records[i] \in [turn : Turn \cup Text, text : Text, revision : Nat \ {0}]
      BY <1>1, ElementOfSeq
    <3>2. ASSUME NEW r \in [turn : Turn \cup Text, text : Text, revision : Nat \ {0}] PROVE r.text \in Letters
      BY DEF Letters
    <3> QED BY <3>1, <3>2
  <2>2. DOMAIN doc.records = 1 .. Len(doc.records) /\ Len(doc.records) \in Nat
    BY <1>1
  <2> QED BY <2>1, <2>2
<1>3. <<doc.key>> \in Seq(Letters) /\ doc.initial \in Seq(Letters)
  BY <1>1 DEF Letters
<1> QED BY <1>2, <1>3

LEMMA CharactersTyped ==
    ASSUME NEW doc \in Documents PROVE Characters(doc) \in Seq(Letters)
BY SaidTyped DEF Characters

\* A character ends after at least as many bytes as there are characters.
LEMMA OffsetIs ==
    ASSUME NEW s, NEW i \in Nat
    PROVE  Offset(s, i) \in Nat /\ i <= Offset(s, i) /\ (i = 0 => Offset(s, i) = 0)
<1> DEFINE W == {j \in 1 .. i : s[j] \in Text}
<1>1. IsFiniteSet(1 .. i)
  BY FS_Interval
<1>2. Cardinality(W) \in Nat
  BY <1>1, FS_Subset, FS_CardinalityType
<1>3. i = 0 => W = {}
  OBVIOUS
<1>4. Offset(s, i) = i + 2 * Cardinality(W)
  BY DEF Offset
<1> HIDE DEF W
<1> QED BY <1>2, <1>3, <1>4, FS_EmptySet

LEMMA BoundaryIs ==
    ASSUME NEW s \in Seq(Letters) PROVE Boundary(s) \subseteq Nat /\ 0 \in Boundary(s)
<1>1. Len(s) \in Nat
  OBVIOUS
<1>2. \A i \in 0 .. Len(s) : Offset(s, i) \in Nat
  BY <1>1, OffsetIs
<1>3. Offset(s, 0) = 0 /\ 0 \in 0 .. Len(s)
  BY <1>1, OffsetIs
<1> QED BY <1>2, <1>3 DEF Boundary

\* How many characters end in the first b bytes.
LEMMA CharactersToIs ==
    ASSUME NEW s \in Seq(Letters), NEW b \in Nat, NEW d \in Nat, b <= d
    PROVE  /\ CharactersTo(s, b) \in Nat /\ CharactersTo(s, d) \in Nat
           /\ CharactersTo(s, b) <= CharactersTo(s, d) /\ CharactersTo(s, d) <= Len(s)
           /\ CharactersTo(s, 0) = 0
<1> DEFINE Upto(x) == {i \in DOMAIN s : Offset(s, i) <= x}
<1>1. DOMAIN s = 1 .. Len(s) /\ Len(s) \in Nat
  OBVIOUS
<1>2. \A i \in DOMAIN s : Offset(s, i) \in Nat /\ i <= Offset(s, i)
  BY <1>1, OffsetIs
<1>3. Upto(b) \subseteq Upto(d) /\ Upto(d) \subseteq 1 .. Len(s) /\ Upto(0) = {}
  BY <1>1, <1>2
<1>4. IsFiniteSet(1 .. Len(s)) /\ Cardinality(1 .. Len(s)) = Len(s)
  BY <1>1, FS_Interval
<1> HIDE DEF Upto
<1>5. IsFiniteSet(Upto(d)) /\ Cardinality(Upto(d)) <= Len(s)
  BY <1>3, <1>4, FS_Subset
<1>6. IsFiniteSet(Upto(b)) /\ Cardinality(Upto(b)) <= Cardinality(Upto(d))
  BY <1>3, <1>5, FS_Subset
<1>7. Cardinality(Upto(d)) \in Nat /\ Cardinality(Upto(b)) \in Nat
  BY <1>5, <1>6, FS_CardinalityType
<1>8. Cardinality(Upto(0)) = 0
  BY <1>3, FS_EmptySet
<1> QED BY <1>5, <1>6, <1>7, <1>8 DEF CharactersTo, Upto

\* A page ends where a character does, and not before it begins.
LEMMA PageEndIs ==
    ASSUME HistoryBounds, NEW s \in Seq(Letters), NEW cursor0 \in Boundary(s)
    PROVE  PageEnd(s, cursor0) \in Boundary(s) /\ cursor0 <= PageEnd(s, cursor0)
<1> DEFINE In == {b \in Boundary(s) : cursor0 < b /\ b <= cursor0 + PageBytes}
           Beyond == {b \in Boundary(s) : cursor0 < b}
<1>1. Boundary(s) \subseteq Nat /\ cursor0 \in Nat
  BY BoundaryIs
<1>2. CASE In # {}
  <2>1. cursor0 + PageBytes \in Nat /\ In \in SUBSET (0 .. cursor0 + PageBytes)
    BY <1>1 DEF HistoryBounds
  <2>2. \E m \in In : \A n \in In : n <= m
    <3> HIDE DEF In
    <3> QED BY <1>2, <2>1, GreatestNumber
  <2>3. (CHOOSE b \in In : \A d \in In : d <= b) \in In
    BY <2>2
  <2>4. PageEnd(s, cursor0) = CHOOSE b \in In : \A d \in In : d <= b
    BY <1>2 DEF PageEnd
  <2>5. PageEnd(s, cursor0) \in In
    BY <2>3, <2>4
  <2> QED BY <1>1, <2>5
<1>3. CASE In = {} /\ Beyond # {}
  <2>1. Beyond \in SUBSET Nat
    BY <1>1
  <2>2. \E m \in Beyond : \A n \in Beyond : m <= n
    <3> HIDE DEF Beyond
    <3> QED BY <1>3, <2>1, LeastNumber
  <2>3. (CHOOSE b \in Beyond : \A d \in Beyond : b <= d) \in Beyond
    BY <2>2
  <2>4. PageEnd(s, cursor0) = CHOOSE b \in Beyond : \A d \in Beyond : b <= d
    BY <1>3 DEF PageEnd
  <2>5. PageEnd(s, cursor0) \in Beyond
    BY <2>3, <2>4
  <2> QED BY <1>1, <2>5
<1>4. CASE In = {} /\ Beyond = {}
  BY <1>1, <1>4 DEF PageEnd
<1> QED BY <1>2, <1>3, <1>4

LEMMA SubSeqsMeet ==
    ASSUME NEW S, NEW s \in Seq(S), NEW m \in Nat, NEW n \in Nat, m <= n, n <= Len(s)
    PROVE  SubSeq(s, 1, m) \o SubSeq(s, m + 1, n) = SubSeq(s, 1, n)
OBVIOUS

-----------------------------------------------------------------------------
\* Before its first page a reader has nothing.
ReaderInv ==
    /\ reader = [path |-> reader.path, doc |-> reader.doc, cursor |-> reader.cursor, got |-> reader.got]
    /\ reader.doc = {} => reader.cursor = 0 /\ reader.got = <<>>
    /\ ReadIsWhole

LEMMA ReadsWhole ==
    ASSUME HistoryBounds, HistoryInv, ReaderInv, ReadPage PROVE ReaderInv'
<1> DEFINE doc == files[reader.path]
           s == Characters(doc)
           end == PageEnd(s, reader.cursor)
           read == SubSeq(s, CharactersTo(s, reader.cursor) + 1, CharactersTo(s, end))
<1>1. doc \in Documents
  BY DEF ReadPage, HistoryInv, HistoryTypes, Archives
<1>2. s \in Seq(Letters)
  BY <1>1, CharactersTyped
<1>3. /\ SameArchive(doc) /\ reader.cursor \in Boundary(s)
      /\ reader' = [reader EXCEPT !.doc = {doc}, !.cursor = end, !.got = @ \o read]
  BY DEF ReadPage
<1>4. /\ reader'.doc = {doc} /\ reader'.cursor = end /\ reader'.got = reader.got \o read
      /\ reader' = [path |-> reader'.path, doc |-> reader'.doc, cursor |-> reader'.cursor, got |-> reader'.got]
  BY <1>3 DEF ReaderInv
<1>5. end \in Boundary(s) /\ reader.cursor <= end /\ reader.cursor \in Nat /\ end \in Nat
  BY <1>2, <1>3, PageEndIs, BoundaryIs
<1>6. reader.got = SubSeq(s, 1, CharactersTo(s, reader.cursor))
  <2>1. CASE reader.doc = {doc}
    BY <2>1 DEF ReaderInv, ReadIsWhole
  <2>2. CASE reader.doc = {}
    <3>1. reader.cursor = 0 /\ reader.got = <<>>
      BY <2>2 DEF ReaderInv
    <3>2. CharactersTo(s, reader.cursor) = 0
      BY <1>2, <1>5, <3>1, CharactersToIs
    <3>3. SubSeq(s, 1, 0) = <<>>
      BY <1>2
    <3> QED BY <3>1, <3>2, <3>3
  <2> QED BY <1>3, <2>1, <2>2 DEF SameArchive
<1>7. reader'.got = SubSeq(s, 1, CharactersTo(s, end))
  <2> DEFINE m == CharactersTo(s, reader.cursor)
             n == CharactersTo(s, end)
  <2>1. m \in Nat /\ n \in Nat /\ m <= n /\ n <= Len(s)
    BY <1>2, <1>5, CharactersToIs
  <2>2. reader'.got = SubSeq(s, 1, m) \o SubSeq(s, m + 1, n)
    BY <1>4, <1>6
  <2> HIDE DEF m, n, s
  <2> QED BY <1>2, <2>1, <2>2, SubSeqsMeet DEF n
<1> HIDE DEF s, end, read
<1>8. ReadIsWhole'
  BY <1>4, <1>5, <1>7 DEF ReadIsWhole, s
<1> QED BY <1>4, <1>8 DEF ReaderInv

LEMMA ReaderStarts == ASSUME ReaderInv, StartReading \/ UNCHANGED reader PROVE ReaderInv'
<1>1. CASE UNCHANGED reader
  BY <1>1 DEF ReaderInv, ReadIsWhole
<1>2. CASE StartReading
  <2>1. PICK n : reader' = [NoReader EXCEPT !.path = n]
    BY <1>2 DEF StartReading
  <2>2. reader' = [path |-> n, doc |-> {}, cursor |-> 0, got |-> <<>>]
    BY <2>1 DEF NoReader
  <2> QED BY <2>2 DEF ReaderInv, ReadIsWhole
<1> QED BY <1>1, <1>2

-----------------------------------------------------------------------------
\* A file that held the word of a search when it began holds it still, or did
\* when it was read.
Searches == [pc : {"idle", "scan", "done"}, word : Text \cup {NoText}, left : SUBSET (1 .. MaxFile),
             docs : Archives, held : SUBSET (1 .. MaxFile), hits : SUBSET (1 .. MaxFile)]
SearchInv ==
    /\ search \in Searches
    /\ search.pc = "scan" =>
         \A n \in search.held :
           n \in Holding(IF n \in search.left THEN files ELSE search.docs, search.word)
    /\ SearchFinds

LEMMA HoldingTyped == ASSUME NEW f \in Archives, NEW x PROVE Holding(f, x) \in SUBSET (1 .. MaxFile)
BY DEF Holding, Archives

\* Two texts put together have the characters of both.
LEMMA RangeJoins ==
    ASSUME NEW S, NEW s \in Seq(S), NEW t \in Seq(S)
    PROVE  Range(s \o t) = Range(s) \cup Range(t)
BY RangeConcatenation

\* The characters of a document that has grown are still there.
LEMMA CharactersStay ==
    ASSUME NEW old \in Documents, NEW doc \in Documents, doc.key = old.key,
           IsPrefix(old.initial, doc.initial),
           \A i \in DOMAIN old.records : i \in DOMAIN doc.records /\ doc.records[i] = old.records[i]
    PROVE  Range(Characters(old)) \subseteq Range(Characters(doc))
<1> DEFINE Said(d) == [i \in DOMAIN d.records |-> d.records[i].text]
<1>1. ASSUME NEW d \in Documents
      PROVE  Range(Characters(d)) = {d.key} \cup Range(d.initial) \cup Range(Said(d))
  <2>1. <<d.key>> \in Seq(Letters) /\ d.initial \in Seq(Letters) /\ Said(d) \in Seq(Letters)
    BY <1>1, SaidTyped
  <2>2. Range(<<d.key>>) = {d.key}
    BY DEF Range
  <2> HIDE DEF Said
  <2>3. <<d.key>> \o d.initial \in Seq(Letters)
    BY <2>1
  <2>4. Range(<<d.key>> \o d.initial) = {d.key} \cup Range(d.initial)
    <3> DEFINE key == <<d.key>>
               first == d.initial
    <3>1. key \in Seq(Letters) /\ first \in Seq(Letters)
      BY <2>1
    <3> HIDE DEF key, first
    <3>2. Range(key \o first) = Range(key) \cup Range(first)
      BY <3>1, RangeJoins
    <3> QED BY <2>2, <3>2 DEF key, first
  <2>5. Range((<<d.key>> \o d.initial) \o Said(d)) = Range(<<d.key>> \o d.initial) \cup Range(Said(d))
    BY <2>1, <2>3, RangeJoins
  <2> QED BY <2>4, <2>5 DEF Characters, Said
<1>2. Range(old.initial) \subseteq Range(doc.initial)
  <2>1. old.initial \in Seq(Text) /\ doc.initial \in Seq(Text)
    BY DEF Documents
  <2> HIDE DEF Documents
  <2>2. \A i \in 1 .. Len(old.initial) : i \in 1 .. Len(doc.initial) /\ doc.initial[i] = old.initial[i]
    <3> TAKE i \in 1 .. Len(old.initial)
    <3>1. Len(old.initial) \in Nat /\ Len(doc.initial) \in Nat
      BY <2>1
    <3>2. /\ Len(old.initial) <= Len(doc.initial)
          /\ SubSeq(old.initial, 1, Len(old.initial)) = SubSeq(doc.initial, 1, Len(old.initial))
      BY DEF IsPrefix
    <3>3. SubSeq(old.initial, 1, Len(old.initial))[i] = old.initial[i]
      BY <2>1, <3>1
    <3>4. SubSeq(doc.initial, 1, Len(old.initial))[i] = doc.initial[i]
      BY <2>1, <3>1, <3>2
    <3> QED BY <3>1, <3>2, <3>3, <3>4
  <2> QED BY <2>1, <2>2, RangeEquality
<1>3. Range(Said(old)) \subseteq Range(Said(doc))
  BY DEF Range
<1> HIDE DEF Said
<1> QED BY <1>1, <1>2, <1>3

LEMMA HoldingStays ==
    ASSUME NEW f \in Archives, NEW g \in Archives, Grows(f, g), Stays(f, g), NEW x
    PROVE  Holding(f, x) \subseteq Holding(g, x)
<1> SUFFICES ASSUME NEW n \in Holding(f, x) PROVE n \in Holding(g, x)
  OBVIOUS
<1>1. n \in DOMAIN f /\ x \in Range(Characters(f[n]))
  BY DEF Holding
<1>2. n \in DOMAIN g /\ f[n] \in Documents /\ g[n] \in Documents
  BY <1>1 DEF Archives, Grows
<1>3. Range(Characters(f[n])) \subseteq Range(Characters(g[n]))
  BY <1>1, <1>2, CharactersStay DEF Grows, Stays
<1> QED BY <1>1, <1>2, <1>3 DEF Holding

LEMMA SearchStep ==
    ASSUME HistoryBounds, HistoryInv, HistoryInv', SearchInv, [HistoryNext]_(hvars),
           (Grows(files, files') /\ Stays(files, files')) \/ EditFiles
    PROVE  SearchInv'
<1>1. files \in Archives /\ files' \in Archives /\ search \in Searches /\ NoArchive \in Archives
  BY NobodyTyped DEF HistoryInv, HistoryTypes, SearchInv
<1>n. /\ NoSearch \in Searches /\ NoSearch.pc = "idle"
      /\ search' = NoSearch => SearchInv'
  <2>1. NoSearch \in Searches /\ NoSearch.pc = "idle"
    <3> HIDE DEF NoArchive, Archives
    <3> QED BY <1>1 DEF NoSearch, Searches
  <2> HIDE DEF NoSearch, Searches
  <2> QED BY <2>1 DEF SearchInv, SearchFinds
<1>2. CASE EditFiles
  <2>1. search' = [search EXCEPT !.held = {}]
    BY <1>2 DEF EditFiles
  <2>2. search' \in Searches /\ search'.held = {}
    BY <1>1, <2>1 DEF Searches
  <2> QED BY <2>2 DEF SearchInv, SearchFinds
<1>3. CASE UNCHANGED search /\ Grows(files, files') /\ Stays(files, files')
  <2>1. Holding(files, search.word) \subseteq Holding(files', search.word)
    BY <1>1, <1>3, HoldingStays
  <2> QED BY <1>3, <2>1 DEF SearchInv, SearchFinds
<1>4. ASSUME NEW x \in Text, BeginSearch(x) PROVE SearchInv'
  <2>1. /\ UNCHANGED files
        /\ search' = [pc |-> "scan", word |-> x, left |-> DOMAIN files, docs |-> NoArchive,
                      held |-> Holding(files, x), hits |-> {}]
    BY <1>4 DEF BeginSearch, NoSearch, written
  <2>2. DOMAIN files \in SUBSET (1 .. MaxFile) /\ Holding(files, x) \in SUBSET (1 .. MaxFile)
    BY <1>1, LatestIs, HoldingTyped
  <2>3. search' \in Searches
    <3> HIDE DEF NoArchive, Archives
    <3> QED BY <1>1, <2>1, <2>2 DEF Searches
  <2>4. Holding(files, x) \subseteq DOMAIN files
    BY DEF Holding
  <2> QED BY <2>1, <2>3, <2>4 DEF SearchInv, SearchFinds
<1>5. ASSUME NEW n \in 1 .. MaxFile, ScanFile(n), n \in DOMAIN files PROVE SearchInv'
  <2> DEFINE docs == Put(search.docs, n, files[n])
  <2>1. /\ UNCHANGED files /\ search.pc = "scan" /\ n \in search.left
        /\ search' = [search EXCEPT !.left = @ \ {n}, !.docs = docs]
    BY <1>5 DEF ScanFile, written
  <2>2. search.docs \in Archives /\ files[n] \in Documents
    BY <1>1, <1>5, LatestIs DEF Searches
  <2>3. docs \in Archives /\ n \in DOMAIN docs /\ docs[n] = files[n]
        /\ \A k \in DOMAIN search.docs \ {n} : k \in DOMAIN docs /\ docs[k] = search.docs[k]
    <3>1. docs \in Archives
      BY <2>2, PutIs
    <3> QED BY <3>1 DEF Put
  <2> HIDE DEF docs
  <2>4. /\ search' \in Searches /\ search'.left = search.left \ {n} /\ search'.docs = docs
        /\ search'.held = search.held /\ search'.word = search.word /\ search'.pc = "scan"
    <3> HIDE DEF Archives
    <3> QED BY <1>1, <2>1, <2>3 DEF Searches
  <2>5. ASSUME NEW k \in search'.held
        PROVE  k \in Holding(IF k \in search'.left THEN files' ELSE search'.docs, search'.word)
    <3>1. k \in Holding(IF k \in search.left THEN files ELSE search.docs, search.word)
      BY <2>1, <2>4, <2>5 DEF SearchInv
    <3>2. CASE k = n
      BY <2>1, <2>3, <2>4, <3>1, <3>2 DEF Holding
    <3>3. CASE k # n /\ k \in search.left
      BY <2>1, <2>4, <3>1, <3>3
    <3>4. CASE k # n /\ k \notin search.left
      BY <2>3, <2>4, <3>1, <3>4 DEF Holding
    <3> QED BY <3>2, <3>3, <3>4
  <2> QED BY <2>4, <2>5 DEF SearchInv, SearchFinds
<1>6. CASE AnswerSearch
  <2> DEFINE docs == search.docs
             hits == Entries(<<docs, providers>>) \cap Holding(docs, search.word)
  <2>1. search.pc = "scan" /\ search.left = {} /\ search' = [search EXCEPT !.pc = "done", !.hits = hits]
    BY <1>6 DEF AnswerSearch
  <2>2. Entries(<<docs, providers>>) = DOMAIN docs
    BY DEF Entries
  <2>3. hits = Holding(docs, search.word) /\ hits \in SUBSET (1 .. MaxFile)
    <3>1. docs \in Archives
      BY <1>1 DEF Searches
    <3>2. Holding(docs, search.word) \subseteq DOMAIN docs
      BY DEF Holding
    <3> QED BY <2>2, <3>1, <3>2, HoldingTyped
  <2>4. search.held \subseteq hits
    BY <2>1, <2>3 DEF SearchInv
  <2> HIDE DEF hits
  <2>5. search' \in Searches /\ search'.pc = "done" /\ search'.hits = hits /\ search'.held = search.held
    BY <1>1, <2>1, <2>3 DEF Searches
  <2> QED BY <2>4, <2>5 DEF SearchInv, SearchFinds
<1>7. UNCHANGED search \/ EditFiles \/ (\E x \in Text : BeginSearch(x)) \/ AnswerSearch
      \/ (\E n \in 1 .. MaxFile : ScanFile(n)) \/ search' = NoSearch
  BY DEF HistoryNext, CallStep, Call, WriteProvider, TakeLock, Fail, Rescan, WriteManifest,
         Resume, Create, Checkpoint, Repair, RefreshDerived, WriteState, CrashArchive,
         LoseState, StartReading, ReadPage, hvars
<1>8. \A n \in 1 .. MaxFile : ScanFile(n) /\ n \notin DOMAIN files => search' = NoSearch
  BY DEF ScanFile
<1> QED BY <1>n, <1>2, <1>3, <1>4, <1>5, <1>6, <1>7, <1>8

-----------------------------------------------------------------------------
\* All that is said of the archive.
ArchiveInv == HistoryInv /\ RevisionsChain /\ AnsweredIsStored /\ ReaderInv /\ SearchInv

LEMMA ChainsAre == RevisionsChain <=> Chains(files)
BY DEF RevisionsChain, Chains, ChainOf

LEMMA FirstArchiveInv == ASSUME HistoryBounds, HistoryInit PROVE ArchiveInv
<1>1. DOMAIN files = {} /\ answered = {} /\ reader = [path |-> 0, doc |-> {}, cursor |-> 0, got |-> <<>>]
  BY DEF HistoryInit, NoArchive, NoReader
<1>2. RevisionsChain /\ AnsweredIsStored
  BY <1>1 DEF RevisionsChain, AnsweredIsStored
<1>3. ReaderInv
  BY <1>1 DEF ReaderInv, ReadIsWhole
<1>4. SearchInv
  <2>1. search = [pc |-> "idle", word |-> NoText, left |-> {}, docs |-> NoArchive, held |-> {}, hits |-> {}]
    BY DEF HistoryInit, NoSearch
  <2> QED BY <2>1, NobodyTyped DEF SearchInv, SearchFinds, Searches
<1> QED BY <1>2, <1>3, <1>4, FirstArchive DEF ArchiveInv

\* A call reports a turn as saved when it is.
LEMMA AnswersKeep ==
    ASSUME HistoryInv, AnsweredIsStored, Stays(files, files'),
           UNCHANGED answered \/ \E c \in HCaller : WriteState(c)
    PROVE  AnsweredIsStored'
<1>1. \A a \in answered : Archived(files, a[1], a[2], a[3])
  BY DEF AnsweredIsStored, Archived
<1>2. ASSUME NEW a \in answered' PROVE Archived(files, a[1], a[2], a[3])
  <2>1. CASE a \in answered
    BY <1>1, <2>1
  <2>2. CASE a \notin answered
    <3>1. PICK c \in HCaller : WriteState(c)
      BY <2>2
    <3>2. hcall[c].op = "checkpoint" /\ a = <<hcall[c].key, hcall[c].turn, hcall[c].text>> /\ hcall[c].pc = "state"
      BY <2>2, <3>1 DEF WriteState, Running
    <3> QED BY <3>2 DEF HistoryInv, CallsKnow, SavedBy
  <2> QED BY <2>1, <2>2
<1>3. \A a \in answered' : Archived(files', a[1], a[2], a[3])
  BY <1>2, StoredStays
<1> QED BY <1>3 DEF AnsweredIsStored, Archived

LEMMA ArchiveStep ==
    ASSUME HistoryBounds, ArchiveInv, [HistoryNext]_(hvars)
    PROVE  /\ ArchiveInv'
           /\ edits' = edits => Grows(files, files')
           /\ edits' = edits /\ state' # state => state'.revision > state.revision
<1>1. Chains(files) /\ HistoryInv /\ AnsweredIsStored /\ ReaderInv /\ files \in Archives
  BY ChainsAre DEF ArchiveInv, HistoryInv, HistoryTypes
<1> DEFINE Goal == /\ HistoryInv' /\ AnsweredIsStored' /\ Chains(files')
                   /\ (Grows(files, files') /\ Stays(files, files')) \/ (EditFiles /\ edits' # edits)
                   /\ edits' = edits /\ state' # state => state'.revision > state.revision
<1>2. ASSUME HistoryInv', UNCHANGED <<files, answered>>,
             edits' = edits /\ state' # state => state'.revision > state.revision
      PROVE  Goal
  BY <1>1, <1>2, SameArchive0, AnswersKeep DEF Stays
<1>c. ASSUME NEW c \in HCaller, NEW a \in Args, Call(c, a) PROVE Goal
  <2>1. HistoryInv'
    BY <1>1, <1>c, CallKeeps
  <2>2. UNCHANGED <<files, answered, state>>
    BY <1>c DEF Call, written
  <2> QED BY <1>2, <2>1, <2>2
<1>3. ASSUME NEW c \in HCaller,
             WriteProvider(c) \/ TakeLock(c) \/ Fail(c) \/ Rescan(c) \/ WriteManifest(c)
      PROVE  Goal
  <2>1. HistoryInv'
    BY <1>1, <1>3, ProviderKeeps, LockKeeps, FailKeeps, RescanKeeps
  <2>2. UNCHANGED <<files, answered, state>>
    BY <1>3 DEF WriteProvider, TakeLock, Fail, Rescan, WriteManifest, written
  <2> QED BY <1>2, <2>1, <2>2
<1>4. ASSUME NEW c \in HCaller, Resume(c) \/ Create(c) \/ Checkpoint(c) PROVE Goal
  <2>1. HistoryInv' /\ Grows(files, files') /\ Stays(files, files') /\ Chains(files') /\ UNCHANGED edits
    BY <1>1, <1>4, ResumeKeeps, CreateKeeps, CheckpointKeeps
  <2>2. UNCHANGED <<answered, state>>
    BY <1>4 DEF Resume, Create, Checkpoint
  <2> QED BY <1>1, <2>1, <2>2, AnswersKeep
<1>5. ASSUME NEW c \in HCaller, Repair(c) \/ RefreshDerived(c) PROVE Goal
  <2>1. HistoryInv' /\ UNCHANGED files
    BY <1>1, <1>5, RepairKeeps
  <2>2. UNCHANGED <<answered, state>>
    BY <1>5 DEF Repair, RefreshDerived
  <2> QED BY <1>2, <2>1, <2>2
<1>6. ASSUME NEW c \in HCaller, WriteState(c) PROVE Goal
  <2>1. HistoryInv' /\ (edits' = edits => state'.revision > state.revision)
    BY <1>1, <1>6, StateKeeps
  <2>2. UNCHANGED files
    BY <1>6 DEF WriteState
  <2>3. Stays(files, files')
    BY <2>2 DEF Stays
  <2> QED BY <1>1, <1>6, <2>1, <2>2, <2>3, AnswersKeep, SameArchive0
<1>7. ASSUME CrashArchive PROVE Goal
  BY <1>1, <1>2, <1>7, CrashKeeps DEF CrashArchive, written
<1>8. ASSUME EditFiles PROVE Goal
  BY <1>1, <1>8, EditKeeps DEF EditFiles
<1>l. ASSUME LoseState PROVE Goal
  BY <1>1, <1>2, <1>l, LossKeeps
<1>9. ASSUME \/ StartReading \/ ReadPage \/ UNCHANGED hvars
             \/ (\E x \in Text : BeginSearch(x)) \/ (\E n \in 1 .. MaxFile : ScanFile(n)) \/ AnswerSearch
      PROVE  Goal
  <2>1. UNCHANGED <<files, providers, state, lock, hcall, answered, edits>>
    BY <1>9 DEF StartReading, ReadPage, BeginSearch, ScanFile, AnswerSearch, hvars, written
  <2>2. HistoryInv'
    BY <1>1, <2>1
       DEF HistoryInv, HistoryTypes, HoldsTheLock, DecidesByNow, CallsKnow, GivenOf, SavedBy
  <2> QED BY <1>2, <2>1, <2>2
<1>10. Goal
  <2> HIDE DEF Goal
  <2>1. CASE \E c \in HCaller : (\E a \in Args : Call(c, a)) \/ CallStep(c)
    <3>1. PICK c \in HCaller : (\E a \in Args : Call(c, a)) \/ CallStep(c)
      BY <2>1
    <3>2. CASE \E a \in Args : Call(c, a)
      BY <1>c, <3>2
    <3>3. CASE CallStep(c)
      BY <1>3, <1>4, <1>5, <1>6, <3>3 DEF CallStep
    <3> QED BY <3>1, <3>2, <3>3
  <2> QED BY <1>7, <1>8, <1>9, <1>l, <2>1 DEF HistoryNext
<1>11. ReaderInv'
  <2>1. CASE ReadPage
    BY <1>1, <2>1, ReadsWhole
  <2>2. CASE ~ReadPage
    <3>1. StartReading \/ UNCHANGED reader
      BY <2>2
         DEF HistoryNext, CallStep, Call, WriteProvider, TakeLock, Fail, Rescan, WriteManifest,
             Resume, Create, Checkpoint, Repair, RefreshDerived, WriteState, CrashArchive, EditFiles,
             LoseState, BeginSearch, ScanFile, AnswerSearch, hvars
    <3> QED BY <1>1, <3>1, ReaderStarts
  <2> QED BY <2>1, <2>2
<1>12. RevisionsChain'
  BY <1>10, ChainsAre DEF RevisionsChain, Chains, ChainOf
<1>13. SearchInv'
  <2>1. SearchInv /\ HistoryInv'
    BY <1>10 DEF ArchiveInv
  <2>2. (Grows(files, files') /\ Stays(files, files')) \/ EditFiles
    BY <1>10
  <2> QED BY <1>1, <2>1, <2>2, SearchStep
<1> QED BY <1>10, <1>11, <1>12, <1>13 DEF ArchiveInv

-----------------------------------------------------------------------------
\* Numbers one after the other are bounded.
LEMMA NumbersBounded ==
    ASSUME NEW N \in Nat, NEW g, \A i \in 1 .. N : g[i] \in Nat
    PROVE  \E b \in Nat : \A i \in 1 .. N : g[i] <= b
<1> DEFINE Free == {n \in 0 .. N : \A b \in Nat : \E i \in 1 .. n : ~(g[i] <= b)}
<1>0. CASE Free = {}
  <2>1. N \in 0 .. N
    OBVIOUS
  <2>2. N \notin Free
    BY <1>0
  <2> QED BY <2>1, <2>2
<1>1. SUFFICES ASSUME Free # {} PROVE FALSE
  BY <1>0
<1>2. Free \in SUBSET Nat
  OBVIOUS
<1>3. PICK m \in Free : \A n \in Free : m <= n
  BY <1>1, <1>2, LeastNumber
<1>4. m \in 0 .. N /\ \A b \in Nat : \E i \in 1 .. m : ~(g[i] <= b)
  BY <1>3
<1>5. m # 0
  <2>1. 0 \in Nat /\ 1 .. 0 = {}
    OBVIOUS
  <2> QED BY <1>4, <2>1
<1>6. m - 1 \in 0 .. N /\ m - 1 < m /\ m \in 1 .. N
  BY <1>4, <1>5
<1>7. m - 1 \notin Free
  <2> HIDE DEF Free
  <2>1. m - 1 \in Int /\ m \in Int /\ ~(m <= m - 1)
    BY <1>6
  <2> QED BY <1>3, <2>1
<1>8. PICK b \in Nat : \A i \in 1 .. m - 1 : g[i] <= b
  BY <1>6, <1>7
<1> HIDE DEF Free
<1>9. g[m] \in Nat
  BY <1>6
<1>10. PICK c \in Nat : b <= c /\ g[m] <= c
  <2>1. b <= g[m] \/ g[m] <= b
    BY <1>9
  <2> QED BY <1>9, <2>1
<1>11. \A i \in 1 .. m : i = m \/ i \in 1 .. m - 1
  BY <1>4
<1>12. ASSUME NEW i \in 1 .. m PROVE g[i] <= c
  <2>1. g[i] \in Nat
    BY <1>6, <1>12
  <2>2. CASE i = m
    BY <2>2, <1>10
  <2>3. CASE i \in 1 .. m - 1
    BY <2>1, <2>3, <1>8, <1>10
  <2> QED BY <2>2, <2>3, <1>11
<1> QED BY <1>4, <1>12

\* What else is of its type: who holds the lock, and what state.json shows.
ShownTyped == lock \in HCaller \cup {NoCaller} /\ state.focus \in Text \cup {NoText}

\* The focus of the state is a text, if there is one.
LEMMA FocusTyped ==
    ASSUME NEW f \in Archives, NEW n
    PROVE  Focus(f, n) \in Text \cup {NoText}
<1>1. CASE n \notin DOMAIN f
  BY <1>1 DEF Focus
<1>2. CASE n \in DOMAIN f
  <2> DEFINE r == f[n].records
             a == f[n].initial
             Top == {i \in DOMAIN r : \A j \in DOMAIN r : r[j].revision <= r[i].revision}
             R == [turn : Turn \cup Text, text : Text, revision : Nat \ {0}]
  <2>1. f[n] \in Documents
    BY <1>2 DEF Archives
  <2>2. r \in Seq(R) /\ a \in Seq(Text)
    BY <2>1 DEF Documents
  <2>3. \A i \in DOMAIN r : r[i].text \in Text /\ r[i].revision \in Nat
    <3> TAKE i \in DOMAIN r
    <3> HIDE DEF r, R
    <3>1. r[i] \in R
      BY <2>2
    <3> QED BY <3>1 DEF R
  <2>4. CASE r # <<>>
    <3> HIDE DEF r, R
    <3>1. Len(r) \in Nat /\ Len(r) >= 1 /\ DOMAIN r = 1 .. Len(r)
      BY <2>2, <2>4
    <3>2. PICK t \in Top : TRUE
      <4> DEFINE V == {r[i].revision : i \in DOMAIN r}
      <4> DEFINE g == [i \in 1 .. Len(r) |-> r[i].revision]
      <4>1. PICK b \in Nat : \A i \in DOMAIN r : r[i].revision <= b
        <5>1. \A i \in 1 .. Len(r) : g[i] \in Nat /\ g[i] = r[i].revision
          BY <2>3, <3>1
        <5> HIDE DEF g
        <5>2. \E b \in Nat : \A i \in 1 .. Len(r) : g[i] <= b
          BY <3>1, <5>1, NumbersBounded
        <5> QED BY <3>1, <5>1, <5>2
      <4>2. V \in SUBSET (0 .. b) /\ V # {}
        BY <2>3, <3>1, <4>1
      <4>3. PICK m \in V : \A v \in V : v <= m
        BY <4>2, GreatestNumber
      <4>4. PICK i \in DOMAIN r : m = r[i].revision
        BY <4>3
      <4> QED BY <4>3, <4>4
    <3>3. Top \in SUBSET (0 .. Len(r)) /\ Top # {}
      BY <3>1, <3>2
    <3>4. \E i \in Top : \A j \in Top : j <= i
      BY <3>1, <3>3, GreatestNumber
    <3> DEFINE newest == CHOOSE i \in Top : \A j \in Top : j <= i
    <3>5. newest \in Top
      BY <3>4
    <3>6. newest \in DOMAIN r
      BY <3>5
    <3> HIDE DEF newest, Top
    <3>7. r[newest].text \in Text
      BY <2>3, <3>6
    <3> QED BY <1>2, <2>4, <3>7 DEF Focus, r, Top, newest
  <2>5. CASE r = <<>> /\ a # <<>>
    <3>1. Last(a) \in Text
      BY <2>2, <2>5 DEF Last
    <3> QED BY <1>2, <2>5, <3>1 DEF Focus
  <2>6. CASE r = <<>> /\ a = <<>>
    BY <1>2, <2>6 DEF Focus
  <2> QED BY <2>4, <2>5, <2>6
<1> QED BY <1>1, <1>2

LEMMA ShownStep ==
    ASSUME HistoryBounds, HistoryInv, ShownTyped, [HistoryNext]_(hvars)
    PROVE  ShownTyped'
<1> USE DEF ShownTyped
<1>1. CASE UNCHANGED hvars
  BY <1>1 DEF hvars
<1>2. ASSUME NEW c \in HCaller, CallStep(c) PROVE ShownTyped'
  <2>1. CASE TakeLock(c)
    BY <2>1 DEF TakeLock, written
  <2>2. CASE WriteState(c)
    <3>1. hcall[c].seen \in Archives
      BY DEF HistoryInv, HistoryTypes, ArchiveCalls
    <3>2. PICK n : state'.focus = Focus(hcall[c].seen, n)
      BY <2>2 DEF WriteState, StateFile
    <3>3. Focus(hcall[c].seen, n) \in Text \cup {NoText}
      BY <3>1, FocusTyped
    <3>4. lock' \in HCaller \cup {NoCaller}
      BY <2>2 DEF WriteState, EndCall
    <3> QED BY <3>2, <3>3, <3>4
  <2>3. CASE Fail(c)
    BY <2>3 DEF Fail, EndCall, written
  <2>4. CASE WriteProvider(c) \/ Resume(c) \/ Create(c) \/ Checkpoint(c) \/ Repair(c)
             \/ RefreshDerived(c) \/ Rescan(c) \/ WriteManifest(c)
    BY <2>4 DEF WriteProvider, Resume, Create, Checkpoint, Repair, RefreshDerived, Rescan,
       WriteManifest, written
  <2> QED BY <1>2, <2>1, <2>2, <2>3, <2>4 DEF CallStep
<1>3. ASSUME NEW c \in HCaller, NEW a \in Args, Call(c, a) PROVE ShownTyped'
  BY <1>3 DEF Call, written
<1>5. CASE LoseState
  <2>1. state'.focus = NoText /\ UNCHANGED lock
    BY <1>5 DEF LoseState, NoState
  <2> QED BY <2>1
<1>4. CASE \/ CrashArchive \/ EditFiles \/ StartReading \/ ReadPage
           \/ (\E x \in Text : BeginSearch(x)) \/ (\E n \in 1 .. MaxFile : ScanFile(n)) \/ AnswerSearch
  BY <1>4 DEF CrashArchive, EditFiles, StartReading, ReadPage,
     BeginSearch, ScanFile, AnswerSearch, written
<1> QED BY <1>1, <1>2, <1>3, <1>4, <1>5 DEF HistoryNext

LEMMA HistoryTyped == HistoryInv /\ SearchInv /\ ShownTyped => HistoryTypeOK
<1> SUFFICES ASSUME HistoryInv, SearchInv, ShownTyped PROVE HistoryTypeOK
  OBVIOUS
<1>1. DOMAIN files \subseteq 1 .. MaxFile /\ \A n \in DOMAIN files : files[n] \in Documents
  BY DEF HistoryInv, HistoryTypes, Archives
<1>2. \A c \in HCaller : hcall[c].pc \notin {"idle", "provider", "lock"} => lock = c
  BY DEF HistoryInv, HoldsTheLock, Outside
<1>3. /\ search.pc \in {"idle", "scan", "done"} /\ search.left \subseteq 1 .. MaxFile
      /\ search.held \subseteq 1 .. MaxFile /\ search.hits \subseteq 1 .. MaxFile
  BY DEF SearchInv, Searches
<1> QED BY <1>1, <1>2, <1>3 DEF HistoryTypeOK, HistoryInv, HistoryTypes, ShownTyped

-----------------------------------------------------------------------------
(* SessionEvents                                                           *)

\* The last places of a sequence are a part of it.
LEMMA LastPlaces ==
    ASSUME NEW S, NEW s \in Seq(S), NEW a \in 1 .. Len(s) + 1
    PROVE  AtPlaces(s, a .. Len(s)) = SubSeq(s, a, Len(s))
<1> DEFINE I == a .. Len(s)
           N == Len(s) - a + 1
<1>1. Len(s) \in Nat /\ a \in Nat /\ N \in Nat
  OBVIOUS
<1>2. Cardinality(I) = N
  <2>1. CASE a <= Len(s)
    BY <1>1, <2>1, FS_Interval
  <2>2. CASE a = Len(s) + 1
    BY <1>1, <2>2, FS_Interval
  <2> QED BY <2>1, <2>2, <1>1
<1>3. ASSUME NEW i \in I PROVE Cardinality({j \in I : j <= i}) = i - a + 1
  <2>1. {j \in I : j <= i} = a .. i
    BY <1>1
  <2>2. Cardinality(a .. i) = i - a + 1
    BY <1>1, FS_Interval
  <2> QED BY <2>1, <2>2
<1>4. ASSUME NEW k \in 1 .. N
      PROVE  (CHOOSE i \in I : Cardinality({j \in I : j <= i}) = k) = a + k - 1
  <2>1. a + k - 1 \in I
    BY <1>1
  <2> HIDE DEF I
  <2>2. \A i \in I : Cardinality({j \in I : j <= i}) = k <=> i = a + k - 1
    <3> TAKE i \in I
    <3>1. Cardinality({j \in I : j <= i}) = i - a + 1
      BY <1>3
    <3>2. i \in Nat
      BY <1>1 DEF I
    <3> QED BY <1>1, <3>1, <3>2
  <2> QED BY <2>1, <2>2
<1>5. AtPlaces(s, I) = [k \in 1 .. N |-> s[a + k - 1]]
  <2> HIDE DEF I, N
  <2>1. AtPlaces(s, I) = [k \in 1 .. N |-> s[CHOOSE i \in I : Cardinality({j \in I : j <= i}) = k]]
    BY <1>2 DEF AtPlaces
  <2> QED BY <1>4, <2>1, Zenon
<1>6. SubSeq(s, a, Len(s)) = [k \in 1 .. N |-> s[a + k - 1]]
  BY <1>1
<1> QED BY <1>5, <1>6

\* The events of the log are numbered without a gap and their revisions grow.
LogIsOrdered ==
    /\ log \in Seq(Event) /\ Len(log) <= MaxEvents
    /\ run \in 1 .. MaxRun /\ revision \in 0 .. MaxRevision /\ made \in 0 .. revision
    /\ log = <<>> <=> revision = 0
    /\ \A i \in DOMAIN log : log[i].id = <<run, made - Len(log) + i>>
    /\ \A i, j \in DOMAIN log : i <= j => log[i].revision + (j - i) <= log[j].revision
    /\ log # <<>> => log[Len(log)].revision = revision

\* What the client shows ends with an event of an earlier run, or with the one
\* that was the last one at its last poll: the events before it have not changed
\* since, each event after it has its own later revision.
LastShown == view[Len(view)].id
Behinds(k) ==
    /\ k <= made /\ cursor + (made - k) <= revision
    /\ \A i \in DOMAIN log :
         /\ log[i].id[2] < k => log[i].revision <= cursor
         /\ log[i].id[2] > k => cursor + (log[i].id[2] - k) <= log[i].revision
ViewIsBehind ==
    /\ view \in Seq(Event) /\ cursor \in 0 .. MaxRevision
    /\ ViewHasNoHole
    /\ view # <<>> =>
         /\ LastShown[1] <= run
         /\ \A i \in DOMAIN view : \/ view[i].id[1] < LastShown[1]
                                   \/ view[i].id[1] = LastShown[1] /\ view[i].id[2] <= LastShown[2]
         /\ LastShown[1] = run => Behinds(LastShown[2])

FollowerInv == LogIsOrdered /\ ViewIsBehind /\ (run = 1 => cursor <= revision /\ Delivered)

LEMMA FirstFollowerInv == ASSUME EventsInit PROVE FollowerInv
<1>1. 1 \in 1 .. MaxRun /\ 0 \in 0 .. MaxRevision /\ 0 <= MaxEvents
  BY EventsAssumption
<1>2. log = <<>> /\ view = <<>> /\ revision = 0 /\ made = 0 /\ run = 1 /\ cursor = 0
  BY DEF EventsInit
<1>3. LogIsOrdered
  BY <1>1, <1>2 DEF LogIsOrdered
<1>4. ViewIsBehind
  BY <1>1, <1>2 DEF ViewIsBehind, ViewHasNoHole
<1>5. Delivered
  BY <1>2 DEF Delivered
<1> QED BY <1>2, <1>3, <1>4, <1>5 DEF FollowerInv

LEMMA EventsOf ==
    ASSUME LogIsOrdered
    PROVE  /\ Len(log) \in Nat /\ DOMAIN log = 1 .. Len(log)
           /\ \A i \in DOMAIN log : /\ log[i] \in Event /\ log[i].revision \in Nat \ {0}
                                    /\ log[i].id[1] = run /\ log[i].id[2] = made - Len(log) + i
                                    /\ log[i].revision <= revision
           /\ \A i, j \in DOMAIN log : log[i].id = log[j].id => i = j
           /\ run \in Nat /\ made \in Nat /\ revision \in Nat
<1>1. log \in Seq(Event) /\ Len(log) \in Nat /\ DOMAIN log = 1 .. Len(log) /\ run \in Nat
      /\ made \in Nat /\ revision \in Nat
  BY EventsAssumption DEF LogIsOrdered
<1>2. ASSUME NEW i \in DOMAIN log
      PROVE  /\ log[i] \in Event /\ log[i].revision \in Nat \ {0}
             /\ log[i].id[1] = run /\ log[i].id[2] = made - Len(log) + i
             /\ log[i].revision <= revision
  <2>1. log[i] \in Event
    BY <1>1, ElementOfSeq
  <2>2. log[i].revision \in 1 .. MaxRevision
    BY <2>1 DEF Event
  <2>3. log[i].id = <<run, made - Len(log) + i>>
    BY DEF LogIsOrdered
  <2>4. log[i].revision + (Len(log) - i) <= log[Len(log)].revision /\ log[Len(log)].revision = revision
    <3>1. Len(log) \in DOMAIN log /\ i <= Len(log) /\ log # <<>>
      BY <1>1
    <3> QED BY <3>1 DEF LogIsOrdered
  <2> QED BY <1>1, <2>1, <2>2, <2>3, <2>4, EventsAssumption
<1>3. \A i, j \in DOMAIN log : log[i].id = log[j].id => i = j
  BY <1>1, <1>2
<1> QED BY <1>1, <1>2, <1>3

LEMMA AppendOrdered ==
    ASSUME LogIsOrdered, NEW kind \in Kind, Append1(kind)
    PROVE  /\ LogIsOrdered'
           /\ made' >= made /\ made' <= made + 1 /\ revision' = revision + 1
           /\ \A i \in DOMAIN log' :
                \/ \E j \in DOMAIN log : log'[i] = log[j]
                \/ log'[i].revision = revision + 1 /\ log'[i].id = <<run, made'>>
<1> DEFINE N == Len(log)
<1>1. /\ log \in Seq(Event) /\ N \in Nat /\ DOMAIN log = 1 .. N /\ run \in Nat /\ made \in Nat
      /\ revision \in Nat /\ revision < MaxRevision /\ MaxRevision \in Nat /\ MaxEvents \in Nat \ {0}
      /\ run \in 1 .. MaxRun /\ N <= MaxEvents /\ made <= revision
  BY EventsOf, EventsAssumption DEF Append1, LogIsOrdered
<1>2. run' = run /\ revision' = revision + 1 /\ run' \in 1 .. MaxRun /\ revision' \in 0 .. MaxRevision
  BY <1>1 DEF Append1
<1>3. \A i \in 1 .. N : /\ log[i].id = <<run, made - N + i>> /\ log[i].revision \in Nat /\ log[i] \in Event
                        /\ log[i].revision <= revision
  BY <1>1, EventsOf DEF LogIsOrdered
<1>4. \A i, j \in 1 .. N : i <= j => log[i].revision + (j - i) <= log[j].revision
  BY <1>1 DEF LogIsOrdered
<1> HIDE DEF N
<1>5. CASE /\ log # <<>> /\ log[N].kind = kind
           /\ log' = [log EXCEPT ![N].revision = revision']
           /\ made' = made
  <2>1. N \in 1 .. N
    BY <1>1, <1>5
  <2> DEFINE e == [log[N] EXCEPT !.revision = revision + 1]
  <2>2. log' = [log EXCEPT ![N] = e]
    BY <1>2, <1>5
  <2>3. e \in Event /\ e.id = log[N].id /\ e.revision = revision + 1
    <3>1. log[N] \in Event /\ revision + 1 \in 1 .. MaxRevision
      BY <1>1, <1>3, <2>1
    <3> QED BY <3>1 DEF Event
  <2> HIDE DEF e
  <2>4. log' \in Seq(Event) /\ Len(log') = N /\ DOMAIN log' = 1 .. N
    BY <1>1, <2>1, <2>2, <2>3
  <2>5. log'[N] = e /\ \A i \in 1 .. N : i # N => log'[i] = log[i]
    BY <1>1, <2>1, <2>2
  <2>6. \A i \in 1 .. N : log'[i].id = <<run, made - N + i>>
    BY <1>3, <2>1, <2>3, <2>5
  <2>7. ASSUME NEW i \in 1 .. N, NEW j \in 1 .. N, i <= j
        PROVE  log'[i].revision + (j - i) <= log'[j].revision
    <3>1. CASE j # N
      <4>1. i # N /\ log'[i] = log[i] /\ log'[j] = log[j]
        BY <1>1, <2>5, <2>7, <3>1
      <4> QED BY <1>4, <2>7, <4>1
    <3>2. CASE j = N /\ i # N
      <4>1. log[i].revision + (N - i) <= log[N].revision /\ log[N].revision <= revision
        BY <1>1, <1>3, <1>4, <2>1, <2>7
      <4>2. log'[i].revision = log[i].revision /\ log'[j].revision = revision + 1
        BY <2>3, <2>5, <3>2
      <4>3. log[i].revision \in Nat /\ log[N].revision \in Nat
        BY <1>3, <2>1
      <4> QED BY <1>1, <3>2, <4>1, <4>2, <4>3
    <3>3. CASE j = N /\ i = N
      <4>1. log'[i].revision = revision + 1 /\ log'[j].revision = revision + 1 /\ j - i = 0
        BY <1>1, <2>3, <2>5, <3>3
      <4> QED BY <1>1, <4>1
    <3> QED BY <3>1, <3>2, <3>3
  <2>8. log' # <<>> /\ revision' # 0 /\ made' \in 0 .. revision'
    BY <1>1, <1>2, <1>5, <2>1, <2>4
  <2>9. LogIsOrdered'
    BY <1>1, <1>2, <1>5, <2>1, <2>3, <2>4, <2>5, <2>6, <2>7, <2>8 DEF LogIsOrdered
  <2>10. log[N].id = <<run, made>>
    BY <1>1, <1>3, <2>1
  <2>11. ASSUME NEW i \in 1 .. N
         PROVE  \/ \E j \in 1 .. N : log'[i] = log[j]
                \/ log'[i].revision = revision + 1 /\ log'[i].id = <<run, made>>
    BY <2>3, <2>5, <2>10
  <2> QED BY <1>1, <1>2, <1>5, <2>4, <2>9, <2>11
<1>6. CASE /\ made' = made + 1
           /\ log' = Bounded(Append(log, [id |-> <<run, made'>>, kind |-> kind,
                                          revision |-> revision']))
  <2> DEFINE e == [id |-> <<run, made + 1>>, kind |-> kind, revision |-> revision + 1]
             s == Append(log, e)
  <2>1. e \in Event /\ e.id = <<run, made + 1>> /\ e.revision = revision + 1
    BY <1>1 DEF Event
  <2>2. log' = Bounded(s)
    BY <1>2, <1>6
  <2> HIDE DEF e
  <2>3. s \in Seq(Event) /\ Len(s) = N + 1 /\ s[N + 1] = e /\ \A i \in 1 .. N : s[i] = log[i]
    BY <1>1, <2>1
  <2> HIDE DEF s
  <2>4. \A i \in 1 .. N + 1 : i = N + 1 \/ i \in 1 .. N
    BY <1>1
  <2>5. \A i \in 1 .. N + 1 : s[i].id = <<run, made - N + i>> /\ s[i].revision \in Nat
    <3> TAKE i \in 1 .. N + 1
    <3>1. CASE i \in 1 .. N
      BY <1>3, <2>3, <3>1
    <3>2. CASE i = N + 1
      BY <1>1, <2>1, <2>3, <3>2
    <3> QED BY <2>4, <3>1, <3>2
  <2>6. ASSUME NEW i \in 1 .. N + 1, NEW j \in 1 .. N + 1, i <= j
        PROVE  s[i].revision + (j - i) <= s[j].revision
    <3>1. CASE j \in 1 .. N
      <4>1. i \in 1 .. N
        BY <1>1, <2>6, <3>1
      <4> QED BY <1>4, <2>3, <2>6, <3>1, <4>1
    <3>2. CASE j = N + 1 /\ i \in 1 .. N
      <4>1. N \in 1 .. N /\ i <= N
        BY <1>1, <3>2
      <4>2. log[i].revision + (N - i) <= log[N].revision /\ log[N].revision <= revision
        BY <1>3, <1>4, <3>2, <4>1
      <4>3. s[i].revision = log[i].revision /\ s[j].revision = revision + 1 /\ log[i].revision \in Nat
            /\ log[N].revision \in Nat
        BY <1>3, <2>1, <2>3, <3>2, <4>1
      <4> QED BY <1>1, <3>2, <4>1, <4>2, <4>3
    <3>3. CASE j = N + 1 /\ i = N + 1
      BY <1>1, <2>1, <2>3, <3>3
    <3> QED BY <2>4, <3>1, <3>2, <3>3
  <2>7. \E d \in {0, 1} : /\ log' = SubSeq(s, 1 + d, N + 1)
                          /\ Len(log') = N + 1 - d /\ Len(log') \in 1 .. MaxEvents
    <3>1. CASE N + 1 > MaxEvents
      <4>0. N = MaxEvents
        BY <1>1, <3>1
      <4>1. log' = Tail(s)
        BY <2>2, <2>3, <3>1 DEF Bounded
      <4>2. Tail(s) = SubSeq(s, 2, N + 1) /\ Len(Tail(s)) = N
        BY <1>1, <2>3
      <4> QED BY <1>1, <4>0, <4>1, <4>2
    <3>2. CASE ~(N + 1 > MaxEvents)
      <4>1. log' = s
        BY <2>2, <2>3, <3>2 DEF Bounded
      <4>2. s = SubSeq(s, 1, N + 1)
        BY <1>1, <2>3
      <4>3. log' = SubSeq(s, 1 + 0, N + 1) /\ Len(log') = N + 1 - 0 /\ Len(log') \in 1 .. MaxEvents
        BY <1>1, <2>3, <3>2, <4>1, <4>2
      <4> QED BY <4>3
    <3> QED BY <3>1, <3>2
  <2>8. PICK d \in {0, 1} : log' = SubSeq(s, 1 + d, N + 1) /\ Len(log') = N + 1 - d
                            /\ Len(log') \in 1 .. MaxEvents
    BY <2>7
  <2>9. log' \in Seq(Event) /\ DOMAIN log' = 1 .. N + 1 - d
        /\ \A i \in 1 .. N + 1 - d : log'[i] = s[i + d] /\ i + d \in 1 .. N + 1
    BY <1>1, <2>3, <2>8
  <2>10. \A i \in 1 .. N + 1 - d : log'[i].id = <<run, made' - Len(log') + i>>
    <3> TAKE i \in 1 .. N + 1 - d
    <3>1. log'[i].id = <<run, made - N + (i + d)>>
      BY <2>5, <2>9
    <3>2. made' = made + 1 /\ Len(log') = N + 1 - d /\ d \in Int /\ i \in Int
      BY <1>1, <1>6, <2>8
    <3>3. made - N + (i + d) = made' - Len(log') + i
      BY <1>1, <3>2
    <3> QED BY <3>1, <3>3
  <2>11. ASSUME NEW i \in 1 .. N + 1 - d, NEW j \in 1 .. N + 1 - d, i <= j
         PROVE  log'[i].revision + (j - i) <= log'[j].revision
    <3>1. i \in Int /\ j \in Int /\ d \in Int
      BY <1>1
    <3>2. i + d \in 1 .. N + 1 /\ j + d \in 1 .. N + 1 /\ i + d <= j + d
      BY <2>9, <2>11, <3>1
    <3>3. s[i + d].revision + ((j + d) - (i + d)) <= s[j + d].revision
      BY <2>6, <3>2
    <3>4. (j + d) - (i + d) = j - i
      BY <3>1
    <3> QED BY <2>9, <3>3, <3>4
  <2>12. log'[N + 1 - d] = e /\ N + 1 - d \in 1 .. N + 1 - d
    BY <1>1, <2>3, <2>8, <2>9
  <2>13. log' # <<>> /\ revision' # 0 /\ made' \in 0 .. revision'
    BY <1>1, <1>2, <1>6, <2>8
  <2>14. LogIsOrdered'
    <3>1. log' \in Seq(Event) /\ Len(log') <= MaxEvents /\ (log' = <<>> <=> revision' = 0)
      <4>1. Len(log') <= MaxEvents
        BY <1>1, <2>8
      <4> QED BY <2>9, <2>13, <4>1
    <3>2. log'[Len(log')].revision = revision'
      BY <1>2, <2>1, <2>8, <2>12
    <3>3. \A i, j \in DOMAIN log' : i <= j => log'[i].revision + (j - i) <= log'[j].revision
      BY <2>9, <2>11
    <3> QED BY <1>2, <2>9, <2>10, <2>13, <3>1, <3>2, <3>3 DEF LogIsOrdered
  <2>15. ASSUME NEW i \in 1 .. N + 1 - d
         PROVE  \/ \E j \in 1 .. N : log'[i] = log[j]
                \/ log'[i].revision = revision + 1 /\ log'[i].id = <<run, made'>>
    <3>1. CASE i + d \in 1 .. N
      BY <2>3, <2>9, <3>1
    <3>2. CASE i + d = N + 1
      BY <1>6, <2>1, <2>3, <2>9, <3>2
    <3> QED BY <2>4, <2>9, <3>1, <3>2
  <2>16. made' >= made /\ made' <= made + 1
    BY <1>1, <1>6
  <2> QED BY <1>1, <1>2, <2>9, <2>14, <2>15, <2>16
<1> QED BY <1>5, <1>6 DEF Append1, N

LEMMA OneMore ==
    ASSUME NEW k \in Nat, NEW m \in Nat, NEW n \in Nat, NEW c \in Nat, NEW v \in Nat, NEW w,
           k <= m /\ c + (m - k) <= v, m <= n /\ n <= m + 1 /\ w = v + 1
    PROVE  k <= n /\ c + (n - k) <= w
OBVIOUS

\* The client does not see an append: what it has is as much behind as before.
LEMMA AppendFollows ==
    ASSUME FollowerInv, NEW kind \in Kind, Append1(kind)
    PROVE  FollowerInv'
<1>1. LogIsOrdered /\ ViewIsBehind /\ (run = 1 => Delivered)
  BY DEF FollowerInv
<1>2. /\ LogIsOrdered' /\ made' >= made /\ made' <= made + 1 /\ revision' = revision + 1
      /\ \A i \in DOMAIN log' :
           \/ \E j \in DOMAIN log : log'[i] = log[j]
           \/ log'[i].revision = revision + 1 /\ log'[i].id = <<run, made'>>
  BY <1>1, AppendOrdered
<1>3. run' = run /\ cursor' = cursor /\ view' = view
  BY DEF Append1
<1>4. made \in Nat /\ revision \in Nat /\ run \in Nat /\ made' \in Nat
  BY <1>1, <1>2, EventsOf, EventsAssumption DEF LogIsOrdered
<1>5. cursor \in Nat /\ (view # <<>> => Len(view) \in DOMAIN view)
  BY <1>1, EventsAssumption DEF ViewIsBehind
<1>6. \A i \in DOMAIN log' : log'[i].revision \in Nat /\ log'[i].id[2] \in Int /\ log'[i].id[1] = run'
  <2>1. \A i \in DOMAIN log' : log'[i] \in Event
    BY <1>2, ElementOfSeq DEF LogIsOrdered
  <2>2. \A i \in DOMAIN log' : log'[i].id = <<run', made' - Len(log') + i>> /\ Len(log') \in Nat /\ i \in Nat
    <3>1. \A i \in DOMAIN log' : log'[i].id = <<run', made' - Len(log') + i>>
      BY <1>2 DEF LogIsOrdered
    <3>2. log' \in Seq(Event)
      BY <1>2 DEF LogIsOrdered
    <3> QED BY <3>1, <3>2
  <2> QED BY <1>4, <2>1, <2>2, EventsAssumption DEF Event
<1>7. ASSUME view # <<>>, LastShown[1] = run PROVE Behinds(LastShown[2])'
  <2> DEFINE k == LastShown[2]
  <2>1. Behinds(k) /\ LastShown' = LastShown /\ k \in Nat
    <3>1. view[Len(view)] \in Event
      BY <1>1, <1>5, <1>7, ElementOfSeq DEF ViewIsBehind
    <3>2. k \in Nat
      BY <3>1, EventsAssumption DEF Event, LastShown
    <3> QED BY <1>1, <1>3, <1>7, <3>2 DEF ViewIsBehind, LastShown
  <2> HIDE DEF k
  <2>2. k <= made' /\ cursor + (made' - k) <= revision'
    <3>1. k <= made /\ cursor + (made - k) <= revision
      BY <2>1 DEF Behinds
    <3>2. k \in Nat /\ made \in Nat /\ made' \in Nat /\ cursor \in Nat /\ revision \in Nat
      BY <1>4, <1>5, <2>1
    <3>3. made <= made' /\ made' <= made + 1 /\ revision' = revision + 1
      BY <1>2
    <3> QED BY <3>1, <3>2, <3>3, OneMore
  <2>3. ASSUME NEW i \in DOMAIN log'
        PROVE  /\ log'[i].id[2] < k => log'[i].revision <= cursor
               /\ log'[i].id[2] > k => cursor + (log'[i].id[2] - k) <= log'[i].revision
    <3>1. CASE \E j \in DOMAIN log : log'[i] = log[j]
      BY <2>1, <3>1 DEF Behinds
    <3>2. CASE log'[i].revision = revision + 1 /\ log'[i].id = <<run, made'>>
      <4>1. log'[i].id[2] = made' /\ log'[i].revision = revision'
        BY <1>2, <3>2
      <4>2. k \in Nat /\ made' \in Nat /\ ~(made' < k)
        BY <1>4, <2>1, <2>2
      <4> QED BY <2>2, <4>1, <4>2
    <3> QED BY <1>2, <3>1, <3>2
  <2>4. \A n : n = k => Behinds(n)'
    BY <1>3, <2>2, <2>3 DEF Behinds
  <2> QED BY <2>1, <2>4 DEF k
<1>8. ViewIsBehind'
  <2>1. ViewHasNoHole' /\ LastShown' = LastShown
    BY <1>1, <1>3 DEF ViewIsBehind, ViewHasNoHole, LastShown
  <2> QED BY <1>1, <1>3, <1>7, <2>1 DEF ViewIsBehind
<1>9. run' = 1 => Delivered'
  <2>0. run' = 1 => cursor <= revision
    BY <1>3 DEF FollowerInv
  <2> SUFFICES ASSUME run' = 1, Delivered, NEW i \in DOMAIN log'
               PROVE  \/ log'[i].revision > cursor
                      \/ \E j \in DOMAIN view : view[j] = log'[i]
                      \/ /\ view # <<>>
                         /\ \A j \in DOMAIN view : view[j].id[1] = run
                                                   /\ view[j].revision > log'[i].revision
    BY <1>1, <1>3 DEF Delivered
  <2>1. CASE \E j \in DOMAIN log : log'[i] = log[j]
    BY <2>1 DEF Delivered
  <2>2. CASE log'[i].revision = revision + 1
    <3> QED BY <1>4, <1>5, <2>0, <2>2
  <2> QED BY <1>2, <2>1, <2>2
<1>10. run' = 1 => cursor' <= revision'
  BY <1>2, <1>3, <1>4, <1>5 DEF FollowerInv
<1> QED BY <1>2, <1>8, <1>9, <1>10 DEF FollowerInv

\* After a restart the log is empty, and what is shown is of an earlier run.
LEMMA RestartFollows ==
    ASSUME FollowerInv, StartAgain
    PROVE  FollowerInv'
<1>1. /\ run' = run + 1 /\ run < MaxRun /\ log' = <<>> /\ revision' = 0 /\ made' = 0
      /\ cursor' = cursor /\ view' = view /\ LogIsOrdered /\ ViewIsBehind
  BY DEF StartAgain, FollowerInv
<1>2. run \in 1 .. MaxRun /\ MaxRun \in Nat /\ MaxRevision \in Nat /\ MaxEvents \in Nat
  BY <1>1, EventsAssumption DEF LogIsOrdered
<1>3. run' \in 1 .. MaxRun /\ run' # 1
  BY <1>1, <1>2
<1>4. LogIsOrdered'
  <2>1. log' \in Seq(Event) /\ Len(log') = 0 /\ DOMAIN log' = {}
    BY <1>1
  <2> QED BY <1>1, <1>2, <1>3, <2>1 DEF LogIsOrdered
<1>5. ViewHasNoHole' /\ LastShown' = LastShown
  BY <1>1 DEF ViewIsBehind, ViewHasNoHole, LastShown
<1>6. view # <<>> => LastShown[1] \in Nat /\ LastShown[1] <= run
  <2>1. ASSUME view # <<>> PROVE LastShown[1] \in Nat
    <3>1. view[Len(view)] \in Event
      BY <1>1, <2>1, ElementOfSeq DEF ViewIsBehind
    <3> QED BY <3>1, EventsAssumption DEF Event, LastShown
  <2> QED BY <1>1, <2>1 DEF ViewIsBehind
<1>7. view # <<>> => LastShown[1] <= run' /\ LastShown[1] # run'
  BY <1>1, <1>2, <1>6
<1>8. ViewIsBehind'
  BY <1>1, <1>5, <1>7 DEF ViewIsBehind
<1> QED BY <1>3, <1>4, <1>8 DEF FollowerInv

\* What changed since a revision is the end of the log.
LEMMA ChangedIsEnd ==
    ASSUME LogIsOrdered, NEW c \in Nat
    PROVE  \E a \in 1 .. Len(log) + 1 :
             /\ Changed(c) = SubSeq(log, a, Len(log))
             /\ \A i \in DOMAIN log : log[i].revision > c <=> i >= a
<1> DEFINE N == Len(log)
           Late == {i \in DOMAIN log : log[i].revision > c}
<1>1. /\ N \in Nat /\ DOMAIN log = 1 .. N /\ log \in Seq(Event)
      /\ \A i \in 1 .. N : log[i].revision \in Nat
      /\ \A i, j \in 1 .. N : i <= j => log[i].revision + (j - i) <= log[j].revision
  BY EventsOf DEF LogIsOrdered
<1>2. \E a \in 1 .. N + 1 : \A i \in 1 .. N : log[i].revision > c <=> i >= a
  <2>1. CASE Late = {}
    <3>1. \A i \in 1 .. N : ~(log[i].revision > c) /\ ~(i >= N + 1)
      BY <1>1, <2>1
    <3>2. N + 1 \in 1 .. N + 1
      BY <1>1
    <3> QED BY <3>1, <3>2
  <2>2. CASE Late # {}
    <3>1. PICK a \in Late : \A i \in Late : a <= i
      <4>1. Late \in SUBSET Nat
        BY <1>1
      <4> HIDE DEF Late
      <4> QED BY <2>2, <4>1, LeastNumber
    <3>2. a \in 1 .. N /\ a \in 1 .. N + 1 /\ log[a].revision > c
      BY <1>1, <3>1
    <3>3. ASSUME NEW i \in 1 .. N PROVE log[i].revision > c <=> i >= a
      <4>1. log[i].revision > c => i >= a
        BY <1>1, <3>1
      <4>2. i >= a => log[a].revision + (i - a) <= log[i].revision
        BY <1>1, <3>2
      <4> QED BY <1>1, <3>2, <4>1, <4>2
    <3> QED BY <3>2, <3>3
  <2> QED BY <2>1, <2>2
<1>3. PICK a \in 1 .. N + 1 : \A i \in 1 .. N : log[i].revision > c <=> i >= a
  BY <1>2
<1>4. Late = a .. N
  BY <1>1, <1>3
<1>5. Changed(c) = AtPlaces(log, a .. N)
  BY <1>4 DEF Changed
<1>6. AtPlaces(log, a .. N) = SubSeq(log, a, N)
  BY <1>1, LastPlaces
<1> QED BY <1>1, <1>3, <1>5, <1>6

LEMMA EndOfEnd ==
    ASSUME NEW S, NEW s \in Seq(S), NEW a \in 1 .. Len(s) + 1, NEW b \in 1 .. Len(s) - a + 2
    PROVE  LET t == SubSeq(s, a, Len(s))
           IN  /\ t \in Seq(S) /\ Len(t) = Len(s) - a + 1 /\ a + b - 1 \in 1 .. Len(s) + 1
               /\ SubSeq(t, b, Len(t)) = SubSeq(s, a + b - 1, Len(s))
               /\ \A i \in 1 .. Len(t) : t[i] = s[a + i - 1] /\ a + i - 1 \in 1 .. Len(s)
<1> DEFINE t == SubSeq(s, a, Len(s))
<1>1. Len(s) \in Nat /\ a \in Nat /\ b \in Nat
  OBVIOUS
<1>2. t \in Seq(S) /\ Len(t) = Len(s) - a + 1 /\ a + b - 1 \in 1 .. Len(s) + 1
  BY <1>1
<1>3. \A i \in 1 .. Len(t) : t[i] = s[a + i - 1] /\ a + i - 1 \in 1 .. Len(s)
  BY <1>1, <1>2
<1>4. SubSeq(t, b, Len(t)) = [k \in 1 .. Len(t) - b + 1 |-> t[b + k - 1]]
  BY <1>1, <1>2
<1>5. SubSeq(s, a + b - 1, Len(s)) = [k \in 1 .. Len(s) - (a + b - 1) + 1 |-> s[a + b - 1 + k - 1]]
  BY <1>1, <1>2
<1>6. Len(t) - b + 1 = Len(s) - (a + b - 1) + 1
  BY <1>1, <1>2
<1>7. \A k \in 1 .. Len(t) - b + 1 : b + k - 1 \in 1 .. Len(t) /\ a + (b + k - 1) - 1 = a + b - 1 + k - 1
  BY <1>1, <1>2
<1> HIDE DEF t
<1>8. \A k \in 1 .. Len(t) - b + 1 : t[b + k - 1] = s[a + b - 1 + k - 1]
  BY <1>3, <1>7
<1>9. SubSeq(t, b, Len(t)) = SubSeq(s, a + b - 1, Len(s))
  BY <1>4, <1>5, <1>6, <1>8
<1> QED BY <1>2, <1>3, <1>9 DEF t

Follow(e, f) == e[1] < f[1] \/ (e[1] = f[1] /\ f[2] = e[2] + 1)
NoHole(s) == \A i \in 1 .. Len(s) - 1 : Follow(s[i].id, s[i + 1].id)
NoneAfter(s, e) == \A i \in DOMAIN s : s[i].id[1] < e[1] \/ (s[i].id[1] = e[1] /\ s[i].id[2] <= e[2])

LEMMA JoinedNoHole ==
    ASSUME NEW s \in Seq(Event), NEW t \in Seq(Event), NoHole(s), NoHole(t),
           s # <<>> /\ t # <<>> => Follow(s[Len(s)].id, t[1].id)
    PROVE  NoHole(s \o t)
<1>1. Len(s) \in Nat /\ Len(t) \in Nat /\ Len(s \o t) = Len(s) + Len(t)
  OBVIOUS
<1>2. \A i \in 1 .. Len(s) : (s \o t)[i] = s[i]
  BY <1>1
<1>3. \A i \in 1 .. Len(t) : (s \o t)[Len(s) + i] = t[i]
  BY <1>1
<1> SUFFICES ASSUME NEW i \in 1 .. Len(s) + Len(t) - 1
             PROVE  Follow((s \o t)[i].id, (s \o t)[i + 1].id)
  BY <1>1 DEF NoHole
<1>4. CASE i < Len(s)
  <2>1. i \in 1 .. Len(s) /\ i + 1 \in 1 .. Len(s) /\ i \in 1 .. Len(s) - 1
    BY <1>1, <1>4
  <2> QED BY <1>2, <2>1 DEF NoHole
<1>5. CASE i = Len(s)
  <2>1. Len(s) \in 1 .. Len(s) /\ 1 \in 1 .. Len(t) /\ s # <<>> /\ t # <<>>
    BY <1>1, <1>5
  <2> QED BY <1>2, <1>3, <1>5, <2>1
<1>6. CASE i > Len(s)
  <2> DEFINE j == i - Len(s)
  <2>1. j \in 1 .. Len(t) - 1 /\ j \in 1 .. Len(t) /\ j + 1 \in 1 .. Len(t) /\ i = Len(s) + j
        /\ i + 1 = Len(s) + (j + 1)
    BY <1>1, <1>6
  <2> HIDE DEF j
  <2> QED BY <1>3, <2>1 DEF NoHole
<1> QED BY <1>1, <1>4, <1>5, <1>6

LEMMA NewerIs ==
    ASSUME NEW events, NEW e,
           \A i, j \in DOMAIN events : events[i].id = events[j].id => i = j
    PROVE  /\ Newer(events, e).id = e.id
           /\ \/ Newer(events, e) = e /\ \A i \in DOMAIN events : events[i].id # e.id
              \/ \E i \in DOMAIN events : events[i].id = e.id /\ Newer(events, e) = events[i]
<1> DEFINE same == {i \in DOMAIN events : events[i].id = e.id}
<1>1. CASE same = {}
  BY <1>1 DEF Newer
<1>2. CASE same # {}
  <2>1. Newer(events, e) = events[CHOOSE i \in same : TRUE]
    BY <1>2 DEF Newer
  <2>2. (CHOOSE i \in same : TRUE) \in same
    BY <1>2
  <2> QED BY <2>1, <2>2
<1> QED BY <1>1, <1>2

\* The end of the log, from its a-th event.
LEMMA EndOfLog ==
    ASSUME LogIsOrdered, NEW a \in 1 .. Len(log) + 1
    PROVE  LET t == SubSeq(log, a, Len(log))
           IN  /\ t \in Seq(Event) /\ NoHole(t) /\ DOMAIN t = 1 .. Len(log) - a + 1
               /\ \A i, j \in DOMAIN t : t[i].id = t[j].id => i = j
               /\ \A i \in DOMAIN t : t[i] = log[a + i - 1] /\ a + i - 1 \in DOMAIN log
               /\ t # <<>> <=> a <= Len(log)
               /\ NoneAfter(t, <<run, made>>)
               /\ t # <<>> => t[Len(t)].id[1] = run /\ t[Len(t)].id[2] = made /\ t[1] = log[a]
<1> DEFINE t == SubSeq(log, a, Len(log))
           N == Len(log)
<1>1. /\ N \in Nat /\ DOMAIN log = 1 .. N /\ run \in Nat /\ made \in Nat /\ log \in Seq(Event)
      /\ \A i \in 1 .. N : log[i].id[1] = run /\ log[i].id[2] = made - N + i
      /\ \A i, j \in 1 .. N : log[i].id = log[j].id => i = j
  BY EventsOf DEF LogIsOrdered
<1>2. 1 \in 1 .. N - a + 2
  BY <1>1
<1>3. t \in Seq(Event) /\ Len(t) = N - a + 1
      /\ \A i \in 1 .. Len(t) : t[i] = log[a + i - 1] /\ a + i - 1 \in 1 .. N
  BY <1>1, <1>2, EndOfEnd
<1>4. DOMAIN t = 1 .. Len(t) /\ (t # <<>> <=> Len(t) # 0) /\ Len(t) \in Nat /\ a \in Nat
  <2>1. t \in Seq(Event) /\ a \in Nat
    BY <1>3
  <2> HIDE DEF t
  <2> QED BY <2>1
<1> HIDE DEF t, N
<1>5. \A i \in 1 .. Len(t) : t[i].id[1] = run /\ t[i].id[2] = made - N + (a + i - 1)
  BY <1>1, <1>3
<1>6. NoHole(t)
  <2> SUFFICES ASSUME NEW i \in 1 .. Len(t) - 1 PROVE Follow(t[i].id, t[i + 1].id)
    BY DEF NoHole
  <2>1. i \in 1 .. Len(t) /\ i + 1 \in 1 .. Len(t)
    BY <1>4
  <2>2. t[i].id[1] = run /\ t[i + 1].id[1] = run /\ t[i].id[2] = made - N + (a + i - 1)
        /\ t[i + 1].id[2] = made - N + (a + (i + 1) - 1)
    BY <1>5, <2>1
  <2> QED BY <1>1, <2>2 DEF Follow
<1>7. NoneAfter(t, <<run, made>>)
  <2> SUFFICES ASSUME NEW i \in 1 .. Len(t) PROVE t[i].id[1] = run /\ t[i].id[2] <= made
    <3>1. \A i \in DOMAIN t : t[i].id[1] = run /\ t[i].id[2] <= made => 
            t[i].id[1] < run \/ (t[i].id[1] = run /\ t[i].id[2] <= made)
      OBVIOUS
    <3> QED BY <1>4, <3>1 DEF NoneAfter
  <2>1. t[i].id[1] = run /\ t[i].id[2] = made - N + (a + i - 1) /\ Len(t) = N - a + 1 /\ i <= Len(t)
    BY <1>3, <1>4, <1>5
  <2> QED BY <1>1, <1>4, <2>1
<1>8. \A i, j \in DOMAIN t : t[i].id = t[j].id => i = j
  <2> SUFFICES ASSUME NEW i \in 1 .. Len(t), NEW j \in 1 .. Len(t), t[i].id = t[j].id PROVE i = j
    BY <1>4
  <2>1. made - N + (a + i - 1) = made - N + (a + j - 1)
    BY <1>5
  <2> QED BY <1>1, <1>4, <2>1
<1>9. t # <<>> => t[Len(t)].id[1] = run /\ t[Len(t)].id[2] = made /\ t[1] = log[a]
  <2> SUFFICES ASSUME t # <<>> PROVE t[Len(t)].id[1] = run /\ t[Len(t)].id[2] = made /\ t[1] = log[a]
    OBVIOUS
  <2>1. Len(t) \in 1 .. Len(t) /\ 1 \in 1 .. Len(t) /\ a + 1 - 1 = a
    BY <1>1, <1>4
  <2>2. made - N + (a + Len(t) - 1) = made
    BY <1>1, <1>3
  <2> QED BY <1>3, <1>5, <2>1, <2>2
<1>10. t # <<>> <=> a <= N
  BY <1>1, <1>3, <1>4
<1> QED BY <1>1, <1>3, <1>4, <1>6, <1>7, <1>8, <1>9, <1>10 DEF t, N

\* An event that changed since the last poll is shown already if it is the last
\* one shown; the first that is not follows it.
LEMMA NewOnesFollow ==
    ASSUME LogIsOrdered, ViewIsBehind, ~FellBehind(cursor), cursor > 0,
           NEW a \in 1 .. Len(log) + 1, \A i \in DOMAIN log : log[i].revision > cursor <=> i >= a
    PROVE  \E z \in a .. Len(log) + 1 :
             /\ \A i \in DOMAIN log : i >= a => (i >= z <=> ~Has(log[i]))
             /\ view # <<>> /\ z <= Len(log) => Follow(LastShown, log[z].id)
             /\ view # <<>> /\ z > Len(log) /\ LastShown[1] = run => LastShown[2] = made
<1> DEFINE N == Len(log)
           k == LastShown[2]
<1>1. /\ N \in Nat /\ DOMAIN log = 1 .. N /\ run \in Nat /\ made \in Nat
      /\ \A i \in 1 .. N : log[i].id[1] = run /\ log[i].id[2] = made - N + i
      /\ \A i \in 1 .. N : log[i].revision \in Nat /\ log[i].id = <<run, made - N + i>>
      /\ \A i \in 1 .. N : log[i].id[2] \in Int
      /\ a \in Nat /\ a <= N + 1 /\ \A i \in 1 .. N : log[i].revision > cursor <=> i >= a
  <2>1. /\ N \in Nat /\ DOMAIN log = 1 .. N /\ run \in Nat /\ made \in Nat
        /\ \A i \in 1 .. N : log[i].id[1] = run /\ log[i].id[2] = made - N + i
        /\ \A i \in 1 .. N : log[i].revision \in Nat /\ log[i].id = <<run, made - N + i>>
    BY EventsOf DEF LogIsOrdered
  <2>3. a \in Nat /\ a <= N + 1
    BY <2>1
  <2> HIDE DEF N
  <2>2. \A i \in 1 .. N : log[i].id[2] \in Int
    BY <2>1
  <2> QED BY <2>1, <2>2, <2>3
<1>2. /\ cursor \in Nat /\ view \in Seq(Event) /\ DOMAIN view = 1 .. Len(view)
      /\ (view # <<>> => Len(view) \in DOMAIN view /\ LastShown = <<LastShown[1], k>>
                         /\ LastShown[1] \in Nat /\ k \in Nat \ {0})
  <2>1. cursor \in Nat /\ view \in Seq(Event)
    BY EventsAssumption DEF ViewIsBehind
  <2>2. DOMAIN view = 1 .. Len(view) /\ (view # <<>> => Len(view) \in DOMAIN view)
    BY <2>1
  <2>3. view # <<>> => view[Len(view)] \in Event
    BY <2>1, <2>2, ElementOfSeq
  <2> QED BY <2>1, <2>2, <2>3, EventsAssumption DEF Event, LastShown
<1> HIDE DEF N, k
<1>3. CASE view = <<>> \/ LastShown[1] # run
  <2>1. ASSUME NEW i \in 1 .. N PROVE ~Has(log[i])
    <3> SUFFICES ASSUME NEW j \in DOMAIN view, view[j].id = log[i].id PROVE FALSE
      BY DEF Has
    <3>1. view # <<>>
      BY <1>2
    <3>2. LastShown[1] < run
      BY <1>1, <1>2, <1>3, <3>1 DEF ViewIsBehind
    <3>3. view[j].id[1] < LastShown[1] \/ view[j].id[1] = LastShown[1]
      BY <3>1 DEF ViewIsBehind
    <3> QED BY <1>1, <1>2, <3>1, <3>2, <3>3
  <2>2. a \in a .. N + 1
    BY <1>1 DEF N
  <2>3. view # <<>> => LastShown[1] < run
    BY <1>1, <1>2, <1>3 DEF ViewIsBehind
  <2>4. view # <<>> /\ a <= N => Follow(LastShown, log[a].id)
    <3>1. a <= N => a \in 1 .. N
      BY <1>1
    <3> QED BY <1>1, <2>3, <3>1 DEF Follow
  <2> QED BY <1>1, <1>3, <2>1, <2>2, <2>4 DEF N
<1>4. CASE view # <<>> /\ LastShown[1] = run
  <2>1. Behinds(k) /\ k <= made /\ k \in Nat \ {0}
    BY <1>2, <1>4 DEF ViewIsBehind, Behinds, k
  <2>2. \A i \in 1 .. N : /\ log[i].id[2] < k => log[i].revision <= cursor
                          /\ log[i].id[2] > k => cursor + (log[i].id[2] - k) <= log[i].revision
    BY <1>1, <2>1 DEF Behinds
  <2>3. N # 0
    <3>1. N = 0 => made = 0
      BY DEF LogIsOrdered, N
    <3> QED BY <2>1, <3>1
  <2>4. N \in 1 .. N /\ log[N].id[2] = made
    BY <1>1, <2>3
  <2>5. ASSUME NEW i \in 1 .. N, i >= a PROVE log[i].id[2] >= k /\ (Has(log[i]) <=> log[i].id[2] = k)
    <3>1. log[i].revision > cursor /\ log[i].id[2] \in Int
      BY <1>1, <2>5
    <3>2. log[i].id[2] >= k
      <4>1. ~(log[i].id[2] < k)
        BY <1>1, <1>2, <2>2, <2>5, <3>1
      <4> QED BY <2>1, <3>1, <4>1
    <3>3. log[i].id[2] = k => Has(log[i])
      <4>1. log[i].id[2] = k => log[i].id = view[Len(view)].id
        BY <1>1, <1>2, <1>4 DEF LastShown, k
      <4> QED BY <1>2, <1>4, <4>1 DEF Has
    <3>4. Has(log[i]) => log[i].id[2] <= k
      <4> SUFFICES ASSUME NEW j \in DOMAIN view, view[j].id = log[i].id PROVE log[i].id[2] <= k
        BY DEF Has
      <4>1. view[j].id[1] < LastShown[1] \/ view[j].id[2] <= k
        BY <1>4 DEF ViewIsBehind, k
      <4> QED BY <1>1, <1>4, <4>1
    <3> QED BY <2>1, <3>1, <3>2, <3>3, <3>4
  <2>6. CASE a > N
    <3>1. a = N + 1
      BY <1>1, <2>6 DEF N
    <3>2. ~(log[N].revision > cursor)
      BY <1>1, <2>4, <3>1
    <3>3. k = made
      <4>1. log[N].revision <= cursor /\ log[N].revision \in Nat
        BY <1>1, <1>2, <2>4, <3>2
      <4>2. ~(made > k)
        BY <1>1, <1>2, <2>1, <2>2, <2>4, <4>1
      <4> QED BY <1>1, <2>1, <4>2
    <3> QED BY <1>1, <3>1, <3>3 DEF N, k
  <2>7. CASE a <= N
    <3>1. a \in 1 .. N /\ log[a].id[2] >= k /\ a \in Nat /\ log[a].id[2] = made - N + a
      BY <1>1, <2>5, <2>7 DEF N
    <3>2. log[a].id[2] <= k + 1
      <4>1. CASE a = 1
        <5>1. ~(log[1].revision > cursor + 1)
          BY <1>1, <2>3, <4>1 DEF FellBehind, N
        <5>2. log[1].revision <= cursor + 1 /\ log[1].revision \in Nat /\ log[1].id[2] \in Int
          BY <1>1, <1>2, <3>1, <4>1, <5>1
        <5>3. log[1].id[2] > k => cursor + (log[1].id[2] - k) <= log[1].revision
          BY <2>2, <3>1, <4>1
        <5> QED BY <1>2, <2>1, <4>1, <5>2, <5>3
      <4>2. CASE a # 1
        <5>1. a - 1 \in 1 .. N /\ ~(a - 1 >= a)
          BY <1>1, <3>1, <4>2
        <5>2. ~(log[a - 1].revision > cursor) /\ log[a - 1].id[2] = made - N + (a - 1)
          BY <1>1, <5>1
        <5>3. ~(log[a - 1].id[2] > k) /\ log[a - 1].revision <= cursor /\ log[a - 1].id[2] \in Int
          <6>1. log[a - 1].revision <= cursor /\ log[a - 1].id[2] \in Int /\ log[a - 1].revision \in Nat
            BY <1>1, <1>2, <5>1, <5>2
          <6>2. log[a - 1].id[2] > k => cursor + (log[a - 1].id[2] - k) <= log[a - 1].revision
            BY <2>2, <5>1
          <6> QED BY <1>2, <2>1, <6>1, <6>2
        <5> QED BY <1>1, <2>1, <3>1, <5>2, <5>3
      <4> QED BY <4>1, <4>2
    <3>3. CASE log[a].id[2] = k
      <4>1. \A i \in 1 .. N : i >= a => (i >= a + 1 <=> ~Has(log[i]))
        <5> SUFFICES ASSUME NEW i \in 1 .. N, i >= a PROVE i >= a + 1 <=> ~Has(log[i])
          OBVIOUS
        <5>1. log[i].id[2] = made - N + i /\ i \in Int /\ made - N + a = k
          BY <1>1, <3>1, <3>3
        <5>2. log[i].id[2] = k <=> i = a
          BY <1>1, <2>1, <3>1, <5>1
        <5>3. i >= a + 1 <=> i # a
          BY <3>1, <5>1
        <5> QED BY <2>5, <5>2, <5>3
      <4>2. a + 1 \in a .. N + 1
        BY <1>1, <3>1
      <4>3. a + 1 <= N => Follow(LastShown, log[a + 1].id)
        <5>1. a + 1 <= N => a + 1 \in 1 .. N
          BY <1>1, <3>1
        <5> QED BY <1>1, <1>2, <1>4, <3>1, <3>3, <5>1 DEF Follow, k
      <4>4. a + 1 > N => k = made
        BY <1>1, <3>1, <3>3
      <4> QED BY <1>1, <4>1, <4>2, <4>3, <4>4 DEF N, k
    <3>4. CASE log[a].id[2] = k + 1
      <4>1. \A i \in 1 .. N : i >= a => ~Has(log[i])
        <5> SUFFICES ASSUME NEW i \in 1 .. N, i >= a PROVE ~Has(log[i])
          OBVIOUS
        <5>1. log[i].id[2] = made - N + i /\ i \in Int
          BY <1>1
        <5>2. log[i].id[2] >= k + 1
          BY <1>1, <2>1, <3>1, <3>4, <5>1
        <5>3. log[i].id[2] # k
          BY <1>1, <2>1, <5>2
        <5> QED BY <2>5, <5>3
      <4>2. Follow(LastShown, log[a].id)
        BY <1>1, <1>2, <1>4, <3>1, <3>4 DEF Follow, k
      <4> QED BY <1>1, <2>7, <3>1, <4>1, <4>2 DEF N, k
    <3> QED BY <1>1, <2>1, <3>1, <3>2, <3>3, <3>4
  <2> QED BY <1>1, <2>6, <2>7 DEF N
<1> QED BY <1>3, <1>4, <1>1, <1>2 DEF ViewIsBehind

\* The end U of what is shown and the end of the log from its z-th event on fit.
Fits(U, z) ==
    /\ NoHole(U)
    /\ U # <<>> =>
         LET e == U[Len(U)].id
         IN  /\ NoneAfter(U, e)
             /\ e[1] <= run /\ (e[1] = run => e[2] <= made)
             /\ z <= Len(log) => Follow(e, log[z].id)
             /\ z > Len(log) /\ e[1] = run => e[2] = made

LEMMA NotAfter ==
    ASSUME NEW a \in Nat, NEW b \in Nat, NEW c \in Nat, NEW d \in Nat, NEW r \in Nat, NEW m \in Nat,
           a < c \/ (a = c /\ b <= d), c <= r, c = r => d <= m
    PROVE  a < r \/ (a = r /\ b <= m)
OBVIOUS

\* A poll leaves the client level with the log.
LEMMA ShownIsLevel ==
    ASSUME LogIsOrdered, NEW U \in Seq(Event), NEW z \in 1 .. Len(log) + 1, Fits(U, z),
           log' = log, run' = run, made' = made, revision' = revision, cursor' = revision,
           view' = U \o SubSeq(log, z, Len(log))
    PROVE  ViewIsBehind'
<1> DEFINE N == Len(log)
           t == SubSeq(log, z, N)
           e == U[Len(U)].id
<1>1. /\ t \in Seq(Event) /\ NoHole(t)
      /\ (t # <<>> <=> z <= N)
      /\ NoneAfter(t, <<run, made>>)
      /\ (t # <<>> => t[Len(t)].id[1] = run /\ t[Len(t)].id[2] = made /\ t[1] = log[z])
  BY EndOfLog
<1>2. /\ N \in Nat /\ DOMAIN log = 1 .. N /\ run \in Nat /\ made \in Nat /\ revision \in Nat
      /\ \A i \in 1 .. N : log[i].id[2] = made - N + i /\ log[i].revision <= revision
                           /\ log[i].revision \in Nat
  BY EventsOf
<1>3. /\ Len(U) \in Nat /\ DOMAIN U = 1 .. Len(U) /\ (U # <<>> <=> Len(U) # 0)
      /\ Len(t) \in Nat /\ DOMAIN t = 1 .. Len(t) /\ (t # <<>> <=> Len(t) # 0)
  <2>1. t \in Seq(Event)
    BY <1>1
  <2> HIDE DEF t
  <2> QED BY <2>1
<1>4. U # <<>> => e[1] \in Nat /\ e[2] \in Nat /\ e = <<e[1], e[2]>>
  <2>1. U # <<>> => U[Len(U)] \in Event
    BY <1>3, ElementOfSeq
  <2>2. U # <<>> => e \in (1 .. MaxRun) \X (1 .. MaxRevision)
    BY <2>1 DEF Event
  <2> HIDE DEF e
  <2> QED BY <2>2, EventsAssumption
<1>5. z \in Nat /\ revision \in 0 .. MaxRevision
  BY DEF LogIsOrdered
<1> HIDE DEF t, N
<1>6. \A i \in 1 .. Len(U) : U[i].id[1] \in Nat /\ U[i].id[2] \in Nat
  <2> SUFFICES ASSUME NEW i \in 1 .. Len(U) PROVE U[i].id[1] \in Nat /\ U[i].id[2] \in Nat
    OBVIOUS
  <2>1. U[i] \in Event
    BY <1>3, ElementOfSeq
  <2>2. U[i].id \in (1 .. MaxRun) \X (1 .. MaxRevision)
    BY <2>1 DEF Event
  <2>3. \A v \in (1 .. MaxRun) \X (1 .. MaxRevision) : v[1] \in Nat /\ v[2] \in Nat
    BY EventsAssumption
  <2> QED BY <2>2, <2>3
<1>7. view' \in Seq(Event) /\ Len(view') = Len(U) + Len(t) /\ DOMAIN view' = 1 .. Len(U) + Len(t)
      /\ (\A i \in 1 .. Len(U) : view'[i] = U[i])
      /\ \A i \in 1 .. Len(t) : view'[Len(U) + i] = t[i]
  <2>1. view' = U \o t
    BY DEF t, N
  <2> QED BY <1>1, <2>1
<1>8. NoHole(view')
  <2>1. U # <<>> /\ t # <<>> => Follow(U[Len(U)].id, t[1].id)
    BY <1>1 DEF Fits, N
  <2>2. NoHole(U \o t)
    BY <1>1, <2>1, JoinedNoHole DEF Fits
  <2> QED BY <2>2 DEF t, N
<1>9. ViewHasNoHole'
  BY <1>8 DEF ViewHasNoHole, NoHole, Follow
<1>10. cursor' \in 0 .. MaxRevision
  BY <1>5
<1>11. \A n : n = made => Behinds(n)'
  <2> SUFFICES ASSUME NEW i \in 1 .. N
               PROVE  /\ log[i].id[2] < made => log[i].revision <= revision
                      /\ log[i].id[2] > made => revision + (log[i].id[2] - made) <= log[i].revision
    BY <1>2 DEF Behinds
  <2> QED BY <1>2
<1>12. \A i \in DOMAIN view' : i \in 1 .. Len(U) \/ \E j \in 1 .. Len(t) : i = Len(U) + j
  <2> SUFFICES ASSUME NEW i \in 1 .. Len(U) + Len(t), ~(i \in 1 .. Len(U))
               PROVE  \E j \in 1 .. Len(t) : i = Len(U) + j
    BY <1>7
  <2>1. i - Len(U) \in 1 .. Len(t) /\ i = Len(U) + (i - Len(U))
    BY <1>3
  <2> QED BY <2>1
<1>13. CASE t # <<>>
  <2>1. view' # <<>> /\ LastShown'[1] = run /\ LastShown'[2] = made
    <3>1. Len(t) \in 1 .. Len(t) /\ Len(view') # 0 /\ Len(view') = Len(U) + Len(t)
      BY <1>3, <1>7, <1>13
    <3>2. view'[Len(view')] = t[Len(t)]
      BY <1>7, <3>1
    <3> QED BY <1>1, <1>7, <1>13, <3>1, <3>2 DEF LastShown
  <2>2. ASSUME NEW i \in DOMAIN view'
        PROVE  view'[i].id[1] < run \/ (view'[i].id[1] = run /\ view'[i].id[2] <= made)
    <3>1. CASE i \in 1 .. Len(U)
      <4>1. U # <<>> /\ view'[i] = U[i]
        BY <1>3, <1>7, <3>1
      <4>2. U[i].id[1] < e[1] \/ (U[i].id[1] = e[1] /\ U[i].id[2] <= e[2])
        BY <1>3, <3>1, <4>1 DEF Fits, NoneAfter
      <4>3. e[1] <= run /\ (e[1] = run => e[2] <= made)
        BY <4>1 DEF Fits
      <4>4. U[i].id[1] \in Nat /\ U[i].id[2] \in Nat /\ e[1] \in Nat /\ e[2] \in Nat
        BY <1>4, <1>6, <3>1, <4>1
      <4> HIDE DEF e
      <4>5. U[i].id[1] < run \/ (U[i].id[1] = run /\ U[i].id[2] <= made)
        <5> DEFINE a == U[i].id[1]  b == U[i].id[2]  c == e[1]  d == e[2]
        <5>1. /\ a \in Nat /\ b \in Nat /\ c \in Nat /\ d \in Nat
              /\ (a < c \/ (a = c /\ b <= d)) /\ c <= run /\ (c = run => d <= made)
          BY <4>2, <4>3, <4>4
        <5> HIDE DEF a, b, c, d
        <5>2. a < run \/ (a = run /\ b <= made)
          BY <1>2, <5>1
        <5> QED BY <5>2 DEF a, b
      <4> QED BY <4>1, <4>5
    <3>2. CASE \E j \in 1 .. Len(t) : i = Len(U) + j
      <4>1. PICK j \in 1 .. Len(t) : i = Len(U) + j
        BY <3>2
      <4>2. t[j].id[1] < run \/ (t[j].id[1] = run /\ t[j].id[2] <= made)
        BY <1>1, <1>3 DEF NoneAfter
      <4>3. view'[i] = t[j]
        BY <1>7, <4>1
      <4> QED BY <4>2, <4>3
    <3> QED BY <1>12, <3>1, <3>2
  <2>3. LastShown'[1] <= run /\ (LastShown'[1] = run => Behinds(LastShown[2])')
    BY <1>2, <1>11, <2>1
  <2>4. \A i \in DOMAIN view' : \/ view'[i].id[1] < LastShown'[1]
                                \/ view'[i].id[1] = LastShown'[1] /\ view'[i].id[2] <= LastShown'[2]
    BY <2>1, <2>2
  <2> QED BY <1>7, <1>9, <1>10, <2>3, <2>4 DEF ViewIsBehind
<1>14. CASE t = <<>>
  <2>1. view' = U /\ ~(z <= N)
    BY <1>1, <1>14 DEF t, N
  <2>2. ASSUME U # <<>>
        PROVE  /\ LastShown'[1] <= run /\ NoneAfter(U, LastShown') /\ LastShown' = e
               /\ LastShown'[1] = run => LastShown'[2] = made
    BY <1>2, <1>5, <2>1, <2>2 DEF Fits, LastShown, N
  <2>3. view' # <<>> /\ LastShown'[1] = run => Behinds(LastShown[2])'
    <3>1. view' # <<>> /\ LastShown'[1] = run => LastShown'[2] = made
      BY <2>1, <2>2
    <3> QED BY <1>11, <3>1
  <2>4. view' # <<>> => LastShown'[1] <= run /\ NoneAfter(view', LastShown')
    BY <2>1, <2>2
  <2> QED BY <1>7, <1>9, <1>10, <2>3, <2>4 DEF ViewIsBehind, NoneAfter
<1> QED BY <1>13, <1>14

\* A merge brings the events shown up to date and adds the end of the log.
LEMMA MergeIs ==
    ASSUME LogIsOrdered, ViewIsBehind, NEW a \in 1 .. Len(log) + 1, NEW z \in a .. Len(log) + 1,
           \A i \in DOMAIN log : i >= a => (i >= z <=> ~Has(log[i]))
    PROVE  LET t == SubSeq(log, a, Len(log))
               U == [i \in DOMAIN view |-> Newer(t, view[i])]
           IN  /\ Merge(t) = U \o SubSeq(log, z, Len(log))
               /\ U \in Seq(Event) /\ Len(U) = Len(view) /\ DOMAIN U = DOMAIN view
               /\ z \in 1 .. Len(log) + 1
               /\ \A j \in DOMAIN view :
                    /\ U[j].id = view[j].id
                    /\ \/ U[j] = view[j] /\ \A i \in DOMAIN log : i >= a => log[i].id # view[j].id
                       \/ \E i \in DOMAIN log : i >= a /\ log[i].id = view[j].id /\ U[j] = log[i]
<1> DEFINE N == Len(log)
           t == SubSeq(log, a, N)
           U == [i \in DOMAIN view |-> Newer(t, view[i])]
           b == z - a + 1
           New == {i \in DOMAIN t : ~Has(t[i])}
<1>1. /\ N \in Nat /\ DOMAIN log = 1 .. N /\ log \in Seq(Event)
      /\ \A i \in 1 .. N : log[i] \in Event
  BY EventsOf DEF LogIsOrdered
<1>2. /\ t \in Seq(Event) /\ DOMAIN t = 1 .. N - a + 1
      /\ \A i, j \in DOMAIN t : t[i].id = t[j].id => i = j
      /\ \A i \in DOMAIN t : t[i] = log[a + i - 1] /\ a + i - 1 \in DOMAIN log
  BY EndOfLog
<1>3. a \in Nat /\ z \in Nat /\ a <= z /\ z <= N + 1 /\ b \in 1 .. N - a + 2 /\ a + b - 1 = z
      /\ z \in 1 .. N + 1 /\ a <= N + 1 /\ 1 <= a
  BY <1>1
<1>4. Len(t) = N - a + 1 /\ SubSeq(t, b, Len(t)) = SubSeq(log, z, N) /\ b \in 1 .. Len(t) + 1
  BY <1>1, <1>3, EndOfEnd
<1> HIDE DEF t, N, b
<1>5. \A i \in DOMAIN t : ~Has(t[i]) <=> i >= b
  <2> SUFFICES ASSUME NEW i \in DOMAIN t PROVE ~Has(t[i]) <=> i >= b
    OBVIOUS
  <2>1. i \in Nat /\ i >= 1 /\ t[i] = log[a + i - 1] /\ a + i - 1 \in DOMAIN log
    BY <1>2
  <2>2. a + i - 1 >= a /\ (a + i - 1 >= z <=> i >= b)
    BY <1>3, <2>1 DEF b
  <2> QED BY <2>1, <2>2
<1>6. New = b .. Len(t)
  <2>1. DOMAIN t = 1 .. Len(t) /\ b \in Nat /\ b >= 1 /\ Len(t) \in Nat
    BY <1>2, <1>4
  <2> QED BY <1>5, <2>1
<1>7. AtPlaces(t, New) = SubSeq(log, z, N)
  BY <1>2, <1>4, <1>6, LastPlaces
<1>8. Merge(t) = U \o SubSeq(log, z, N)
  BY <1>7 DEF Merge
<1>9. view \in Seq(Event) /\ DOMAIN view = 1 .. Len(view) /\ Len(view) \in Nat
  BY DEF ViewIsBehind
<1>10. ASSUME NEW j \in DOMAIN view
       PROVE  /\ U[j] \in Event
              /\ U[j].id = view[j].id
              /\ \/ U[j] = view[j] /\ \A i \in DOMAIN log : i >= a => log[i].id # view[j].id
                 \/ \E i \in DOMAIN log : i >= a /\ log[i].id = view[j].id /\ U[j] = log[i]
  <2>1. U[j] = Newer(t, view[j]) /\ view[j] \in Event
    BY <1>9, ElementOfSeq
  <2>2. /\ Newer(t, view[j]).id = view[j].id
        /\ \/ Newer(t, view[j]) = view[j] /\ \A i \in DOMAIN t : t[i].id # view[j].id
           \/ \E i \in DOMAIN t : t[i].id = view[j].id /\ Newer(t, view[j]) = t[i]
    BY <1>2, NewerIs
  <2>3. CASE Newer(t, view[j]) = view[j] /\ \A i \in DOMAIN t : t[i].id # view[j].id
    <3>1. ASSUME NEW i \in DOMAIN log, i >= a PROVE log[i].id # view[j].id
      <4>1. i - a + 1 \in DOMAIN t /\ a + (i - a + 1) - 1 = i
        BY <1>1, <1>2, <1>3, <3>1
      <4>2. t[i - a + 1] = log[a + (i - a + 1) - 1]
        BY <1>2, <4>1
      <4> QED BY <2>3, <4>1, <4>2
    <3> QED BY <2>1, <2>2, <2>3, <3>1
  <2>4. CASE \E i \in DOMAIN t : t[i].id = view[j].id /\ Newer(t, view[j]) = t[i]
    <3>1. PICK i \in DOMAIN t : t[i].id = view[j].id /\ Newer(t, view[j]) = t[i]
      BY <2>4
    <3>2. t[i] = log[a + i - 1] /\ a + i - 1 \in DOMAIN log /\ a + i - 1 >= a
      BY <1>2, <1>3, <3>1
    <3>3. log[a + i - 1] \in Event
      BY <1>1, <3>2
    <3> QED BY <2>1, <2>2, <3>1, <3>2, <3>3
  <2> QED BY <2>2, <2>3, <2>4
<1>11. U \in Seq(Event) /\ Len(U) = Len(view) /\ DOMAIN U = DOMAIN view
  <2>1. U \in [1 .. Len(view) -> Event]
    BY <1>9, <1>10
  <2>2. DOMAIN U = 1 .. Len(view)
    BY <1>9
  <2> HIDE DEF U
  <2>3. U \in Seq(Event)
    BY <1>9, <2>1, SeqDef
  <2> QED BY <1>9, <2>2, <2>3, LenProperties
<1> HIDE DEF U
<1>12. \A j \in DOMAIN view :
         /\ U[j].id = view[j].id
         /\ \/ U[j] = view[j] /\ \A i \in DOMAIN log : i >= a => log[i].id # view[j].id
            \/ \E i \in DOMAIN log : i >= a /\ log[i].id = view[j].id /\ U[j] = log[i]
  BY <1>10
<1> QED BY <1>3, <1>8, <1>11, <1>12 DEF t, U, N

\* A page that replaces what is shown is the end of the log.
LEMMA ReplacedIs ==
    ASSUME LogIsOrdered, NEW limit \in Nat \ {0}
    PROVE  \E a \in 1 .. Len(log) + 1 : /\ Recent(limit) = SubSeq(log, a, Len(log))
                                        /\ log # <<>> => a <= Len(log)
<1> DEFINE a == IF Len(log) > limit THEN Len(log) - limit + 1 ELSE 1
<1>1. Len(log) \in Nat /\ (log # <<>> => Len(log) # 0)
  BY EventsOf DEF LogIsOrdered
<1>2. a \in 1 .. Len(log) + 1 /\ (Len(log) # 0 => a <= Len(log))
  BY <1>1
<1>3. Recent(limit) = SubSeq(log, a, Len(log))
  BY DEF Recent
<1> QED BY <1>1, <1>2, <1>3

\* A poll that replaces what is shown.
LEMMA ReplacingPoll ==
    ASSUME FollowerInv, NEW limit \in Nat \ {0}, view' = Recent(limit),
           log' = log, run' = run, made' = made, revision' = revision, cursor' = revision
    PROVE  FollowerInv'
<1> DEFINE N == Len(log)
<1>1. LogIsOrdered /\ LogIsOrdered'
  BY DEF FollowerInv, LogIsOrdered
<1>2. PICK a \in 1 .. N + 1 : Recent(limit) = SubSeq(log, a, N) /\ (log # <<>> => a <= N)
  BY <1>1, ReplacedIs
<1> DEFINE t == SubSeq(log, a, N)
<1>3. /\ t \in Seq(Event) /\ DOMAIN t = 1 .. N - a + 1
      /\ \A i \in DOMAIN t : t[i] = log[a + i - 1] /\ a + i - 1 \in DOMAIN log
      /\ t # <<>> <=> a <= N
  BY <1>1, EndOfLog
<1>4. view' = t
  BY <1>2
<1>5. /\ N \in Nat /\ DOMAIN log = 1 .. N /\ revision \in Nat
      /\ \A i \in 1 .. N : log[i].revision \in Nat /\ log[i].revision <= revision /\ log[i].id[1] = run
      /\ \A i, j \in 1 .. N : i <= j => log[i].revision + (j - i) <= log[j].revision
      /\ log # <<>> <=> N # 0
      /\ a \in Nat
  <2>1. log \in Seq(Event) /\ \A i, j \in DOMAIN log : i <= j => log[i].revision + (j - i) <= log[j].revision
    BY <1>1 DEF LogIsOrdered
  <2>2. log # <<>> <=> N # 0
    BY <2>1
  <2>3. N \in Nat /\ a \in Nat
    BY <2>1
  <2> QED BY <1>1, <2>1, <2>2, <2>3, EventsOf
<1>6. ViewIsBehind'
  <2>1. <<>> \in Seq(Event) /\ Fits(<<>>, a)
    BY DEF Fits, NoHole
  <2>2. view' = <<>> \o SubSeq(log, a, Len(log))
    BY <1>3, <1>4
  <2> QED BY <1>1, <2>1, <2>2, ShownIsLevel
<1> HIDE DEF t, N
<1>7. Delivered'
  <2> SUFFICES ASSUME NEW i \in 1 .. N
               PROVE  \/ \E j \in DOMAIN t : t[j] = log[i]
                      \/ /\ t # <<>>
                         /\ \A j \in DOMAIN t : t[j].id[1] = run /\ t[j].revision > log[i].revision
    BY <1>4, <1>5 DEF Delivered
  <2>1. CASE i >= a
    <3>1. i - a + 1 \in DOMAIN t /\ a + (i - a + 1) - 1 = i
      BY <1>3, <1>5, <2>1
    <3>2. t[i - a + 1] = log[a + (i - a + 1) - 1]
      BY <1>3, <3>1
    <3> QED BY <3>1, <3>2
  <2>2. CASE ~(i >= a)
    <3>1. t # <<>>
      BY <1>2, <1>3, <1>5
    <3>2. ASSUME NEW j \in DOMAIN t PROVE t[j].id[1] = run /\ t[j].revision > log[i].revision
      <4> DEFINE n == a + j - 1
      <4>1. t[j] = log[n] /\ n \in 1 .. N /\ j \in Nat /\ j >= 1
        BY <1>3, <1>5
      <4>2. i <= n /\ n - i >= 1 /\ n - i \in Int
        BY <1>5, <2>2, <4>1
      <4> HIDE DEF n
      <4>3. log[i].revision + (n - i) <= log[n].revision
        BY <1>5, <4>1, <4>2
      <4>4. log[i].revision \in Nat /\ log[n].revision \in Nat /\ log[n].id[1] = run
        BY <1>5, <4>1
      <4>5. log[n].revision > log[i].revision
        BY <4>2, <4>3, <4>4
      <4> QED BY <4>1, <4>4, <4>5
    <3> QED BY <3>1, <3>2
  <2> QED BY <2>1, <2>2
<1>8. cursor' <= revision'
  BY <1>5
<1> QED BY <1>1, <1>6, <1>7, <1>8 DEF FollowerInv

\* A poll that merges what changed.
LEMMA MergingPoll ==
    ASSUME FollowerInv, cursor > 0, ~FellBehind(cursor), view' = Merge(Changed(cursor)),
           log' = log, run' = run, made' = made, revision' = revision, cursor' = revision
    PROVE  FollowerInv'
<1> DEFINE N == Len(log)
<1>1. LogIsOrdered /\ ViewIsBehind /\ LogIsOrdered' /\ cursor \in Nat
  BY EventsAssumption DEF FollowerInv, LogIsOrdered, ViewIsBehind
<1>2. PICK a \in 1 .. N + 1 : /\ Changed(cursor) = SubSeq(log, a, N)
                              /\ \A i \in DOMAIN log : log[i].revision > cursor <=> i >= a
  BY <1>1, ChangedIsEnd
<1>3. PICK z \in a .. N + 1 :
        /\ \A i \in DOMAIN log : i >= a => (i >= z <=> ~Has(log[i]))
        /\ view # <<>> /\ z <= N => Follow(LastShown, log[z].id)
        /\ view # <<>> /\ z > N /\ LastShown[1] = run => LastShown[2] = made
  BY <1>1, <1>2, NewOnesFollow
<1> DEFINE t == SubSeq(log, a, N)
           U == [i \in DOMAIN view |-> Newer(t, view[i])]
           W == SubSeq(log, z, N)
<1>4. /\ view' = U \o W
      /\ U \in Seq(Event) /\ Len(U) = Len(view) /\ DOMAIN U = DOMAIN view
      /\ z \in 1 .. N + 1
      /\ \A j \in DOMAIN view :
           /\ U[j].id = view[j].id
           /\ \/ U[j] = view[j] /\ \A i \in DOMAIN log : i >= a => log[i].id # view[j].id
              \/ \E i \in DOMAIN log : i >= a /\ log[i].id = view[j].id /\ U[j] = log[i]
  <2>1. Merge(t) = U \o W
    BY <1>1, <1>3, MergeIs
  <2>2. /\ U \in Seq(Event) /\ Len(U) = Len(view) /\ DOMAIN U = DOMAIN view
        /\ z \in 1 .. N + 1
        /\ \A j \in DOMAIN view :
             /\ U[j].id = view[j].id
             /\ \/ U[j] = view[j] /\ \A i \in DOMAIN log : i >= a => log[i].id # view[j].id
                \/ \E i \in DOMAIN log : i >= a /\ log[i].id = view[j].id /\ U[j] = log[i]
    BY <1>1, <1>3, MergeIs
  <2> QED BY <1>2, <2>1, <2>2
<1>5. /\ N \in Nat /\ DOMAIN log = 1 .. N /\ revision \in Nat /\ run \in Nat /\ made \in Nat
      /\ \A i \in 1 .. N : log[i].revision \in Nat /\ log[i].revision <= revision /\ log[i].id[1] = run
      /\ \A i, j \in 1 .. N : i <= j => log[i].revision + (j - i) <= log[j].revision
      /\ \A i, j \in 1 .. N : log[i].id = log[j].id => i = j
      /\ a \in Nat
  <2>1. a \in Nat
    OBVIOUS
  <2> QED BY <1>1, <2>1, EventsOf DEF LogIsOrdered
<1>6. /\ W \in Seq(Event) /\ DOMAIN W = 1 .. N - z + 1 /\ Len(W) = N - z + 1
      /\ \A i \in DOMAIN W : W[i] = log[z + i - 1] /\ z + i - 1 \in DOMAIN log
  <2>1. W \in Seq(Event) /\ DOMAIN W = 1 .. N - z + 1
        /\ \A i \in DOMAIN W : W[i] = log[z + i - 1] /\ z + i - 1 \in DOMAIN log
    BY <1>1, <1>4, EndOfLog
  <2>2. N - z + 1 \in Nat
    BY <1>4, <1>5
  <2> HIDE DEF W, N
  <2> QED BY <2>1, <2>2
<1>7. view \in Seq(Event) /\ Len(view) \in Nat /\ DOMAIN view = 1 .. Len(view) /\ ViewHasNoHole
      /\ (U # <<>> <=> view # <<>>)
  <2>1. view \in Seq(Event) /\ ViewHasNoHole
    BY <1>1 DEF ViewIsBehind
  <2> HIDE DEF U
  <2> QED BY <1>4, <2>1
<1> HIDE DEF t, N, U, W
<1>8. Fits(U, z)
  <2>1. NoHole(U)
    <3> SUFFICES ASSUME NEW i \in 1 .. Len(view) - 1 PROVE Follow(U[i].id, U[i + 1].id)
      BY <1>4 DEF NoHole
    <3>1. i \in DOMAIN view /\ i + 1 \in DOMAIN view
      BY <1>7
    <3>2. U[i].id = view[i].id /\ U[i + 1].id = view[i + 1].id
      BY <1>4, <3>1
    <3>3. Follow(view[i].id, view[i + 1].id)
      BY <1>7 DEF ViewHasNoHole, Follow
    <3> QED BY <3>2, <3>3
  <2>2. ASSUME U # <<>>
        PROVE  LET e == U[Len(U)].id
               IN  /\ NoneAfter(U, e)
                   /\ e[1] <= run /\ (e[1] = run => e[2] <= made)
                   /\ z <= Len(log) => Follow(e, log[z].id)
                   /\ z > Len(log) /\ e[1] = run => e[2] = made
    <3>1. view # <<>> /\ Len(view) \in DOMAIN view
      BY <1>7, <2>2
    <3>2. U[Len(U)].id = LastShown
      BY <1>4, <3>1 DEF LastShown
    <3>3. LastShown[1] <= run /\ (LastShown[1] = run => LastShown[2] <= made)
      BY <1>1, <3>1 DEF ViewIsBehind, Behinds
    <3>4. NoneAfter(U, LastShown)
      <4>1. \A i \in DOMAIN view : \/ view[i].id[1] < LastShown[1]
                                   \/ view[i].id[1] = LastShown[1] /\ view[i].id[2] <= LastShown[2]
        BY <1>1, <3>1 DEF ViewIsBehind
      <4> QED BY <1>4, <4>1 DEF NoneAfter
    <3> QED BY <1>3, <3>1, <3>2, <3>3, <3>4 DEF N
  <2> QED BY <2>1, <2>2 DEF Fits
<1>9. ViewIsBehind'
  BY <1>1, <1>4, <1>8, ShownIsLevel DEF N, W
<1>10. Len(U) = Len(view) /\ DOMAIN view' = 1 .. Len(U) + Len(W)
       /\ (\A j \in DOMAIN U : j \in DOMAIN view' /\ view'[j] = U[j])
       /\ (\A j \in DOMAIN W : Len(U) + j \in DOMAIN view' /\ view'[Len(U) + j] = W[j])
       /\ \A j \in DOMAIN view' : j \in DOMAIN U \/ \E i \in DOMAIN W : j = Len(U) + i
  <2>1. Len(U) = Len(view) /\ DOMAIN U = 1 .. Len(U) /\ Len(U) \in Nat /\ Len(W) \in Nat /\ DOMAIN W = 1 .. Len(W)
    BY <1>4, <1>6
  <2>2. DOMAIN view' = 1 .. Len(U) + Len(W)
    BY <1>4, <1>6, <2>1
  <2>3. (\A j \in DOMAIN U : j \in DOMAIN view' /\ view'[j] = U[j])
        /\ (\A j \in DOMAIN W : Len(U) + j \in DOMAIN view' /\ view'[Len(U) + j] = W[j])
    BY <1>4, <1>6, <2>1, <2>2
  <2>4. ASSUME NEW j \in 1 .. Len(U) + Len(W), ~(j \in DOMAIN U)
        PROVE  \E i \in DOMAIN W : j = Len(U) + i
    <3>1. j - Len(U) \in 1 .. Len(W) /\ j = Len(U) + (j - Len(U))
      BY <2>1, <2>4
    <3> QED BY <2>1, <3>1
  <2> QED BY <2>1, <2>2, <2>3, <2>4
<1>11. ASSUME run = 1 PROVE Delivered'
  <2>1. Delivered
    BY <1>11 DEF FollowerInv
  <2> SUFFICES ASSUME NEW i \in 1 .. N
               PROVE  \/ \E j \in DOMAIN view' : view'[j] = log[i]
                      \/ /\ view' # <<>>
                         /\ \A j \in DOMAIN view' : view'[j].id[1] = run /\ view'[j].revision > log[i].revision
    BY <1>5 DEF Delivered
  <2>2. CASE i >= z
    <3>1. i - z + 1 \in DOMAIN W /\ z + (i - z + 1) - 1 = i
      BY <1>4, <1>5, <1>6, <2>2
    <3>2. W[i - z + 1] = log[i]
      BY <1>6, <3>1
    <3> QED BY <1>10, <3>1, <3>2
  <2>3. CASE i >= a /\ ~(i >= z)
    <3>1. PICK j \in DOMAIN view : view[j].id = log[i].id
      BY <1>3, <1>5, <2>3 DEF Has
    <3>2. PICK n \in DOMAIN log : log[n].id = view[j].id /\ U[j] = log[n]
      BY <1>4, <1>5, <2>3, <3>1
    <3>3. n = i
      BY <1>5, <3>1, <3>2
    <3> QED BY <1>4, <1>10, <3>2, <3>3
  <2>4. CASE ~(i >= a)
    <3>1. ~(log[i].revision > cursor)
      BY <1>2, <1>5, <2>4
    <3>2. ASSUME NEW n \in 1 .. N, n >= a PROVE log[n].revision > log[i].revision /\ log[n].id # log[i].id
      <4>1. i <= n /\ i # n /\ n - i >= 1 /\ n - i \in Int
        <5>1. i \in Nat /\ n \in Nat /\ a \in Nat
          BY <1>5
        <5>2. i < n
          BY <2>4, <3>2, <5>1
        <5> QED BY <5>1, <5>2
      <4>2. log[i].revision + (n - i) <= log[n].revision
        BY <1>5, <4>1
      <4>3. log[i].revision \in Nat /\ log[n].revision \in Nat
        BY <1>5
      <4>4. log[n].revision > log[i].revision
        BY <4>1, <4>2, <4>3
      <4>5. log[n].id # log[i].id
        BY <1>5, <4>1
      <4> QED BY <4>4, <4>5
    <3>3. CASE \E j \in DOMAIN view : view[j] = log[i]
      <4>1. PICK j \in DOMAIN view : view[j] = log[i]
        BY <3>3
      <4>2. U[j] = view[j]
        BY <1>4, <1>5, <3>2, <4>1
      <4> QED BY <1>4, <1>10, <4>1, <4>2
    <3>4. CASE view # <<>> /\ \A j \in DOMAIN view : view[j].id[1] = run /\ view[j].revision > log[i].revision
      <4>1. ASSUME NEW j \in DOMAIN U PROVE U[j].id[1] = run /\ U[j].revision > log[i].revision
        <5>1. CASE U[j] = view[j]
          BY <1>4, <3>4, <5>1
        <5>2. CASE \E n \in DOMAIN log : n >= a /\ U[j] = log[n]
          <6>1. PICK n \in 1 .. N : n >= a /\ U[j] = log[n]
            BY <1>5, <5>2
          <6> QED BY <1>5, <3>2, <6>1
        <5> QED BY <1>4, <5>1, <5>2
      <4>2. ASSUME NEW j \in DOMAIN W PROVE W[j].id[1] = run /\ W[j].revision > log[i].revision
        <5>1. W[j] = log[z + j - 1] /\ z + j - 1 \in 1 .. N /\ z + j - 1 >= a
          BY <1>3, <1>5, <1>6
        <5> QED BY <1>5, <3>2, <5>1
      <4>3. view' # <<>>
        BY <1>4, <1>7, <3>4
      <4>4. ASSUME NEW j \in DOMAIN view' PROVE view'[j].id[1] = run /\ view'[j].revision > log[i].revision
        BY <1>10, <4>1, <4>2
      <4> QED BY <4>3, <4>4
    <3> QED BY <1>5, <2>1, <3>1, <3>3, <3>4 DEF Delivered
  <2> QED BY <2>2, <2>3, <2>4
<1>12. cursor' <= revision'
  BY <1>5
<1> QED BY <1>1, <1>9, <1>11, <1>12 DEF FollowerInv

LEMMA PollFollows ==
    ASSUME FollowerInv, NEW limit \in PageLimits, Poll(limit)
    PROVE  FollowerInv'
<1>1. limit \in Nat \ {0} /\ cursor \in Nat
  BY EventsAssumption DEF FollowerInv, ViewIsBehind
<1>2. log' = log /\ run' = run /\ made' = made /\ revision' = revision /\ cursor' = revision
  BY DEF Poll, Page
<1>3. CASE cursor = 0 \/ Reset(cursor, limit)
  <2>1. view' = Recent(limit)
    BY <1>3 DEF Poll, Page
  <2> QED BY <1>1, <1>2, <2>1, ReplacingPoll
<1>4. CASE cursor # 0 /\ ~Reset(cursor, limit)
  <2>1. view' = Merge(Changed(cursor))
    BY <1>4 DEF Poll, Page
  <2>2. cursor > 0 /\ ~FellBehind(cursor)
    BY <1>1, <1>4 DEF Reset
  <2> QED BY <1>2, <2>1, <2>2, MergingPoll
<1> QED BY <1>3, <1>4


\* The client keeps level with the log, whatever happens to it.
LEMMA FollowerStep ==
    ASSUME FollowerInv, [EventsNext]_evars
    PROVE  FollowerInv'
<1>1. CASE UNCHANGED evars
  BY <1>1 DEF FollowerInv, LogIsOrdered, ViewIsBehind, ViewHasNoHole, Behinds, LastShown, Delivered, evars
<1> QED BY <1>1, AppendFollows, RestartFollows, PollFollows DEF EventsNext

-----------------------------------------------------------------------------
(* OperationLog                                                            *)

LinesAreLines ==
    /\ lines \in Seq(Seq(Record \cup {TornText})) /\ partial \in BOOLEAN /\ mixed \in BOOLEAN
    /\ writing \in [Appender -> tried \cup {"none"}]
    /\ tried \subseteq Record /\ acked \subseteq tried
    /\ torn \in Nat
    /\ partial => lines # <<>> /\ lines[Len(lines)] # <<>>

\* A record comes first on one line at most.
FirstsDiffer ==
    /\ \A i \in DOMAIN lines : lines[i] # <<>> => lines[i][1] \in tried \cup {TornText}
    /\ \A i, j \in DOMAIN lines : /\ lines[i] # <<>> /\ lines[j] # <<>>
                                  /\ lines[i][1] = lines[j][1] /\ lines[i][1] # TornText
                                  => i = j

\* The client has been given the first records of the lines up to its cursor.
PageIsStart ==
    /\ page.cursor \in Nat /\ page.seen \in Seq(Record)
    /\ Len(page.seen) = page.cursor /\ page.cursor <= Len(lines)
    /\ \A i \in DOMAIN page.seen : lines[i] # <<>> /\ page.seen[i] = lines[i][1]

\* Until two texts meet on a line, one call at most has written the text of its
\* record, which then is the last line.
OneWrites ==
    /\ \A a \in Appender : writing[a] # "none" => partial /\ lines[Len(lines)] = <<writing[a]>>
    /\ \A a, b \in Appender : writing[a] # "none" /\ writing[b] # "none" => a = b
    /\ acked \subseteq Stored
    /\ torn = 0 => \A i \in DOMAIN lines : Readable(lines[i])

LinesInv == LinesAreLines /\ FirstsDiffer /\ PageIsStart /\ (~mixed => OneWrites)

LEMMA FirstLines == ASSUME LogInit PROVE LinesInv
<1>1. lines = <<>> /\ partial = FALSE /\ tried = {} /\ acked = {} /\ torn = 0 /\ mixed = FALSE
      /\ writing = [a \in Appender |-> "none"] /\ page.cursor = 0 /\ page.seen = <<>>
  BY DEF LogInit
<1>2. LinesAreLines
  <2>1. writing \in [Appender -> tried \cup {"none"}]
    BY <1>1
  <2>2. lines \in Seq(Seq(Record \cup {TornText})) /\ torn \in Nat
    BY <1>1
  <2>3. partial \in BOOLEAN /\ mixed \in BOOLEAN /\ ~partial /\ tried \subseteq Record /\ acked \subseteq tried
    BY <1>1
  <2> QED BY <2>1, <2>2, <2>3 DEF LinesAreLines
<1>3. FirstsDiffer
  BY <1>1 DEF FirstsDiffer
<1>4. PageIsStart
  BY <1>1 DEF PageIsStart
<1>5. OneWrites
  BY <1>1 DEF OneWrites
<1> QED BY <1>2, <1>3, <1>4, <1>5 DEF LinesInv

\* A text is written on a line of its own, or behind what is on the last one.
LEMMA TextWritten ==
    ASSUME LinesInv, NEW r \in Record, r \notin tried, NEW x \in {r, TornText}, LogBounds,
           lines' = WithText(x), tried' = tried \cup {r}
    PROVE  /\ lines' \in Seq(Seq(Record \cup {TornText})) /\ lines' # <<>> /\ lines'[Len(lines')] # <<>>
           /\ Len(lines) \in Nat /\ Len(lines') >= Len(lines)
           /\ \A i \in DOMAIN lines : /\ i \in DOMAIN lines'
                                      /\ lines[i] # <<>> => lines'[i] # <<>> /\ lines'[i][1] = lines[i][1]
           /\ FirstsDiffer'
           /\ ~partial => lines' = Append(lines, <<x>>)
<1> DEFINE N == Len(lines)
           Txt == Record \cup {TornText}
<1>1. lines \in Seq(Seq(Txt)) /\ N \in Nat /\ DOMAIN lines = 1 .. N /\ x \in Txt
      /\ (partial => lines # <<>> /\ lines[N] # <<>>)
  BY DEF LinesInv, LinesAreLines
<1>2. \A i \in 1 .. N : lines[i] \in Seq(Txt)
  BY <1>1, ElementOfSeq
<1> HIDE DEF N, Txt
<1>3. /\ \A i \in 1 .. N : lines[i] # <<>> => lines[i][1] \in tried \cup {TornText}
      /\ \A i, j \in 1 .. N : /\ lines[i] # <<>> /\ lines[j] # <<>>
                              /\ lines[i][1] = lines[j][1] /\ lines[i][1] # TornText
                              => i = j
  BY <1>1 DEF LinesInv, FirstsDiffer
<1>4. CASE partial
  <2>1. lines' = [lines EXCEPT ![N] = Append(lines[N], x)] /\ N \in 1 .. N
    <3>1. N # 0
      BY <1>1, <1>4 DEF N
    <3> QED BY <1>1, <1>4, <3>1 DEF WithText, N
  <2>2. lines[N] \in Seq(Txt) /\ lines[N] # <<>>
    BY <1>1, <1>2, <1>4, <2>1
  <2>3. Append(lines[N], x) \in Seq(Txt) /\ Append(lines[N], x) # <<>>
        /\ Append(lines[N], x)[1] = lines[N][1]
    BY <1>1, <2>2
  <2>4. lines' \in Seq(Seq(Txt)) /\ Len(lines') = N /\ DOMAIN lines' = 1 .. N
    BY <1>1, <2>1, <2>3
  <2>5. \A i \in 1 .. N : /\ lines'[i] # <<>> => lines[i] # <<>>
                          /\ lines[i] # <<>> => lines'[i] # <<>> /\ lines'[i][1] = lines[i][1]
    BY <1>1, <2>1, <2>2, <2>3
  <2>6. lines' # <<>> /\ lines'[N] # <<>>
    BY <1>1, <2>1, <2>2, <2>4, <2>5
  <2>7. FirstsDiffer'
    <3>1. \A i \in 1 .. N : lines'[i] # <<>> => lines'[i][1] \in tried' \cup {TornText}
      BY <1>3, <2>5
    <3>2. \A i, j \in 1 .. N : /\ lines'[i] # <<>> /\ lines'[j] # <<>>
                               /\ lines'[i][1] = lines'[j][1] /\ lines'[i][1] # TornText
                               => i = j
      BY <1>3, <2>5
    <3> QED BY <2>4, <3>1, <3>2 DEF FirstsDiffer
  <2> QED BY <1>1, <1>4, <2>4, <2>5, <2>6, <2>7 DEF Txt, N
<1>5. CASE ~partial
  <2>1. lines' = Append(lines, <<x>>)
    BY <1>5 DEF WithText
  <2>2. <<x>> \in Seq(Txt) /\ <<x>> # <<>> /\ <<x>>[1] = x
    BY <1>1
  <2>3. /\ lines' \in Seq(Seq(Txt)) /\ Len(lines') = N + 1 /\ DOMAIN lines' = 1 .. N + 1
        /\ lines'[N + 1] = <<x>> /\ \A i \in 1 .. N : lines'[i] = lines[i] /\ i \in 1 .. N + 1
    BY <1>1, <2>1, <2>2 DEF N
  <2>4. \A i \in 1 .. N + 1 : i \in 1 .. N \/ i = N + 1
    BY <1>1
  <2>5. \A i \in 1 .. N + 1 : lines'[i] # <<>> => lines'[i][1] \in tried' \cup {TornText}
    BY <1>3, <2>2, <2>3, <2>4
  <2>6. ASSUME NEW i \in 1 .. N, lines[i] # <<>> PROVE x = TornText \/ lines[i][1] # x
    <3>1. lines[i][1] \in tried \cup {TornText}
      BY <1>3, <2>6
    <3> QED BY <3>1 DEF LogBounds
  <2>7. ASSUME NEW i \in 1 .. N + 1, NEW j \in 1 .. N + 1, lines'[i] # <<>>, lines'[j] # <<>>,
               lines'[i][1] = lines'[j][1], lines'[i][1] # TornText
        PROVE  i = j
    <3>1. CASE i \in 1 .. N /\ j \in 1 .. N
      BY <1>3, <2>3, <2>7, <3>1
    <3>2. CASE i \in 1 .. N /\ j = N + 1
      BY <2>2, <2>3, <2>6, <2>7, <3>2
    <3>3. CASE i = N + 1 /\ j \in 1 .. N
      BY <2>2, <2>3, <2>6, <2>7, <3>3
    <3> QED BY <2>4, <3>1, <3>2, <3>3
  <2>8. FirstsDiffer'
    BY <2>3, <2>5, <2>7 DEF FirstsDiffer
  <2>9. lines' # <<>> /\ lines'[Len(lines')] # <<>> /\ N + 1 >= N
    BY <1>1, <2>2, <2>3
  <2> QED BY <1>1, <1>5, <2>1, <2>3, <2>8, <2>9 DEF Txt, N
<1> QED BY <1>4, <1>5

\* The client's part is not disturbed by what is written behind it.
LEMMA PageStays ==
    ASSUME PageIsStart, page' = page, Len(lines) \in Nat, Len(lines') \in Nat, Len(lines') >= Len(lines),
           lines \in Seq(Seq(Record \cup {TornText})),
           \A i \in DOMAIN lines : lines[i] # <<>> => lines'[i] # <<>> /\ lines'[i][1] = lines[i][1]
    PROVE  PageIsStart'
<1>1. DOMAIN lines = 1 .. Len(lines)
  OBVIOUS
<1>2. page.seen \in Seq(Record) /\ Len(page.seen) \in Nat /\ DOMAIN page.seen = 1 .. Len(page.seen)
  BY DEF PageIsStart
<1>3. \A i \in DOMAIN page.seen : i \in DOMAIN lines
  BY <1>1, <1>2 DEF PageIsStart
<1>4. page.cursor <= Len(lines')
  BY DEF PageIsStart
<1> QED BY <1>2, <1>3, <1>4 DEF PageIsStart

\* What is stored stays stored behind a line that is added.
LEMMA RecordsStay ==
    ASSUME LinesAreLines, NEW x, lines' = Append(lines, <<x>>)
    PROVE  Stored \subseteq Stored'
<1>1. lines \in Seq(Seq(Record \cup {TornText})) /\ DOMAIN lines = 1 .. Len(lines) /\ Len(lines) \in Nat
  BY DEF LinesAreLines
<1>2. DOMAIN lines' = 1 .. Len(lines) + 1 /\ \A i \in DOMAIN lines : lines'[i] = lines[i] /\ i \in DOMAIN lines'
  BY <1>1
<1> SUFFICES ASSUME NEW i \in DOMAIN lines, Readable(lines[i]) PROVE lines[i][1] \in Stored'
  BY DEF Stored
<1>3. i \in DOMAIN lines' /\ lines'[i] = lines[i]
  BY <1>2
<1>4. Readable(lines'[i])
  BY <1>3 DEF Readable
<1> QED BY <1>3, <1>4 DEF Stored, Readable

LEMMA TextStep ==
    ASSUME LinesInv, LogBounds, NEW a \in Appender, NEW r \in Record,
           AppendText(a, r) \/ AppendFails(a, r)
    PROVE  LinesInv'
<1>0. /\ writing[a] = "none" /\ r \notin tried /\ partial' = TRUE /\ mixed' = (mixed \/ partial)
      /\ tried' = tried \cup {r} /\ acked' = acked /\ page' = page
      /\ \/ lines' = WithText(r) /\ writing' = [writing EXCEPT ![a] = r] /\ torn' = torn
         \/ lines' = WithText(TornText) /\ writing' = writing /\ torn' = torn + 1
  BY DEF AppendText, AppendFails
<1>1. PICK x \in {r, TornText} :
        /\ lines' = WithText(x)
        /\ \/ x = r /\ writing' = [writing EXCEPT ![a] = r] /\ torn' = torn
           \/ x = TornText /\ writing' = writing /\ torn' = torn + 1
  BY <1>0
<1>2. /\ lines' \in Seq(Seq(Record \cup {TornText})) /\ lines' # <<>> /\ lines'[Len(lines')] # <<>>
      /\ Len(lines) \in Nat /\ Len(lines') >= Len(lines)
      /\ \A i \in DOMAIN lines : /\ i \in DOMAIN lines'
                                 /\ lines[i] # <<>> => lines'[i] # <<>> /\ lines'[i][1] = lines[i][1]
      /\ FirstsDiffer'
      /\ ~partial => lines' = Append(lines, <<x>>)
  BY <1>0, <1>1, TextWritten
<1>3. LinesAreLines /\ PageIsStart /\ (~mixed => OneWrites)
  BY DEF LinesInv
<1>4. /\ partial \in BOOLEAN /\ mixed \in BOOLEAN /\ tried \subseteq Record /\ acked \subseteq tried
      /\ torn \in Nat /\ writing \in [Appender -> tried \cup {"none"}]
      /\ lines \in Seq(Seq(Record \cup {TornText})) /\ Len(lines) \in Nat /\ DOMAIN lines = 1 .. Len(lines)
  BY <1>3 DEF LinesAreLines
<1>5. LinesAreLines'
  <2>1. writing' \in [Appender -> tried' \cup {"none"}]
    BY <1>0, <1>1, <1>4
  <2>2. torn' \in Nat
    BY <1>1, <1>4
  <2>3. tried' \subseteq Record /\ acked' \subseteq tried'
    BY <1>0, <1>4
  <2>4. partial' \in BOOLEAN /\ mixed' \in BOOLEAN
    BY <1>0
  <2> QED BY <1>2, <2>1, <2>2, <2>3, <2>4 DEF LinesAreLines
<1>6. PageIsStart'
  <2>1. Len(lines') \in Nat
    BY <1>2
  <2> QED BY <1>0, <1>2, <1>3, <1>4, <2>1, PageStays
<1>7. ASSUME ~mixed' PROVE OneWrites'
  <2>1. ~mixed /\ ~partial /\ OneWrites
    BY <1>0, <1>3, <1>7, <1>4
  <2>2. \A b \in Appender : writing[b] = "none"
    BY <2>1 DEF OneWrites
  <2>3. lines' = Append(lines, <<x>>)
    BY <1>2, <2>1
  <2>4. /\ Len(lines') = Len(lines) + 1 /\ DOMAIN lines' = 1 .. Len(lines) + 1 /\ lines'[Len(lines')] = <<x>>
        /\ \A i \in DOMAIN lines : lines'[i] = lines[i]
    BY <1>4, <2>3
  <2>5. \A b \in Appender : writing'[b] # "none" => b = a /\ x = r /\ writing'[b] = r
    BY <1>1, <1>4, <2>2
  <2>6. acked' \subseteq Stored'
    BY <1>0, <1>3, <2>1, <2>3, RecordsStay DEF OneWrites
  <2>7. ASSUME torn' = 0, NEW i \in DOMAIN lines' PROVE Readable(lines'[i])
    <3>1. x = r /\ torn = 0 /\ r # TornText
      BY <1>1, <1>4, <2>7 DEF LogBounds
    <3>2. CASE i \in DOMAIN lines
      <4>1. Readable(lines[i]) /\ lines'[i] = lines[i]
        BY <2>1, <2>4, <3>1, <3>2 DEF OneWrites
      <4> QED BY <4>1
    <3>3. CASE i = Len(lines')
      <4>1. lines'[i] = <<r>>
        BY <2>4, <3>1, <3>3
      <4>2. Len(<<r>>) = 1 /\ <<r>>[1] = r
        OBVIOUS
      <4> QED BY <3>1, <4>1, <4>2 DEF Readable
    <3>4. i \in DOMAIN lines \/ i = Len(lines')
      BY <1>4, <2>4, <2>7
    <3> QED BY <3>2, <3>3, <3>4
  <2> QED BY <1>0, <2>4, <2>5, <2>6, <2>7 DEF OneWrites
<1> QED BY <1>2, <1>5, <1>6, <1>7 DEF LinesInv

LEMMA EndStep ==
    ASSUME LinesInv, LogBounds, NEW a \in Appender, AppendEnd(a)
    PROVE  LinesInv'
<1>1. /\ writing[a] # "none" /\ lines' = IF partial THEN lines ELSE Append(lines, <<>>)
      /\ partial' = FALSE /\ writing' = [writing EXCEPT ![a] = "none"]
      /\ acked' = acked \cup {writing[a]}
      /\ tried' = tried /\ page' = page /\ torn' = torn /\ mixed' = mixed
  BY DEF AppendEnd
<1>2. LinesAreLines /\ FirstsDiffer /\ PageIsStart /\ (~mixed => OneWrites)
  BY DEF LinesInv
<1>3. /\ partial \in BOOLEAN /\ mixed \in BOOLEAN /\ tried \subseteq Record /\ acked \subseteq tried
      /\ torn \in Nat /\ writing \in [Appender -> tried \cup {"none"}]
      /\ lines \in Seq(Seq(Record \cup {TornText})) /\ Len(lines) \in Nat /\ DOMAIN lines = 1 .. Len(lines)
  BY <1>2 DEF LinesAreLines
<1>4. /\ lines' \in Seq(Seq(Record \cup {TornText})) /\ Len(lines') \in Nat /\ Len(lines') >= Len(lines)
      /\ \A i \in DOMAIN lines : i \in DOMAIN lines' /\ lines'[i] = lines[i]
      /\ \A i \in DOMAIN lines' : lines'[i] # <<>> => i \in DOMAIN lines
  <2>1. CASE partial
    BY <1>1, <1>3, <2>1
  <2>2. CASE ~partial
    <3>1. lines' = Append(lines, <<>>) /\ <<>> \in Seq(Record \cup {TornText})
      BY <1>1, <2>2
    <3>2. /\ lines' \in Seq(Seq(Record \cup {TornText})) /\ Len(lines') = Len(lines) + 1
          /\ DOMAIN lines' = 1 .. Len(lines) + 1
          /\ lines'[Len(lines) + 1] = <<>> /\ \A i \in DOMAIN lines : lines'[i] = lines[i]
      BY <1>3, <3>1
    <3>3. \A i \in 1 .. Len(lines) + 1 : i \in 1 .. Len(lines) \/ i = Len(lines) + 1
      BY <1>3
    <3> QED BY <1>3, <3>2, <3>3
  <2> QED BY <2>1, <2>2
<1>5. LinesAreLines'
  <2>1. writing' \in [Appender -> tried' \cup {"none"}]
    BY <1>1, <1>3
  <2>2. acked' \subseteq tried'
    BY <1>1, <1>3
  <2> QED BY <1>1, <1>3, <1>4, <2>1, <2>2 DEF LinesAreLines
<1>6. FirstsDiffer'
  <2>1. \A i \in DOMAIN lines' : lines'[i] # <<>> => i \in DOMAIN lines /\ lines'[i] = lines[i]
    BY <1>4
  <2> QED BY <1>1, <1>2, <2>1 DEF FirstsDiffer
<1>7. PageIsStart'
  BY <1>1, <1>2, <1>3, <1>4, PageStays
<1>8. ASSUME ~mixed' PROVE OneWrites'
  <2>1. ~mixed /\ OneWrites
    BY <1>1, <1>2, <1>8
  <2>2. partial /\ lines[Len(lines)] = <<writing[a]>> /\ lines' = lines
    BY <1>1, <2>1 DEF OneWrites
  <2>3. \A b \in Appender : writing'[b] = "none"
    BY <1>1, <1>3, <2>1 DEF OneWrites
  <2>4. writing[a] \in Stored
    <3>1. writing[a] \in Record /\ writing[a] # TornText
      BY <1>1, <1>3 DEF LogBounds
    <3>2. Len(lines) \in DOMAIN lines
      BY <1>2, <1>3, <2>2 DEF LinesAreLines
    <3>3. Len(<<writing[a]>>) = 1 /\ <<writing[a]>>[1] = writing[a]
      OBVIOUS
    <3>4. Readable(lines[Len(lines)]) /\ lines[Len(lines)][1] = writing[a]
      BY <2>2, <3>1, <3>3 DEF Readable
    <3> QED BY <3>2, <3>4 DEF Stored
  <2>5. Stored' = Stored
    BY <2>2 DEF Stored, Readable
  <2>6. acked' \subseteq Stored'
    BY <1>1, <2>1, <2>4, <2>5 DEF OneWrites
  <2> QED BY <1>1, <2>1, <2>2, <2>3, <2>6 DEF OneWrites, Readable
<1> QED BY <1>5, <1>6, <1>7, <1>8 DEF LinesInv

LEMMA RestartLogStep ==
    ASSUME LinesInv, RestartLog
    PROVE  LinesInv'
<1>1. /\ writing' = [a \in Appender |-> "none"] /\ lines' = lines /\ partial' = partial /\ tried' = tried
      /\ acked' = acked /\ page' = page /\ torn' = torn /\ mixed' = mixed
  BY DEF RestartLog
<1>2. LinesAreLines'
  <2>1. writing' \in [Appender -> tried' \cup {"none"}]
    BY <1>1
  <2> QED BY <1>1, <2>1 DEF LinesInv, LinesAreLines
<1>3. FirstsDiffer' /\ PageIsStart'
  BY <1>1 DEF LinesInv, FirstsDiffer, PageIsStart
<1>4. ~mixed' => OneWrites'
  BY <1>1 DEF LinesInv, OneWrites, Stored, Readable
<1> QED BY <1>2, <1>3, <1>4 DEF LinesInv

\* A list gives the first texts of the lines from the cursor to one of those
\* behind it, all of which are readable.
LEMMA ListIs ==
    ASSUME NEW cursor1 \in Nat, NEW limit \in Nat, Len(lines) \in Nat, cursor1 <= Len(lines)
    PROVE  \E m \in cursor1 .. Len(lines) :
             /\ \A i \in cursor1 + 1 .. m : Readable(lines[i])
             /\ ListFrom(cursor1, limit) = [i \in 1 .. m - cursor1 |-> lines[cursor1 + i][1]]
<1> DEFINE n == IF cursor1 + limit < Len(lines) THEN cursor1 + limit ELSE Len(lines)
           upTo == {k \in cursor1 .. n : \A i \in cursor1 + 1 .. k : Readable(lines[i])}
           m == Max(upTo)
<1>1. n \in Nat /\ cursor1 <= n /\ n <= Len(lines)
  OBVIOUS
<1> HIDE DEF n
<1>2. cursor1 \in upTo
  BY <1>1
<1>3. \E k \in upTo : \A j \in upTo : k >= j
  <2>1. upTo \in SUBSET (0 .. n) /\ upTo # {}
    <3>1. \A k \in upTo : k \in 0 .. n
      BY <1>1
    <3> QED BY <1>2, <3>1
  <2> HIDE DEF upTo
  <2>2. PICK k \in upTo : \A j \in upTo : j <= k
    BY <1>1, <2>1, GreatestNumber
  <2>3. \A j \in upTo : j \in Nat /\ (j <= k => k >= j)
    BY <1>1, <2>1
  <2> QED BY <2>2, <2>3
<1>4. m \in upTo
  BY <1>3 DEF Max
<1>5. m \in cursor1 .. Len(lines) /\ \A i \in cursor1 + 1 .. m : Readable(lines[i])
  BY <1>1, <1>4
<1>6. ListFrom(cursor1, limit) = [i \in 1 .. m - cursor1 |-> lines[cursor1 + i][1]]
  BY DEF ListFrom, n
<1> HIDE DEF m
<1> QED BY <1>5, <1>6

LEMMA ListStep ==
    ASSUME LinesInv, LogBounds, NEW limit \in PageSizes, ListRecords(limit)
    PROVE  LinesInv'
<1> DEFINE c == page.cursor
           records == ListFrom(c, limit)
<1>1. /\ page' = [cursor |-> c + Len(records), seen |-> page.seen \o records]
      /\ lines' = lines /\ partial' = partial /\ writing' = writing /\ tried' = tried /\ acked' = acked
      /\ torn' = torn /\ mixed' = mixed
  BY DEF ListRecords
<1>2. LinesAreLines /\ PageIsStart
  BY DEF LinesInv
<1>3. /\ lines \in Seq(Seq(Record \cup {TornText})) /\ Len(lines) \in Nat /\ DOMAIN lines = 1 .. Len(lines)
      /\ c \in Nat /\ c <= Len(lines) /\ page.seen \in Seq(Record) /\ Len(page.seen) = c
      /\ DOMAIN page.seen = 1 .. c
      /\ \A i \in 1 .. c : lines[i] # <<>> /\ page.seen[i] = lines[i][1]
  <2>1. page.seen \in Seq(Record) /\ Len(page.seen) = c /\ DOMAIN page.seen = 1 .. c
    BY <1>2 DEF PageIsStart
  <2>2. lines \in Seq(Seq(Record \cup {TornText}))
    BY <1>2 DEF LinesAreLines
  <2>3. Len(lines) \in Nat /\ DOMAIN lines = 1 .. Len(lines)
    BY <2>2
  <2>4. c \in Nat /\ c <= Len(lines) /\ \A i \in DOMAIN page.seen : lines[i] # <<>> /\ page.seen[i] = lines[i][1]
    BY <1>2 DEF PageIsStart
  <2> QED BY <2>1, <2>2, <2>3, <2>4
<1>4. limit \in Nat
  BY DEF LogBounds
<1> HIDE DEF c
<1>5. PICK m \in c .. Len(lines) :
        /\ \A i \in c + 1 .. m : Readable(lines[i])
        /\ records = [i \in 1 .. m - c |-> lines[c + i][1]]
  BY <1>3, <1>4, ListIs
<1> HIDE DEF records
<1>6. ASSUME NEW i \in c + 1 .. m PROVE lines[i] # <<>> /\ lines[i][1] \in Record
  <2>1. i \in DOMAIN lines
    BY <1>3
  <2>2. lines[i] \in Seq(Record \cup {TornText}) /\ Len(lines[i]) = 1 /\ lines[i][1] # TornText
    BY <1>3, <1>5, <2>1, ElementOfSeq DEF Readable
  <2> QED BY <2>2
<1>7. m - c \in Nat /\ m \in Nat
  BY <1>3
<1>8. \A i \in 1 .. m - c : c + i \in c + 1 .. m
  BY <1>3, <1>7
<1>9. records \in Seq(Record) /\ Len(records) = m - c /\ \A i \in 1 .. m - c : records[i] = lines[c + i][1]
  <2>1. records \in [1 .. m - c -> Record]
    BY <1>5, <1>6, <1>8
  <2>2. records \in Seq(Record)
    BY <1>7, <2>1, SeqDef
  <2> QED BY <1>5, <1>7, <2>1, <2>2, LenProperties
<1>10. /\ page'.cursor = m /\ page'.seen \in Seq(Record) /\ Len(page'.seen) = m
       /\ (\A i \in 1 .. c : page'.seen[i] = page.seen[i])
       /\ \A i \in 1 .. m - c : page'.seen[c + i] = records[i]
  <2>1. page'.cursor = c + (m - c) /\ page'.seen = page.seen \o records
    BY <1>1, <1>9
  <2>2. c + (m - c) = m
    BY <1>3, <1>7
  <2>3. /\ page.seen \o records \in Seq(Record) /\ Len(page.seen \o records) = c + (m - c)
        /\ (\A i \in 1 .. c : (page.seen \o records)[i] = page.seen[i])
        /\ \A i \in 1 .. m - c : (page.seen \o records)[c + i] = records[i]
    <3> DEFINE s == page.seen
    <3>1. s \in Seq(Record) /\ records \in Seq(Record) /\ Len(s) = c /\ Len(records) = m - c /\ c \in Nat
          /\ m - c \in Nat
      BY <1>3, <1>7, <1>9
    <3> HIDE DEF s
    <3>2. /\ s \o records \in Seq(Record) /\ Len(s \o records) = c + (m - c)
          /\ (\A i \in 1 .. c : (s \o records)[i] = s[i])
      BY <3>1
    <3>3. ASSUME NEW i \in 1 .. m - c PROVE (s \o records)[c + i] = records[i]
      <4>1. i \in 1 .. Len(records)
        BY <3>1
      <4> QED BY <3>1, <4>1
    <3> QED BY <3>2, <3>3 DEF s
  <2> QED BY <2>1, <2>2, <2>3
<1>11. ASSUME NEW i \in 1 .. m PROVE lines[i] # <<>> /\ page'.seen[i] = lines[i][1]
  <2>1. CASE i \in 1 .. c
    BY <1>3, <1>10, <2>1
  <2>2. CASE i \in c + 1 .. m
    <3>1. i - c \in 1 .. m - c /\ c + (i - c) = i
      BY <1>3, <1>7, <2>2
    <3> QED BY <1>6, <1>9, <1>10, <2>2, <3>1
  <2>3. i \in 1 .. c \/ i \in c + 1 .. m
    BY <1>3, <1>7
  <2> QED BY <2>1, <2>2, <2>3
<1>12. PageIsStart'
  <2>1. DOMAIN page'.seen = 1 .. m /\ m <= Len(lines)
    BY <1>3, <1>10
  <2> QED BY <1>1, <1>7, <1>10, <1>11, <2>1 DEF PageIsStart
<1>13. LinesAreLines' /\ FirstsDiffer' /\ (~mixed' => OneWrites')
  BY <1>1 DEF LinesInv, LinesAreLines, FirstsDiffer, OneWrites, Stored, Readable
<1> QED BY <1>12, <1>13 DEF LinesInv

LEMMA LogStep ==
    ASSUME LinesInv, LogBounds, [LogNext]_logVars
    PROVE  LinesInv'
<1>1. CASE UNCHANGED logVars
  BY <1>1 DEF LinesInv, LinesAreLines, FirstsDiffer, PageIsStart, OneWrites, Stored, Readable, logVars
<1> QED BY <1>1, TextStep, EndStep, RestartLogStep, ListStep DEF LogNext

LEMMA LogHolds == LinesInv /\ LogBounds => LogReadsBack
<1> SUFFICES ASSUME LinesInv, LogBounds PROVE LogReadsBack
  OBVIOUS
<1>1. LinesAreLines /\ FirstsDiffer /\ PageIsStart /\ (~mixed => OneWrites)
  BY DEF LinesInv
<1>2. /\ page.seen \in Seq(Record) /\ Len(page.seen) = page.cursor /\ page.cursor <= Len(lines) /\ page.cursor \in Nat
      /\ \A i \in DOMAIN page.seen : lines[i] # <<>> /\ page.seen[i] = lines[i][1]
  BY <1>1 DEF PageIsStart
<1>3. \A i \in DOMAIN page.seen : i \in DOMAIN lines /\ page.seen[i] # TornText
  <2>1. lines \in Seq(Seq(Record \cup {TornText}))
    BY <1>1 DEF LinesAreLines
  <2>2. DOMAIN page.seen = 1 .. page.cursor /\ DOMAIN lines = 1 .. Len(lines) /\ Len(lines) \in Nat
    BY <1>2, <2>1
  <2>3. \A i \in DOMAIN page.seen : page.seen[i] \in Record
    BY <1>2, ElementOfSeq
  <2> QED BY <1>2, <2>2, <2>3 DEF LogBounds
<1>4. \A i, j \in DOMAIN page.seen : page.seen[i] = page.seen[j] => i = j
  BY <1>1, <1>2, <1>3 DEF FirstsDiffer
<1> QED BY <1>1, <1>2, <1>4 DEF LogReadsBack, OneWrites

-----------------------------------------------------------------------------
\* The writes that fail and the restarts of a log are bounded.
LogLimits == torn \in 0 .. MaxTorn /\ restarts \in 0 .. MaxRestart

LEMMA LimitsHold == ASSUME LogBounds, LogLimits, [LogNext]_logVars PROVE LogLimits'
<1> USE DEF LogLimits, LogBounds
<1>1. ASSUME NEW a \in Appender, NEW r \in Record, AppendText(a, r) \/ AppendFails(a, r)
      PROVE  LogLimits'
  BY <1>1 DEF AppendText, AppendFails
<1>2. ASSUME NEW a \in Appender, AppendEnd(a) PROVE LogLimits'
  BY <1>2 DEF AppendEnd
<1>3. CASE RestartLog
  BY <1>3 DEF RestartLog
<1>4. ASSUME NEW limit \in PageSizes, ListRecords(limit) PROVE LogLimits'
  BY <1>4 DEF ListRecords
<1>5. CASE UNCHANGED logVars
  BY <1>5 DEF logVars
<1> QED BY <1>1, <1>2, <1>3, <1>4, <1>5 DEF LogNext

LEMMA LogTyped == LinesInv /\ LogLimits => LogTypeOK
<1> SUFFICES ASSUME LinesInv, LogLimits PROVE LogTypeOK
  OBVIOUS
<1>1. writing \in [Appender -> Record \cup {"none"}]
  BY DEF LinesInv, LinesAreLines
<1> QED BY <1>1 DEF LogTypeOK, LogLimits, LinesInv, LinesAreLines, PageIsStart

-----------------------------------------------------------------------------
(* PatchTool                                                               *)

\* The files of an order that come before its n-th, and the others.
Before(order, n) == {order[i] : i \in 1 .. (n - 1)}
After(order, n) == {order[i] : i \in n .. Len(order)}
IsOrder(order, S) ==
    /\ Len(order) \in Nat /\ order \in [1 .. Len(order) -> S]
    /\ \A i, j \in 1 .. Len(order) : order[i] = order[j] => i = j
    /\ \A p \in S : \E i \in 1 .. Len(order) : order[i] = p

\* Every file has its turn.
LEMMA OrderIs ==
    ASSUME NEW S, IsFiniteSet(S), NEW order \in SetToSeqs(S)
    PROVE  IsOrder(order, S) /\ (S # {} => Len(order) # 0)
<1> DEFINE n == Cardinality(S)
<1>1. n \in Nat /\ order \in [1 .. n -> S] /\ \A i, j \in 1 .. n : i # j => order[i] # order[j]
  BY FS_CardinalityType DEF SetToSeqs
<1> HIDE DEF n
<1>2. Len(order) = n
  BY <1>1
<1>3. ASSUME NEW p \in S, \A i \in 1 .. n : order[i] # p PROVE FALSE
  <2>1. order \in [1 .. n -> S \ {p}]
    BY <1>1, <1>3
  <2>2. IsFiniteSet(S \ {p}) /\ Cardinality(S \ {p}) = n - 1
    BY FS_RemoveElement DEF n
  <2>3. IsFiniteSet(1 .. n) /\ Cardinality(1 .. n) = n
    BY <1>1, FS_Interval
  <2>4. \E i, j \in 1 .. n : i # j /\ order[i] = order[j]
    BY <1>1, <2>1, <2>2, <2>3, FS_PigeonHole
  <2> QED BY <1>1, <2>4
<1>4. S # {} => n # 0
  BY <1>3, <1>1
<1> QED BY <1>1, <1>2, <1>3, <1>4 DEF IsOrder

LEMMA TurnsOf ==
    ASSUME NEW S, NEW order, IsOrder(order, S), NEW n \in 1 .. Len(order)
    PROVE  /\ order[n] \in S /\ order[n] \notin Before(order, n) /\ order[n] \in After(order, n)
           /\ Before(order, n + 1) = Before(order, n) \cup {order[n]}
           /\ After(order, n + 1) = After(order, n) \ {order[n]}
           /\ n = Len(order) => After(order, n) = {order[n]} /\ Before(order, n + 1) = S
           /\ Before(order, n) \subseteq S /\ After(order, n) = S \ Before(order, n)
           /\ Before(order, 1) = {} /\ After(order, 1) = S
<1>1. Len(order) \in Nat /\ n \in Nat /\ n <= Len(order) /\ 1 <= n
  BY DEF IsOrder
<1>2. \A i \in 1 .. Len(order) : order[i] \in S
  BY DEF IsOrder
<1>3. \A i, j \in 1 .. Len(order) : order[i] = order[j] => i = j
  BY DEF IsOrder
<1>4. \A p \in S : \E i \in 1 .. Len(order) : order[i] = p
  BY DEF IsOrder
<1>5. order[n] \in S /\ order[n] \notin Before(order, n) /\ order[n] \in After(order, n)
  BY <1>1, <1>2, <1>3 DEF Before, After
<1>6. Before(order, n + 1) = Before(order, n) \cup {order[n]}
  BY <1>1 DEF Before
<1>7. After(order, n) = {order[n]} \cup After(order, n + 1)
  BY <1>1 DEF After
<1>8. order[n] \notin After(order, n + 1)
  BY <1>1, <1>3 DEF After
<1>9. n = Len(order) => After(order, n + 1) = {}
  BY <1>1 DEF After
<1>10. Before(order, n) \subseteq S
  BY <1>1, <1>2 DEF Before
<1>11. After(order, n) = S \ Before(order, n)
  <2>1. ASSUME NEW p \in S, p \notin Before(order, n) PROVE p \in After(order, n)
    <3>1. PICK i \in 1 .. Len(order) : order[i] = p
      BY <1>4
    <3>2. ~(i <= n - 1)
      BY <2>1, <3>1, <1>1 DEF Before
    <3> QED BY <1>1, <3>1, <3>2 DEF After
  <2>2. ASSUME NEW p \in After(order, n) PROVE p \in S /\ p \notin Before(order, n)
    <3>1. PICK i \in n .. Len(order) : order[i] = p
      BY DEF After
    <3>2. i \in 1 .. Len(order)
      BY <1>1
    <3>3. \A j \in 1 .. (n - 1) : j \in 1 .. Len(order) /\ j # i
      BY <1>1
    <3> QED BY <1>2, <1>3, <3>1, <3>2, <3>3 DEF Before
  <2> QED BY <2>1, <2>2
<1>12. Before(order, 1) = {}
  BY DEF Before
<1>13. After(order, 1) = S
  BY <1>2, <1>4 DEF After
<1> QED BY <1>5, <1>6, <1>7, <1>8, <1>9, <1>10, <1>11, <1>12, <1>13
\* A call has every field, and the files are those of the workspace.
CallShape ==
    /\ patch = [pc |-> patch.pc, sections |-> patch.sections, dry |-> patch.dry,
                at |-> patch.at, staged |-> patch.staged, order |-> patch.order,
                backup |-> patch.backup, outcome |-> patch.outcome]
    /\ disk = [p \in Path |-> disk[p]]
    /\ start = [p \in Path |-> start[p]]

\* Only others have written files that are not of S.
SameBut(S) == \A p \in Path \ others : p \notin S => disk[p] = start[p]

CopiesAreTrue ==
    ~spoiled => \A p \in DOMAIN patch.backup \ others : patch.backup[p] = start[p]

\* While the sections are applied: what is staged is what the last section of a
\* file makes of it.
StagePhase ==
    /\ patch.outcome = "none" /\ temps = {} /\ patch.backup = <<>> /\ SameBut({})
    /\ patch.sections \in Patches /\ patch.sections # <<>>
    /\ patch.at \in 1 .. Len(patch.sections) + 1
    /\ IsFiniteSet(DOMAIN patch.staged)
    /\ DOMAIN patch.staged = {patch.sections[i].path : i \in 1 .. patch.at - 1}
    /\ \A p \in DOMAIN patch.staged :
         /\ patch.staged[p] # Mismatch
         /\ p \notin others =>
              patch.staged[p] = Updated(patch.sections[Max({i \in 1 .. patch.at - 1 :
                                                   patch.sections[i].path = p})], start[p])

\* When all are: what is staged is what the patch asks for, and the order of the
\* two passes hits every file once.
AllStaged ==
    /\ patch.outcome = "none"
    /\ DOMAIN patch.staged \subseteq Path
    /\ \A p \in Path \ others :
         Wanted(p) = IF p \in DOMAIN patch.staged THEN patch.staged[p] ELSE start[p]
    /\ \A p \in DOMAIN patch.staged \ others : patch.staged[p] = NoFile => start[p] # NoFile
    /\ \A o, S : o = patch.order /\ S = DOMAIN patch.staged => IsOrder(o, S)
    /\ patch.at \in 1 .. Len(patch.order)
    /\ CopiesAreTrue

CopyPhase ==
    /\ AllStaged /\ SameBut({})
    /\ \A o, n : o = patch.order /\ n = patch.at =>
         /\ temps = {p \in Before(o, n) : patch.staged[p] # NoFile}
         /\ DOMAIN patch.backup = Before(o, n)

WritePhase ==
    /\ AllStaged
    /\ DOMAIN patch.backup = DOMAIN patch.staged
    /\ \A o, n : o = patch.order /\ n = patch.at =>
         /\ temps = {p \in After(o, n) : patch.staged[p] # NoFile}
         /\ \A p \in Before(o, n) \ others : disk[p] = patch.staged[p]
         /\ \A p \in Path \ others :
              \/ p \in Before(o, n) \/ disk[p] = start[p]
              \/ patch.pc = "replace" /\ p = o[n] /\ disk[p] = NoFile
    /\ patch.pc = "replace" => Content # NoFile

UndoPhase ==
    /\ patch.outcome = "none" /\ temps = {} /\ CopiesAreTrue
    /\ SameBut(DOMAIN patch.backup)

PatchInv ==
    /\ CallShape
    /\ patch.pc = "idle" => patch = NoPatch /\ temps = {} /\ others = {} /\ disk = start
    /\ patch.pc = "stage" => StagePhase
    /\ patch.pc = "copy" => CopyPhase
    /\ patch.pc \in {"write", "replace"} => WritePhase
    /\ patch.pc = "undo" => UndoPhase
    /\ patch.pc = "done" => PatchIsWhole
    /\ patch.pc \in {"idle", "stage", "copy", "write", "replace", "undo", "done"}

LEMMA LastIsMax ==
    ASSUME NEW n \in Nat, NEW S \in SUBSET (1 .. n), n \in S
    PROVE  Max(S) = n
<1>1. \A y \in S : n >= y
  OBVIOUS
<1>2. Max(S) \in S /\ \A y \in S : Max(S) >= y
  BY <1>1 DEF Max
<1>3. Max(S) \in 1 .. n /\ Max(S) >= n
  BY <1>2
<1> HIDE <1>2
<1> QED BY <1>3

LEMMA FirstPatchInv ==
    ASSUME PatchInit
    PROVE  PatchInv
<1>1. CallShape
  BY DEF PatchInit, NoPatch, CallShape
<1> QED BY <1>1 DEF PatchInit, NoPatch, PatchInv

LEMMA PatchBegins ==
    ASSUME PatchInv, NEW sections \in Patches, NEW dry, NEW confirm,
           PatchBounds, BeginPatch(sections, dry, confirm)
    PROVE  PatchInv'
<1>1. patch = NoPatch /\ temps' = {} /\ others' = {} /\ disk' = disk /\ start' = disk
      /\ CallShape
  BY DEF PatchInv, BeginPatch
<1>2. CASE Refused(sections, confirm)
  <2>1. patch' = [NoPatch EXCEPT !.pc = "done", !.sections = sections, !.outcome = "error"]
    BY <1>2 DEF BeginPatch
  <2>2. patch'.pc = "done" /\ patch'.outcome = "error" /\ CallShape'
    BY <2>1, <1>1 DEF NoPatch, CallShape
  <2>3. PatchIsWhole'
    BY <1>1, <2>2 DEF PatchIsWhole
  <2> QED BY <2>2, <2>3 DEF PatchInv
<1>3. CASE ~Refused(sections, confirm)
  <2>1. patch' = [NoPatch EXCEPT !.pc = "stage", !.sections = sections, !.dry = dry]
    BY <1>3 DEF BeginPatch
  <2>2. patch'.pc = "stage" /\ patch'.outcome = "none" /\ CallShape'
    BY <2>1, <1>1 DEF NoPatch, CallShape
  <2>3. patch'.sections = sections /\ patch'.at = 1 /\ patch'.staged = <<>> /\ patch'.backup = <<>>
    BY <2>1 DEF NoPatch
  <2>4. sections # <<>>
    BY <1>3 DEF Refused
  <2>5. Len(sections) \in Nat
    BY DEF PatchBounds
  <2>6. DOMAIN patch'.staged = {}
    BY <2>3
  <2>7. IsFiniteSet({})
    BY FS_EmptySet
  <2>8. StagePhase'
    BY <1>1, <2>2, <2>3, <2>4, <2>5, <2>6, <2>7 DEF StagePhase, SameBut
  <2> QED BY <2>2, <2>8 DEF PatchInv
<1> QED BY <1>2, <1>3

\* A section of a patch names a file of the workspace.
LEMMA SectionsNamePaths ==
    ASSUME PatchBounds, NEW s \in Patches, NEW i \in 1 .. Len(s)
    PROVE  s[i].path \in Path /\ s[i].kind \in {"add", "update", "delete"}
           /\ (s[i].kind = "add" => ApplyHunks(<<>>, s[i].hunks) # NoFile) /\ DOMAIN s = 1 .. Len(s)
<1> DEFINE R == [path : Path, kind : {"add", "update", "delete"},
                 hunks : Seq([old : Seq(Line), new : Seq(Line)])]
<1>1. s \in Seq(R)
  BY DEF PatchBounds
<1> HIDE DEF R
<1>2. s[i] \in R
  BY <1>1, ElementOfSeq
<1>3. s[i].path \in Path /\ s[i].kind \in {"add", "update", "delete"}
  BY <1>2 DEF R
<1>4. DOMAIN s = 1 .. Len(s)
  BY <1>1
<1> QED BY <1>3, <1>4 DEF PatchBounds

\* What is deleted was there: an added file has a content, and nothing is staged
\* for a file that is not there.
LEMMA DeletedWasThere ==
    ASSUME PatchBounds, NEW s \in Patches, NEW i \in 1 .. Len(s), NEW content,
           Updated(s[i], content) = NoFile, Updated(s[i], content) # Mismatch
    PROVE  content # NoFile
<1>1. s[i].kind = "add" => ApplyHunks(<<>>, s[i].hunks) # NoFile
  BY SectionsNamePaths
<1>2. CASE s[i].kind = "add"
  BY <1>1, <1>2 DEF Updated
<1>3. CASE s[i].kind # "add"
  BY <1>3 DEF Updated
<1> QED BY <1>2, <1>3

LEMMA PatchStages ==
    ASSUME PatchInv, PatchBounds, StageSection
    PROVE  PatchInv'
<1> DEFINE path == patch.sections[patch.at].path
           result == Updated(patch.sections[patch.at], disk[path])
           n == patch.at
           sections == patch.sections
<1>1. CallShape /\ StagePhase /\ patch.pc = "stage" /\ n <= Len(sections)
  BY DEF PatchInv, StageSection
<1>2. temps' = {} /\ disk' = disk /\ start' = start /\ others' = others /\ spoiled' = spoiled
  BY <1>1 DEF StageSection, StagePhase
<1>3. Len(sections) \in Nat /\ n \in 1 .. Len(sections) /\ n \in Nat
  BY <1>1 DEF StagePhase, PatchBounds
<1>4. path \in Path
  BY <1>1, <1>3, SectionsNamePaths DEF StagePhase
<1>5. CASE result = Mismatch
  <2>1. patch' = [patch EXCEPT !.pc = "done", !.outcome = "error"]
    BY <1>5 DEF StageSection, Ended
  <2>2. patch'.pc = "done" /\ patch'.outcome = "error" /\ CallShape'
    BY <2>1, <1>1, <1>2 DEF CallShape
  <2>3. PatchIsWhole'
    BY <1>1, <1>2, <2>2 DEF PatchIsWhole, StagePhase, SameBut, CallShape
  <2> QED BY <2>2, <2>3 DEF PatchInv
<1>6. CASE result # Mismatch
  <2>1. patch' = [patch EXCEPT !.at = n + 1, !.staged = With(patch.staged, path, result)]
    BY <1>6 DEF StageSection
  <2>2. patch'.pc = "stage" /\ patch'.outcome = "none" /\ CallShape'
    BY <2>1, <1>1, <1>2 DEF CallShape, StagePhase
  <2>3. /\ patch'.sections = sections /\ patch'.at = n + 1 /\ patch'.backup = <<>>
        /\ patch'.staged = With(patch.staged, path, result)
    BY <2>1, <1>1 DEF CallShape, StagePhase
  <2>4. /\ DOMAIN patch'.staged = DOMAIN patch.staged \cup {path}
        /\ patch'.staged[path] = result
        /\ \A p \in DOMAIN patch.staged : p # path => patch'.staged[p] = patch.staged[p]
    BY <2>3 DEF With
  <2>5. IsFiniteSet(DOMAIN patch'.staged)
    BY <1>1, <2>4, FS_AddElement DEF StagePhase
  <2>6. 1 .. (n + 1) - 1 = (1 .. n - 1) \cup {n}
    BY <1>3
  <2>7. DOMAIN patch'.staged = {sections[i].path : i \in 1 .. (n + 1) - 1}
    BY <1>1, <2>4, <2>6 DEF StagePhase
  <2>8. ASSUME NEW p \in DOMAIN patch'.staged
        PROVE  /\ patch'.staged[p] # Mismatch
               /\ p \notin others =>
                   patch'.staged[p] = Updated(sections[Max({i \in 1 .. (n + 1) - 1 :
                                                   sections[i].path = p})], start[p])
    <3> DEFINE S == {i \in 1 .. (n + 1) - 1 : sections[i].path = p}
    <3>1. CASE p = path
      <4>1. S \in SUBSET (1 .. n) /\ n \in S
        BY <3>1, <1>3
      <4>2. Max(S) = n
        BY <4>1, <1>3, LastIsMax
      <4>3. p \notin others => disk[p] = start[p]
        BY <3>1, <1>1, <1>4 DEF StagePhase, SameBut
      <4> HIDE DEF S
      <4>4. p \notin others => Updated(sections[Max(S)], start[p]) = result
        BY <4>2, <4>3, <3>1
      <4> QED BY <4>4, <3>1, <2>4, <1>6 DEF S
    <3>2. CASE p # path
      <4>1. S = {i \in 1 .. n - 1 : sections[i].path = p}
        BY <3>2, <2>6
      <4>2. p \in DOMAIN patch.staged /\ patch'.staged[p] = patch.staged[p]
        BY <3>2, <2>4, <2>8
      <4> HIDE DEF S
      <4>3. p \notin others => patch.staged[p] = Updated(sections[Max(S)], start[p])
        BY <4>1, <4>2, <1>1 DEF StagePhase
      <4>4. patch.staged[p] # Mismatch
        BY <4>2, <1>1 DEF StagePhase
      <4> QED BY <4>2, <4>3, <4>4 DEF S
    <3> QED BY <3>1, <3>2
  <2>9. patch'.at \in 1 .. Len(patch'.sections) + 1
    BY <2>3, <1>3
  <2>10. SameBut({})'
    BY <1>1, <1>2 DEF StagePhase, SameBut
  <2>11. patch'.sections \in Patches /\ patch'.sections # <<>>
    BY <1>1, <2>3 DEF StagePhase
  <2> HIDE DEF path, result
  <2>12. StagePhase'
    BY <1>2, <2>2, <2>3, <2>5, <2>7, <2>8, <2>9, <2>10, <2>11 DEF StagePhase
  <2> QED BY <2>2, <2>12 DEF PatchInv
<1> QED BY <1>5, <1>6

LEMMA PatchIsStaged ==
    ASSUME PatchInv, PatchBounds, EndStaging
    PROVE  PatchInv'
<1> DEFINE sections == patch.sections
           N == Len(patch.sections)
           S == DOMAIN patch.staged
           Mine(p) == {i \in DOMAIN patch.sections : patch.sections[i].path = p}
<1>1. CallShape /\ StagePhase /\ patch.pc = "stage" /\ patch.at > N
  BY DEF PatchInv, EndStaging
<1>2. temps' = {} /\ disk' = disk /\ start' = start /\ others' = others /\ spoiled' = spoiled
  BY <1>1 DEF EndStaging, StagePhase
<1>3. N \in Nat /\ patch.at = N + 1 /\ N # 0 /\ DOMAIN sections = 1 .. N
  <2>1. N \in Nat /\ DOMAIN sections = 1 .. N /\ (N = 0 => sections = <<>>)
    BY <1>1 DEF StagePhase, PatchBounds
  <2> QED BY <2>1, <1>1 DEF StagePhase
<1>4. S = {sections[i].path : i \in 1 .. N} /\ S \subseteq Path /\ IsFiniteSet(S) /\ S # {}
  <2>1. \A i \in 1 .. N : sections[i].path \in Path
    BY <1>1, SectionsNamePaths DEF StagePhase
  <2>2. S = {sections[i].path : i \in 1 .. N} /\ IsFiniteSet(S)
    BY <1>1, <1>3 DEF StagePhase
  <2>3. sections[1].path \in S
    BY <1>3, <2>2
  <2> QED BY <2>1, <2>2, <2>3
<1>5. \A p \in Path : Mine(p) = {} <=> p \notin S
  BY <1>3, <1>4
<1>6. \A p \in Path : Mine(p) = {i \in 1 .. patch.at - 1 : sections[i].path = p}
  BY <1>3
<1>7. \A p \in S \ others : patch.staged[p] = Updated(sections[Max(Mine(p))], start[p])
  <2> TAKE p \in S \ others
  <2> DEFINE M == {i \in 1 .. patch.at - 1 : sections[i].path = p}
  <2>1. patch.staged[p] = Updated(sections[Max(M)], start[p])
    BY <1>1 DEF StagePhase
  <2>2. Mine(p) = M
    BY <1>4, <1>6
  <2> HIDE DEF M
  <2> QED BY <2>1, <2>2
<1>8. CASE patch.dry
  <2>1. patch' = [patch EXCEPT !.pc = "done", !.outcome = "ok"]
    BY <1>8 DEF EndStaging, Ended
  <2>2. patch'.pc = "done" /\ patch'.outcome = "ok" /\ CallShape' /\ patch'.dry = patch.dry
        /\ patch'.sections = sections
    BY <2>1, <1>1, <1>2 DEF CallShape
  <2>3. \A p \in Path : Wanted(p)' = start[p]
    BY <1>2, <1>8, <2>2 DEF Wanted
  <2>4. \A p \in Path \ others : disk[p] = start[p]
    BY <1>1 DEF StagePhase, SameBut
  <2>5. PatchIsWhole'
    BY <1>2, <2>2, <2>3, <2>4 DEF PatchIsWhole
  <2> QED BY <2>2, <2>5 DEF PatchInv
<1>9. CASE ~patch.dry
  <2>1. PICK order \in SetToSeqs(S) :
          patch' = [patch EXCEPT !.pc = "copy", !.at = 1, !.order = order]
    BY <1>9 DEF EndStaging
  <2>2. /\ patch'.pc = "copy" /\ patch'.outcome = "none" /\ CallShape' /\ patch'.dry = patch.dry
        /\ patch'.sections = sections /\ patch'.staged = patch.staged /\ patch'.at = 1
        /\ patch'.order = order /\ patch'.backup = <<>>
    BY <2>1, <1>1, <1>2 DEF CallShape, StagePhase
  <2>3. IsOrder(order, S) /\ Len(order) # 0
    BY <1>4, <2>1, OrderIs
  <2>4. 1 \in 1 .. Len(order)
    BY <2>3 DEF IsOrder
  <2>5. \A p \in Path : Wanted(p)' = IF Mine(p) = {} THEN start[p]
                                       ELSE Updated(sections[Max(Mine(p))], start[p])
    BY <1>2, <1>9, <2>2 DEF Wanted
  <2>6. \A p \in Path \ others :
          Wanted(p)' = IF p \in S THEN patch.staged[p] ELSE start[p]
    BY <1>5, <1>7, <2>5
  <2>7. ASSUME NEW p \in S \ others, patch.staged[p] = NoFile PROVE start[p] # NoFile
    <3> DEFINE M == {i \in 1 .. patch.at - 1 : sections[i].path = p}
    <3>1. patch.staged[p] = Updated(sections[Max(M)], start[p]) /\ patch.staged[p] # Mismatch
      BY <1>1 DEF StagePhase
    <3>2. M # {} /\ M \in SUBSET (0 .. N) /\ M \subseteq 1 .. N
      BY <1>3, <1>4
    <3>3. Max(M) \in 1 .. N
      <4> HIDE DEF M
      <4>1. PICK m \in M : \A i \in M : i <= m
        BY <1>3, <3>2, GreatestNumber
      <4>2. \A i \in M : m >= i
        BY <1>3, <3>2, <4>1
      <4>3. Max(M) \in M
        BY <4>2 DEF Max
      <4> QED BY <4>3, <3>2
    <3> HIDE DEF M
    <3> DEFINE k == Max(M)
    <3> HIDE DEF k
    <3>4. k \in 1 .. Len(sections) /\ patch.staged[p] = Updated(sections[k], start[p])
      BY <3>1, <3>3 DEF k
    <3> QED BY <3>1, <3>4, <2>7, <1>1, DeletedWasThere DEF StagePhase
  <2>8. CopiesAreTrue'
    BY <2>2 DEF CopiesAreTrue
  <2> HIDE DEF S, sections
  <2>9. AllStaged'
    <3>1. DOMAIN patch'.staged = S
      BY <2>2 DEF S
    <3> QED BY <1>2, <1>4, <2>2, <2>3, <2>4, <2>6, <2>7, <2>8, <3>1 DEF AllStaged
  <2>10. SameBut({})'
    BY <1>1, <1>2 DEF StagePhase, SameBut
  <2>11. Before(order, 1) = {}
    BY DEF Before
  <2>12. DOMAIN patch'.backup = {}
    BY <2>2
  <2>13. CopyPhase'
    BY <1>2, <2>2, <2>9, <2>10, <2>11, <2>12 DEF CopyPhase
  <2> QED BY <2>2, <2>13 DEF PatchInv
<1> QED BY <1>8, <1>9

\* In the two passes a call's sections, its plan and the files it began with do
\* not change.
LEMMA PlanStays ==
    ASSUME AllStaged, patch'.sections = patch.sections, patch'.dry = patch.dry,
           patch'.staged = patch.staged, patch'.order = patch.order, patch'.outcome = patch.outcome,
           patch'.at \in 1 .. Len(patch.order), start' = start, others' = others, CopiesAreTrue'
    PROVE  AllStaged'
<1>1. \A p : Wanted(p)' = Wanted(p)
  BY DEF Wanted
<1> QED BY <1>1 DEF AllStaged

LEMMA CopyMade ==
    ASSUME PatchInv, patch.pc = "copy", NEW content, NEW c,
           c = CopyOf(content),
           temps' = IF Content = NoFile THEN temps ELSE temps \cup {Target},
           disk' = disk, start' = start, others' = others, spoiled => spoiled',
           ~spoiled' => content = disk[Target],
           patch' = Advance([c EXCEPT !.pc = "write", !.at = 1], c)
    PROVE  PatchInv'
<1> DEFINE n == patch.at
           order == patch.order
           S == DOMAIN patch.staged
<1>1. CallShape /\ CopyPhase /\ AllStaged /\ IsOrder(order, S) /\ n \in 1 .. Len(order)
      /\ SameBut({}) /\ CopiesAreTrue
  <2>1. CallShape /\ CopyPhase /\ AllStaged /\ n \in 1 .. Len(order) /\ SameBut({}) /\ CopiesAreTrue
    BY DEF PatchInv, CopyPhase, AllStaged
  <2> QED BY <2>1 DEF AllStaged
<1>2. temps = {p \in Before(order, n) : patch.staged[p] # NoFile} /\ DOMAIN patch.backup = Before(order, n)
  BY <1>1 DEF CopyPhase
<1>3. order[n] \in S /\ order[n] \in Path /\ Target = order[n] /\ Content = patch.staged[order[n]]
  BY <1>1, TurnsOf DEF Target, Content, AllStaged
<1>4. Before(order, n + 1) = Before(order, n) \cup {order[n]}
  BY <1>1, TurnsOf
<1>5. temps' = {p \in Before(order, n + 1) : patch.staged[p] # NoFile}
  BY <1>2, <1>3, <1>4
<1>6. /\ c.pc = "copy" /\ c.sections = patch.sections /\ c.dry = patch.dry
      /\ c.at = n /\ c.staged = patch.staged /\ c.order = order
      /\ c.outcome = patch.outcome
      /\ c.backup = With(patch.backup, order[n], content)
      /\ c = [pc |-> c.pc, sections |-> c.sections, dry |-> c.dry, at |-> c.at,
                 staged |-> c.staged, order |-> c.order, backup |-> c.backup,
                 outcome |-> c.outcome]
  BY <1>1, <1>3 DEF CopyOf, CallShape
<1>7. /\ DOMAIN c.backup = Before(order, n + 1)
      /\ c.backup[order[n]] = content
      /\ \A p \in Before(order, n) : p # order[n] => c.backup[p] = patch.backup[p]
  BY <1>2, <1>4, <1>6 DEF With
<1>8. ~spoiled' => \A p \in DOMAIN c.backup \ others : c.backup[p] = start[p]
  BY <1>1, <1>2, <1>3, <1>4, <1>7 DEF CopiesAreTrue, SameBut
<1>9. SameBut({})'
  BY <1>1 DEF SameBut
<1>10. Len(order) \in Nat
  BY <1>1 DEF IsOrder
<1>11. CASE n < Len(order)
  <2>1. patch' = [c EXCEPT !.at = n + 1]
    BY <1>6, <1>11 DEF Advance
  <2>2. CallShape' /\ patch'.pc = "copy" /\ patch'.at = n + 1 /\ patch'.backup = c.backup
        /\ patch'.sections = patch.sections /\ patch'.dry = patch.dry /\ patch'.staged = patch.staged
        /\ patch'.order = order /\ patch'.outcome = patch.outcome
    BY <1>1, <1>6, <2>1 DEF CallShape
  <2>3. n + 1 \in 1 .. Len(order)
    BY <1>1, <1>10, <1>11
  <2>4. CopiesAreTrue'
    BY <1>8, <2>2 DEF CopiesAreTrue
  <2>5. AllStaged'
    BY <1>1, <2>2, <2>3, <2>4, PlanStays
  <2>6. CopyPhase'
    BY <1>5, <1>7, <1>9, <2>2, <2>5 DEF CopyPhase
  <2> QED BY <2>2, <2>6 DEF PatchInv
<1>12. CASE ~(n < Len(order))
  <2>1. patch' = [c EXCEPT !.pc = "write", !.at = 1]
    BY <1>6, <1>12 DEF Advance
  <2>2. CallShape' /\ patch'.pc = "write" /\ patch'.at = 1 /\ patch'.backup = c.backup
        /\ patch'.sections = patch.sections /\ patch'.dry = patch.dry /\ patch'.staged = patch.staged
        /\ patch'.order = order /\ patch'.outcome = patch.outcome
    BY <1>1, <1>6, <2>1 DEF CallShape
  <2>3. n = Len(order) /\ 1 \in 1 .. Len(order)
    BY <1>1, <1>10, <1>12
  <2>4. CopiesAreTrue'
    BY <1>8, <2>2 DEF CopiesAreTrue
  <2>5. AllStaged'
    BY <1>1, <2>2, <2>3, <2>4, PlanStays
  <2>6. Before(order, n + 1) = S
    BY <1>1, <2>3, TurnsOf
  <2>7. Before(order, 1) = {} /\ After(order, 1) = S
    BY <1>1, <2>3, TurnsOf
  <2>8. DOMAIN patch'.backup = DOMAIN patch'.staged
    BY <1>7, <2>2, <2>6
  <2>9. \A p \in Path \ others : disk[p] = start[p]
    BY <1>1 DEF SameBut
  <2>10. WritePhase'
    BY <1>5, <2>2, <2>5, <2>6, <2>7, <2>8, <2>9 DEF WritePhase
  <2> QED BY <2>2, <2>10 DEF PatchInv
<1> QED BY <1>11, <1>12

LEMMA PatchCopies ==
    ASSUME PatchInv, CopyFile
    PROVE  PatchInv'
<1>1. /\ patch.pc = "copy"
      /\ temps' = IF Content = NoFile THEN temps ELSE temps \cup {Target}
      /\ disk' = disk /\ start' = start /\ others' = others
  BY DEF CopyFile
<1>2. CASE UNCHANGED <<faults, spoiled>>
           /\ LET c == CopyOf(disk[Target])
              IN  patch' = Advance([c EXCEPT !.pc = "write", !.at = 1], c)
  <2> DEFINE d == CopyOf(disk[Target])
  <2>1. patch' = Advance([d EXCEPT !.pc = "write", !.at = 1], d)
    BY <1>2
  <2> QED BY <1>1, <1>2, <2>1, CopyMade
<1>3. CASE spoiled' = TRUE
           /\ LET c == CopyOf(<<>>)
              IN  patch' = Advance([c EXCEPT !.pc = "write", !.at = 1], c)
  <2> DEFINE d == CopyOf(<<>>)
  <2>1. patch' = Advance([d EXCEPT !.pc = "write", !.at = 1], d)
    BY <1>3
  <2> QED BY <1>1, <1>3, <2>1, CopyMade
<1> QED BY <1>2, <1>3 DEF CopyFile

LEMMA PatchReturns ==
    ASSUME PatchInv, ReturnEarly
    PROVE  PatchInv'
<1>1. /\ temps' = temps /\ disk' = disk /\ start' = start /\ others' = others /\ spoiled' = spoiled
      /\ patch' = [patch EXCEPT !.pc = "done", !.outcome = "error"] /\ CallShape
  BY DEF ReturnEarly, Ended, PatchInv
<1>2. CallShape' /\ patch'.pc = "done" /\ patch'.outcome = "error" /\ patch'.sections = patch.sections
      /\ patch'.dry = patch.dry
  BY <1>1 DEF CallShape
<1>3. \A p : Wanted(p)' = Wanted(p)
  BY <1>1, <1>2 DEF Wanted
<1>4. CASE patch.pc \in {"stage", "copy"}
  <2>1. SameBut({})
    BY <1>4 DEF PatchInv, StagePhase, CopyPhase
  <2>2. PatchIsWhole'
    BY <1>1, <1>2, <2>1 DEF PatchIsWhole, SameBut, CallShape
  <2> QED BY <1>2, <2>2 DEF PatchInv
<1>5. CASE patch.pc = "write" /\ Content = NoFile /\ disk[Target] = NoFile
  <2> DEFINE order == patch.order
             n == patch.at
  <2>1. WritePhase /\ AllStaged
    BY <1>5 DEF PatchInv, WritePhase
  <2>2. IsOrder(order, DOMAIN patch.staged) /\ n \in 1 .. Len(order)
    BY <2>1 DEF AllStaged
  <2>3. order[n] \in DOMAIN patch.staged /\ order[n] \notin Before(order, n)
        /\ Before(order, n) \subseteq DOMAIN patch.staged /\ order[n] \in Path
    BY <2>1, <2>2, TurnsOf DEF AllStaged
  <2>4. patch.staged[order[n]] = NoFile /\ disk[order[n]] = NoFile
    BY <1>5 DEF Content, Target
  <2>5. order[n] \in others
    BY <1>5, <2>1, <2>3, <2>4 DEF WritePhase, AllStaged
  <2>6. ASSUME NEW p \in Path \ others PROVE disk[p] \in {start[p], Wanted(p)}
    <3>1. p \in Before(order, n) \/ disk[p] = start[p]
      BY <1>5, <2>1 DEF WritePhase
    <3>2. p \in Before(order, n) => disk[p] = Wanted(p)
      BY <2>1, <2>3 DEF WritePhase, AllStaged
    <3> QED BY <3>1, <3>2
  <2>7. PatchIsWhole'
    BY <1>1, <1>2, <1>3, <2>5, <2>6 DEF PatchIsWhole
  <2> QED BY <1>2, <2>7 DEF PatchInv
<1> QED BY <1>4, <1>5 DEF ReturnEarly

LEMMA PatchGivesUp ==
    ASSUME PatchInv, GiveUp
    PROVE  PatchInv'
<1> DEFINE n == patch.at
           order == patch.order
           S == DOMAIN patch.staged
<1>1. temps' = {} /\ disk' = disk /\ start' = start /\ others' = others /\ spoiled' = spoiled
      /\ CallShape
  BY DEF GiveUp, PatchInv
<1>2. ASSUME patch.pc = "copy", patch' = [CopyOf(disk[Target]) EXCEPT !.pc = "undo"]
      PROVE  PatchInv'
  <2>1. CopyPhase /\ AllStaged /\ n \in 1 .. Len(order) /\ SameBut({}) /\ CopiesAreTrue
    BY <1>2 DEF PatchInv, CopyPhase, AllStaged
  <2>2. IsOrder(order, S)
    BY <2>1 DEF AllStaged
  <2>3. order[n] \in S /\ order[n] \in Path /\ Target = order[n]
    BY <2>1, <2>2, TurnsOf DEF Target, AllStaged
  <2>4. CallShape' /\ patch'.pc = "undo" /\ patch'.outcome = "none"
        /\ patch'.backup = With(patch.backup, order[n], disk[order[n]])
    BY <1>1, <1>2, <2>1, <2>3 DEF CopyOf, CallShape, AllStaged
  <2>5. DOMAIN patch'.backup = DOMAIN patch.backup \cup {order[n]} /\ patch'.backup[order[n]] = disk[order[n]]
        /\ \A p \in DOMAIN patch.backup : p # order[n] => patch'.backup[p] = patch.backup[p]
    BY <2>4 DEF With
  <2>6. CopiesAreTrue'
    BY <1>1, <2>1, <2>3, <2>5 DEF CopiesAreTrue, SameBut
  <2>7. UndoPhase'
    BY <1>1, <2>1, <2>4, <2>6 DEF UndoPhase, SameBut
  <2> QED BY <2>4, <2>7 DEF PatchInv
<1>3. ASSUME patch.pc \in {"write", "replace"}, patch' = [patch EXCEPT !.pc = "undo"]
      PROVE  PatchInv'
  <2>1. WritePhase /\ AllStaged /\ CopiesAreTrue /\ n \in 1 .. Len(order)
    BY <1>3 DEF PatchInv, WritePhase, AllStaged
  <2>2. IsOrder(order, S)
    BY <2>1 DEF AllStaged
  <2>3. Before(order, n) \subseteq S /\ order[n] \in S
    BY <2>1, <2>2, TurnsOf
  <2>4. CallShape' /\ patch'.pc = "undo" /\ patch'.outcome = "none" /\ patch'.backup = patch.backup
    BY <1>1, <1>3, <2>1 DEF CallShape, AllStaged
  <2>5. CopiesAreTrue'
    BY <1>1, <2>1, <2>4 DEF CopiesAreTrue
  <2>6. \A p \in Path \ others : p \notin DOMAIN patch.backup => disk[p] = start[p]
    BY <2>1, <2>3 DEF WritePhase
  <2>7. UndoPhase'
    BY <1>1, <2>4, <2>5, <2>6 DEF UndoPhase, SameBut
  <2> QED BY <2>4, <2>7 DEF PatchInv
<1> QED BY <1>2, <1>3 DEF GiveUp

LEMMA PatchRestores ==
    ASSUME PatchInv, RestoreBackups
    PROVE  PatchInv'
<1>1. PICK broken \in SUBSET DOMAIN patch.backup, empty \in SUBSET Path :
         /\ empty \subseteq {p \in broken : patch.backup[p] # NoFile}
         /\ disk' = [p \in Path |-> IF p \in empty THEN <<>> ELSE Restored(p, broken)]
         /\ spoiled' = (spoiled \/ broken # {})
  BY DEF RestoreBackups
<1>2. temps' = temps /\ start' = start /\ others' = others /\ patch.pc = "undo"
      /\ patch' = [patch EXCEPT !.pc = "done", !.outcome = "error"] /\ CallShape /\ UndoPhase
  BY DEF RestoreBackups, Ended, PatchInv
<1>3. CallShape' /\ patch'.pc = "done" /\ patch'.outcome = "error"
  BY <1>1, <1>2 DEF CallShape
<1>4. ASSUME ~spoiled', NEW p \in Path \ others PROVE disk'[p] = start[p]
  <2>1. ~spoiled /\ broken = {} /\ empty = {}
    BY <1>1, <1>4
  <2>2. disk'[p] = IF p \in DOMAIN patch.backup THEN patch.backup[p] ELSE disk[p]
    BY <1>1, <2>1 DEF Restored
  <2> QED BY <1>2, <2>1, <2>2 DEF UndoPhase, CopiesAreTrue, SameBut
<1>5. ASSUME ~spoiled', others = {} PROVE disk' = start
  <2>1. \A p \in Path : disk'[p] = start[p]
    BY <1>4, <1>5
  <2>2. disk' = [p \in Path |-> disk'[p]] /\ start = [p \in Path |-> start[p]]
    BY <1>2, <1>3 DEF CallShape
  <2> QED BY <2>1, <2>2
<1>6. PatchIsWhole'
  BY <1>2, <1>3, <1>4, <1>5 DEF PatchIsWhole
<1> QED BY <1>3, <1>6 DEF PatchInv

\* The target is what was staged for it: on to the next file, or the end.
LEMMA TargetWritten ==
    ASSUME PatchInv, patch.pc \in {"write", "replace"},
           disk' = [disk EXCEPT ![Target] = Content],
           temps' = temps \ {Target}, start' = start, others' = others, spoiled' = spoiled,
           patch' = WrittenAll(patch)
    PROVE  PatchInv'
<1> DEFINE n == patch.at
           order == patch.order
           S == DOMAIN patch.staged
<1>1. CallShape /\ WritePhase /\ AllStaged /\ n \in 1 .. Len(order) /\ CopiesAreTrue
  BY DEF PatchInv, WritePhase, AllStaged
<1>2. IsOrder(order, S) /\ Len(order) \in Nat
  BY <1>1 DEF AllStaged, IsOrder
<1>3. order[n] \in S /\ order[n] \in Path /\ Target = order[n] /\ Content = patch.staged[order[n]]
  BY <1>1, <1>2, TurnsOf DEF Target, Content, AllStaged
<1>4. Before(order, n + 1) = Before(order, n) \cup {order[n]} /\ order[n] \notin Before(order, n)
      /\ Before(order, n) \subseteq S /\ S \subseteq Path
  BY <1>1, <1>2, TurnsOf DEF AllStaged
<1>5. After(order, n + 1) = After(order, n) \ {order[n]}
  BY <1>1, <1>2, TurnsOf
<1>6. temps' = {p \in After(order, n + 1) : patch.staged[p] # NoFile}
  BY <1>1, <1>3, <1>5 DEF WritePhase
<1>7. disk'[order[n]] = patch.staged[order[n]] /\ \A p \in Path : p # order[n] => disk'[p] = disk[p]
  BY <1>1, <1>3 DEF CallShape
<1>8. \A p \in Before(order, n + 1) \ others : disk'[p] = patch.staged[p]
  BY <1>1, <1>4, <1>7 DEF WritePhase
<1>9. \A p \in Path \ others : p \in Before(order, n + 1) \/ disk'[p] = start[p]
  BY <1>1, <1>4, <1>7 DEF WritePhase
<1>10. disk' = [p \in Path |-> disk'[p]] /\ start' = [p \in Path |-> start'[p]]
  BY <1>1 DEF CallShape
<1>11. CASE n < Len(order)
  <2>1. patch' = [[patch EXCEPT !.pc = "write"] EXCEPT !.at = n + 1]
    BY <1>1, <1>11 DEF WrittenAll, Advance, CallShape
  <2>2. CallShape' /\ patch'.pc = "write" /\ patch'.at = n + 1 /\ patch'.backup = patch.backup
        /\ patch'.sections = patch.sections /\ patch'.dry = patch.dry /\ patch'.staged = patch.staged
        /\ patch'.order = order /\ patch'.outcome = patch.outcome
    BY <1>1, <1>10, <2>1 DEF CallShape
  <2>3. n + 1 \in 1 .. Len(order)
    BY <1>1, <1>2, <1>11
  <2>4. CopiesAreTrue'
    BY <1>1, <2>2 DEF CopiesAreTrue
  <2>5. AllStaged'
    BY <1>1, <2>2, <2>3, <2>4, PlanStays
  <2>6. DOMAIN patch.backup = DOMAIN patch.staged
    BY <1>1 DEF WritePhase
  <2>7. WritePhase'
    BY <1>6, <1>8, <1>9, <2>2, <2>5, <2>6 DEF WritePhase
  <2> QED BY <2>2, <2>7 DEF PatchInv
<1>12. CASE ~(n < Len(order))
  <2>1. patch' = [patch EXCEPT !.pc = "done", !.outcome = "ok"]
    BY <1>12 DEF WrittenAll, Advance
  <2>2. CallShape' /\ patch'.pc = "done" /\ patch'.outcome = "ok"
        /\ patch'.sections = patch.sections /\ patch'.dry = patch.dry
    BY <1>1, <1>10, <2>1 DEF CallShape
  <2>3. n = Len(order)
    BY <1>1, <1>2, <1>12
  <2>4. Before(order, n + 1) = S /\ After(order, n) = {order[n]}
    BY <1>1, <1>2, <2>3, TurnsOf
  <2>5. temps' = {}
    BY <1>5, <1>6, <2>4
  <2>6. \A p : Wanted(p)' = Wanted(p)
    BY <2>2 DEF Wanted
  <2>7. \A p \in Path \ others : disk'[p] = Wanted(p)
    BY <1>1, <1>8, <1>9, <2>4 DEF AllStaged
  <2>8. PatchIsWhole'
    BY <2>2, <2>5, <2>6, <2>7 DEF PatchIsWhole
  <2> QED BY <2>2, <2>8 DEF PatchInv
<1> QED BY <1>11, <1>12

LEMMA PatchDeletes ==
    ASSUME PatchInv, DeleteFile
    PROVE  PatchInv'
<1> DEFINE n == patch.at
           order == patch.order
<1>1. WritePhase /\ patch.pc = "write" /\ Content = NoFile
  BY DEF PatchInv, DeleteFile
<1>2. Target \notin temps
  BY <1>1 DEF WritePhase, Content, Target
<1>3. temps' = temps \ {Target}
  BY <1>2 DEF DeleteFile
<1> QED BY <1>1, <1>3, TargetWritten DEF DeleteFile

LEMMA PatchReplaces ==
    ASSUME PatchInv, ReplaceFile
    PROVE  PatchInv'
BY TargetWritten DEF ReplaceFile

LEMMA PatchRemoves ==
    ASSUME PatchInv, RemoveTarget
    PROVE  PatchInv'
<1> DEFINE n == patch.at
           order == patch.order
<1>1. CallShape /\ WritePhase /\ AllStaged /\ n \in 1 .. Len(order) /\ patch.pc = "write"
      /\ Content # NoFile /\ CopiesAreTrue
  BY DEF PatchInv, WritePhase, AllStaged, RemoveTarget
<1>2. temps' = temps /\ start' = start /\ others' = others /\ spoiled' = spoiled
      /\ patch' = [patch EXCEPT !.pc = "replace"]
      /\ disk' = IF Windows THEN [disk EXCEPT ![Target] = NoFile] ELSE disk
  BY DEF RemoveTarget
<1>3. IsOrder(order, DOMAIN patch.staged) /\ Target = order[n]
  BY <1>1 DEF AllStaged, Target
<1>4. order[n] \notin Before(order, n)
  BY <1>1, <1>3, TurnsOf
<1>5. CallShape' /\ patch'.pc = "replace" /\ patch'.at = n /\ patch'.backup = patch.backup
      /\ patch'.sections = patch.sections /\ patch'.dry = patch.dry /\ patch'.staged = patch.staged
      /\ patch'.order = order /\ patch'.outcome = patch.outcome
  BY <1>1, <1>2 DEF CallShape
<1>6. AllStaged' /\ CopiesAreTrue'
  <2>1. CopiesAreTrue'
    BY <1>1, <1>2, <1>5 DEF CopiesAreTrue
  <2> QED BY <1>1, <1>2, <1>5, <2>1, PlanStays
<1>7. \A p \in Path : p # order[n] => disk'[p] = disk[p]
  BY <1>1, <1>2, <1>3 DEF CallShape
<1>8. order[n] \in Path => disk'[order[n]] \in {disk[order[n]], NoFile}
  BY <1>1, <1>2, <1>3 DEF CallShape
<1>9. Content' = Content
  BY <1>5 DEF Content, Target
<1>10. ASSUME NEW p \in Path \ others
       PROVE p \in Before(order, n) \/ disk'[p] = start[p] \/ (p = order[n] /\ disk'[p] = NoFile)
  BY <1>1, <1>7, <1>8 DEF WritePhase
<1>11. DOMAIN patch.staged \subseteq Path /\ Before(order, n) \subseteq DOMAIN patch.staged
  BY <1>1, <1>3, TurnsOf DEF AllStaged
<1>12. \A p \in Before(order, n) \ others : disk'[p] = patch.staged[p]
  BY <1>1, <1>4, <1>7, <1>11 DEF WritePhase
<1>13. temps = {p \in After(order, n) : patch.staged[p] # NoFile} /\ DOMAIN patch.backup = DOMAIN patch.staged
  BY <1>1 DEF WritePhase
<1>14. WritePhase'
  BY <1>1, <1>2, <1>5, <1>6, <1>9, <1>10, <1>12, <1>13 DEF WritePhase
<1> QED BY <1>5, <1>14 DEF PatchInv

\* What others write is theirs.
LEMMA OthersWrite ==
    ASSUME PatchInv, NEW q \in Path, WriteByOther(q)
    PROVE  PatchInv'
<1>1. /\ others' = others \cup {q} /\ temps' = temps /\ patch' = patch /\ start' = start
      /\ spoiled' = spoiled /\ patch.pc \notin {"idle", "done"} /\ CallShape
      /\ \E c : disk' = [disk EXCEPT ![q] = c]
  BY DEF WriteByOther, PatchInv
<1>2. \A p \in Path \ others' : disk'[p] = disk[p]
  BY <1>1 DEF CallShape
<1>3. CallShape'
  BY <1>1 DEF CallShape
<1>4. \A S \in SUBSET DOMAIN patch.backup \cup {{}} : SameBut(S) => SameBut(S)'
  BY <1>1, <1>2 DEF SameBut
<1>5. CopiesAreTrue => CopiesAreTrue'
  BY <1>1 DEF CopiesAreTrue
<1>6. \A p : Wanted(p)' = Wanted(p)
  BY <1>1 DEF Wanted
<1>7. AllStaged => AllStaged'
  BY <1>1, <1>5, <1>6 DEF AllStaged
<1>8. CASE patch.pc = "stage"
  <2>1. StagePhase /\ SameBut({})'
    BY <1>1, <1>2, <1>8 DEF PatchInv, StagePhase, SameBut
  <2>2. StagePhase'
    BY <1>1, <2>1 DEF StagePhase
  <2> QED BY <1>1, <1>3, <1>8, <2>2 DEF PatchInv
<1>9. CASE patch.pc = "copy"
  <2>1. CopyPhase /\ SameBut({})'
    BY <1>1, <1>2, <1>9 DEF PatchInv, CopyPhase, SameBut
  <2>2. CopyPhase'
    BY <1>1, <1>7, <2>1 DEF CopyPhase
  <2> QED BY <1>1, <1>3, <1>9, <2>2 DEF PatchInv
<1>10. CASE patch.pc \in {"write", "replace"}
  <2> DEFINE n == patch.at
             order == patch.order
  <2>1. WritePhase /\ AllStaged
    BY <1>10 DEF PatchInv, WritePhase
  <2>2. Content' = Content
    BY <1>1 DEF Content, Target
  <2>3. IsOrder(order, DOMAIN patch.staged) /\ n \in 1 .. Len(order)
    BY <2>1 DEF AllStaged
  <2>4. Before(order, n) \subseteq Path
    BY <2>1, <2>3, TurnsOf DEF AllStaged
  <2>5. \A p \in Before(order, n) \ others' : disk'[p] = patch.staged[p]
    BY <1>1, <1>2, <2>1, <2>4 DEF WritePhase
  <2>6. \A p \in Path \ others' :
          \/ p \in Before(order, n) \/ disk'[p] = start[p]
          \/ patch.pc = "replace" /\ p = order[n] /\ disk'[p] = NoFile
    BY <1>1, <1>2, <2>1 DEF WritePhase
  <2>7. temps = {p \in After(order, n) : patch.staged[p] # NoFile} /\ DOMAIN patch.backup = DOMAIN patch.staged
        /\ (patch.pc = "replace" => Content # NoFile)
    BY <2>1 DEF WritePhase
  <2>8. WritePhase'
    BY <1>1, <1>7, <2>1, <2>2, <2>5, <2>6, <2>7 DEF WritePhase
  <2> QED BY <1>1, <1>3, <1>10, <2>8 DEF PatchInv
<1>11. CASE patch.pc = "undo"
  <2>1. UndoPhase /\ CopiesAreTrue'
    BY <1>5, <1>11 DEF PatchInv, UndoPhase
  <2>2. UndoPhase'
    BY <1>1, <1>2, <2>1 DEF UndoPhase, SameBut
  <2> QED BY <1>1, <1>3, <1>11, <2>2 DEF PatchInv
<1>12. patch.pc \in {"idle", "stage", "copy", "write", "replace", "undo", "done"}
  BY DEF PatchInv
<1> QED BY <1>1, <1>8, <1>9, <1>10, <1>11, <1>12

LEMMA PatchStep ==
    ASSUME PatchInv, PatchBounds, PatchNext \/ UNCHANGED patchVars
    PROVE  PatchInv'
<1>1. CASE UNCHANGED patchVars
  <2>1. patch' = patch /\ disk' = disk /\ temps' = temps /\ start' = start /\ others' = others
        /\ spoiled' = spoiled
    BY <1>1 DEF patchVars
  <2>2. CallShape' = CallShape /\ (PatchIsWhole' <=> PatchIsWhole)
    BY <2>1 DEF CallShape, PatchIsWhole, Wanted, Overlooked
  <2>3. (StagePhase => StagePhase') /\ (CopiesAreTrue => CopiesAreTrue')
    BY <2>1 DEF StagePhase, SameBut, CopiesAreTrue
  <2>4. \A p : Wanted(p)' = Wanted(p)
    BY <2>1 DEF Wanted
  <2>5. AllStaged => AllStaged'
    BY <2>1, <2>3, <2>4 DEF AllStaged
  <2>6. CopyPhase => CopyPhase'
    BY <2>1, <2>5 DEF CopyPhase, SameBut
  <2>7. Content' = Content
    BY <2>1 DEF Content, Target
  <2>8. WritePhase => WritePhase'
    BY <2>1, <2>5, <2>7 DEF WritePhase
  <2>9. UndoPhase => UndoPhase'
    BY <2>1, <2>3 DEF UndoPhase, SameBut
  <2>10. NoPatch' = NoPatch
    BY DEF NoPatch
  <2> QED BY <2>1, <2>2, <2>3, <2>6, <2>8, <2>9, <2>10 DEF PatchInv
<1>2. CASE PatchNext
  <2>1. ASSUME NEW sections \in Patches, NEW dry \in BOOLEAN, NEW confirm \in BOOLEAN,
               BeginPatch(sections, dry, confirm)
        PROVE  PatchInv'
    BY <2>1, PatchBegins
  <2>2. ASSUME NEW q \in Path, WriteByOther(q) PROVE PatchInv'
    BY <2>2, OthersWrite
  <2> QED BY <1>2, <2>1, <2>2, PatchStages, PatchIsStaged, PatchCopies, PatchReturns, PatchGivesUp,
             PatchRestores, PatchDeletes, PatchRemoves, PatchReplaces DEF PatchNext
<1> QED BY <1>1, <1>2

LEMMA PatchHolds ==
    ASSUME PatchInv
    PROVE  PatchIsWhole
<1>1. CASE patch.pc = "idle"
  BY <1>1 DEF PatchInv, PatchIsWhole, NoPatch
<1>2. CASE patch.pc = "stage"
  BY <1>2 DEF PatchInv, PatchIsWhole, StagePhase, SameBut
<1>3. CASE patch.pc = "copy"
  BY <1>3 DEF PatchInv, PatchIsWhole, CopyPhase, AllStaged, SameBut
<1>4. CASE patch.pc \in {"write", "replace"}
  <2> DEFINE n == patch.at
             order == patch.order
  <2>1. WritePhase /\ AllStaged /\ patch.outcome = "none" /\ n \in 1 .. Len(order)
    BY <1>4 DEF PatchInv, WritePhase, AllStaged
  <2>2. IsOrder(order, DOMAIN patch.staged)
    BY <2>1 DEF AllStaged
  <2>3. Before(order, n) \subseteq DOMAIN patch.staged /\ order[n] \in After(order, n)
    BY <2>1, <2>2, TurnsOf
  <2>4. ASSUME NEW p \in Path \ others
        PROVE  disk[p] \in {start[p], Wanted(p)} \/ (disk[p] = NoFile /\ p \in temps)
    <3>1. p \in Before(order, n) => disk[p] = Wanted(p)
      BY <2>1, <2>3 DEF WritePhase, AllStaged
    <3>2. patch.pc = "replace" => order[n] \in temps
      BY <2>1, <2>3 DEF WritePhase, Content, Target
    <3>3. \/ p \in Before(order, n) \/ disk[p] = start[p]
          \/ patch.pc = "replace" /\ p = order[n] /\ disk[p] = NoFile
      BY <2>1 DEF WritePhase
    <3> QED BY <3>1, <3>2, <3>3
  <2> QED BY <2>1, <2>4 DEF PatchIsWhole
<1>5. CASE patch.pc = "undo"
  BY <1>5 DEF PatchInv, PatchIsWhole, UndoPhase
<1>6. CASE patch.pc = "done"
  BY <1>6 DEF PatchInv
<1>7. patch.pc \in {"idle", "stage", "copy", "write", "replace", "undo", "done"}
  BY DEF PatchInv
<1> QED BY <1>1, <1>2, <1>3, <1>4, <1>5, <1>6, <1>7

-----------------------------------------------------------------------------
\* The files hold texts, and those no patch has written until one does; what is
\* staged and copied are texts of files of the workspace.
Contents == {NoFile} \cup FileText
FilesAreTexts ==
    /\ disk \in [Path -> Contents] /\ start \in [Path -> Contents]
    /\ temps \subseteq Path /\ others \subseteq Path /\ spoiled \in BOOLEAN
    /\ faults \in 0 .. MaxFault
    /\ patch.pc \in {"idle", "stage"} => disk \in [Path -> Untouched]
CallIsOfTexts ==
    /\ patch.outcome \in {"none", "ok", "error"}
    /\ DOMAIN patch.staged \subseteq Path /\ DOMAIN patch.backup \subseteq DOMAIN patch.staged
    /\ IsFiniteSet(DOMAIN patch.backup)
    /\ \A p \in DOMAIN patch.staged : patch.staged[p] \in Contents
    /\ \A p \in DOMAIN patch.backup : patch.backup[p] \in Contents

LEMMA UntouchedIs == Untouched \subseteq Contents /\ NoFile \in Untouched /\ <<>> \in Contents
<1>1. \A l \in Line : <<l>> \in Seq(Line)
  OBVIOUS
<1>2. <<>> \in Seq(Line)
  OBVIOUS
<1> QED BY <1>1, <1>2 DEF Untouched, Contents, FileText

LEMMA FirstTexts == ASSUME PatchBounds, PatchInit PROVE FilesAreTexts /\ CallIsOfTexts
<1>1. disk \in [Path -> Untouched] /\ disk \in [Path -> Contents]
  BY UntouchedIs DEF PatchInit
<1>2. FilesAreTexts
  <2>1. faults = 0 /\ start = disk /\ temps = {} /\ others = {} /\ spoiled = FALSE
    BY DEF PatchInit
  <2>2. faults \in 0 .. MaxFault
    BY <2>1 DEF PatchBounds
  <2> QED BY <1>1, <2>1, <2>2 DEF FilesAreTexts
<1>3. patch.outcome = "none" /\ DOMAIN patch.staged = {} /\ DOMAIN patch.backup = {}
  BY DEF PatchInit, NoPatch
<1> QED BY <1>2, <1>3, FS_EmptySet DEF CallIsOfTexts

\* The target of a pass is a file that is staged.
LEMMA TargetIs ==
    ASSUME PatchInv, CallIsOfTexts, patch.pc \in {"copy", "write", "replace"}
    PROVE  Target \in DOMAIN patch.staged /\ Target \in Path /\ Content \in Contents
<1>1. AllStaged
  BY DEF PatchInv, CopyPhase, WritePhase
<1>2. \A o, S : o = patch.order /\ S = DOMAIN patch.staged =>
         o[patch.at] \in S
  BY <1>1, TurnsOf DEF AllStaged
<1>3. Target \in DOMAIN patch.staged
  BY <1>2 DEF Target
<1> QED BY <1>3 DEF Content, CallIsOfTexts

\* A call that stages and copies nothing more.
LEMMA SameTexts ==
    ASSUME CallIsOfTexts, patch'.staged = patch.staged, patch'.backup = patch.backup,
           patch'.outcome \in {"none", "ok", "error"}
    PROVE  CallIsOfTexts'
BY DEF CallIsOfTexts

\* One that copies the target.
LEMMA CopyTexts ==
    ASSUME PatchInv, CallIsOfTexts, patch.pc = "copy", NEW content \in Contents,
           patch'.staged = patch.staged, patch'.backup = With(patch.backup, Target, content),
           patch'.outcome = patch.outcome
    PROVE  CallIsOfTexts'
<1>1. Target \in DOMAIN patch.staged
  BY TargetIs
<1>2. DOMAIN patch'.backup = DOMAIN patch.backup \cup {Target}
  BY DEF With
<1>3. \A p \in DOMAIN patch'.backup : patch'.backup[p] \in Contents
  BY DEF With, CallIsOfTexts
<1>4. IsFiniteSet(DOMAIN patch'.backup)
  BY <1>2, FS_AddElement DEF CallIsOfTexts
<1> QED BY <1>1, <1>2, <1>3, <1>4 DEF CallIsOfTexts

\* The files stay, or one of them becomes a text, once the call is past staging.
LEMMA FileTexts ==
    ASSUME FilesAreTexts, temps' \subseteq Path, others' = others, start' = start,
           spoiled' \in BOOLEAN, faults' \in 0 .. MaxFault,
           disk' \in [Path -> Contents], patch'.pc \notin {"idle", "stage"}
    PROVE  FilesAreTexts'
BY DEF FilesAreTexts

LEMMA BeginTexts ==
    ASSUME PatchBounds, PatchInv, FilesAreTexts, CallIsOfTexts,
           NEW sections, NEW dry, NEW confirm, BeginPatch(sections, dry, confirm)
    PROVE  FilesAreTexts' /\ CallIsOfTexts'
<1>1. /\ patch.pc = "idle" /\ disk' = disk /\ temps' = temps /\ faults' = faults
      /\ others' = others /\ spoiled' = spoiled /\ start' = disk
  BY DEF BeginPatch
<1>2. /\ patch'.staged = <<>> /\ patch'.backup = <<>> /\ patch'.outcome \in {"none", "error"}
  BY DEF BeginPatch, NoPatch
<1>3. DOMAIN patch'.staged = {} /\ DOMAIN patch'.backup = {}
  BY <1>2
<1>4. CallIsOfTexts'
  BY <1>2, <1>3, FS_EmptySet DEF CallIsOfTexts
<1> QED BY <1>1, <1>4 DEF FilesAreTexts

LEMMA StageTexts ==
    ASSUME PatchBounds, PatchInv, FilesAreTexts, CallIsOfTexts, StageSection
    PROVE  FilesAreTexts' /\ CallIsOfTexts'
<1> DEFINE s == patch.sections
           n == patch.at
           path == s[n].path
           result == Updated(s[n], disk[path])
<1>1. /\ CallShape /\ StagePhase /\ patch.pc = "stage" /\ n <= Len(s)
      /\ disk' = disk /\ temps' = temps /\ faults' = faults
      /\ others' = others /\ spoiled' = spoiled /\ start' = start
  BY DEF PatchInv, StageSection
<1>2. s \in Patches /\ n \in 1 .. Len(s)
  BY <1>1 DEF StagePhase, PatchBounds
<1>3. path \in Path /\ n \in DOMAIN s
  BY <1>2, SectionsNamePaths
<1>4. disk[path] \in Untouched
  BY <1>1, <1>3 DEF FilesAreTexts
<1> HIDE DEF path
<1>5. result \in {NoFile, Mismatch} \cup FileText
  BY <1>2, <1>3, <1>4 DEF PatchBounds
<1> HIDE DEF result
<1>6. CASE result = Mismatch
  <2>1. patch' = [patch EXCEPT !.pc = "done", !.outcome = "error"]
    BY <1>6 DEF StageSection, Ended, result, path
  <2>2. patch'.staged = patch.staged /\ patch'.backup = patch.backup /\ patch'.outcome = "error"
        /\ patch'.pc = "done"
    BY <1>1, <2>1 DEF CallShape
  <2> QED BY <1>1, <2>2, SameTexts DEF FilesAreTexts
<1>7. CASE result # Mismatch
  <2>1. patch' = [patch EXCEPT !.at = n + 1, !.staged = With(patch.staged, path, result)]
    BY <1>7 DEF StageSection, result, path
  <2>2. /\ patch'.pc = "stage" /\ patch'.backup = patch.backup /\ patch'.outcome = patch.outcome
        /\ patch'.staged = With(patch.staged, path, result)
    BY <1>1, <2>1 DEF CallShape
  <2>3. result \in Contents
    BY <1>5, <1>7 DEF Contents
  <2>4. /\ DOMAIN patch'.staged = DOMAIN patch.staged \cup {path}
        /\ \A p \in DOMAIN patch'.staged : patch'.staged[p] \in Contents
    BY <2>2, <2>3 DEF With, CallIsOfTexts
  <2>5. CallIsOfTexts'
    BY <1>3, <2>2, <2>4 DEF CallIsOfTexts, path
  <2> QED BY <1>1, <2>2, <2>5 DEF FilesAreTexts
<1> QED BY <1>6, <1>7

LEMMA StagedTexts ==
    ASSUME PatchInv, FilesAreTexts, CallIsOfTexts, EndStaging
    PROVE  FilesAreTexts' /\ CallIsOfTexts'
<1>1. /\ CallShape /\ disk' = disk /\ temps' = temps /\ faults' = faults
      /\ others' = others /\ spoiled' = spoiled /\ start' = start
  BY DEF PatchInv, EndStaging
<1>2. \/ patch' = [patch EXCEPT !.pc = "done", !.outcome = "ok"]
      \/ \E order : patch' = [patch EXCEPT !.pc = "copy", !.at = 1, !.order = order]
  BY DEF EndStaging, Ended
<1>3. /\ patch'.staged = patch.staged /\ patch'.backup = patch.backup
      /\ patch'.outcome \in {patch.outcome, "ok"} /\ patch'.pc \in {"copy", "done"}
  BY <1>1, <1>2 DEF CallShape
<1>4. patch'.outcome \in {"none", "ok", "error"}
  BY <1>3 DEF CallIsOfTexts
<1> QED BY <1>1, <1>3, <1>4, SameTexts DEF FilesAreTexts

LEMMA CopiesTexts ==
    ASSUME PatchBounds, PatchInv, FilesAreTexts, CallIsOfTexts, CopyFile
    PROVE  FilesAreTexts' /\ CallIsOfTexts'
<1>1. /\ CallShape /\ patch.pc = "copy" /\ disk' = disk /\ others' = others /\ start' = start
      /\ spoiled' \in BOOLEAN /\ faults' \in 0 .. MaxFault /\ temps' \in {temps, temps \cup {Target}}
  <2>1. /\ CallShape /\ patch.pc = "copy" /\ disk' = disk /\ others' = others /\ start' = start
        /\ temps' \in {temps, temps \cup {Target}}
    BY DEF PatchInv, CopyFile
  <2>2. \/ faults' = faults /\ spoiled' = spoiled
        \/ faults < MaxFault /\ faults' = faults + 1 /\ spoiled' = TRUE
    BY DEF CopyFile
  <2>3. spoiled' \in BOOLEAN
    BY <2>2, Zenon DEF FilesAreTexts
  <2>4. faults' \in 0 .. MaxFault
    BY <2>2 DEF FilesAreTexts, PatchBounds
  <2> QED BY <2>1, <2>3, <2>4
<1>2. PICK content \in {disk[Target], <<>>} :
         LET c == CopyOf(content)
         IN  patch' = Advance([c EXCEPT !.pc = "write", !.at = 1], c)
  BY DEF CopyFile
<1>3. Target \in Path
  BY <1>1, TargetIs
<1>4. content \in Contents
  BY <1>2, <1>3, UntouchedIs DEF FilesAreTexts
<1>5. /\ patch'.staged = patch.staged /\ patch'.backup = With(patch.backup, Target, content)
      /\ patch'.outcome = patch.outcome /\ patch'.pc \in {"copy", "write"}
  BY <1>1, <1>2 DEF CallShape, CopyOf, Advance
<1>6. CallIsOfTexts'
  BY <1>1, <1>4, <1>5, CopyTexts
<1> QED BY <1>1, <1>3, <1>5, <1>6, FileTexts DEF FilesAreTexts

LEMMA ReturnTexts ==
    ASSUME PatchBounds, PatchInv, FilesAreTexts, CallIsOfTexts, ReturnEarly
    PROVE  FilesAreTexts' /\ CallIsOfTexts'
<1>1. /\ CallShape /\ disk' = disk /\ others' = others /\ start' = start
      /\ spoiled' = spoiled /\ temps' = temps
      /\ patch' = [patch EXCEPT !.pc = "done", !.outcome = "error"]
  BY DEF PatchInv, ReturnEarly, Ended
<1>2. faults' \in 0 .. MaxFault
  BY DEF ReturnEarly, FilesAreTexts, PatchBounds
<1>3. /\ patch'.staged = patch.staged /\ patch'.backup = patch.backup
      /\ patch'.outcome = "error" /\ patch'.pc = "done"
  BY <1>1 DEF CallShape
<1> QED BY <1>1, <1>2, <1>3, SameTexts, FileTexts DEF FilesAreTexts

LEMMA GivesUpTexts ==
    ASSUME PatchBounds, PatchInv, FilesAreTexts, CallIsOfTexts, GiveUp
    PROVE  FilesAreTexts' /\ CallIsOfTexts'
<1>1. /\ CallShape /\ disk' = disk /\ others' = others /\ start' = start
      /\ spoiled' = spoiled /\ temps' = {} /\ faults' \in 0 .. MaxFault
  BY DEF PatchInv, GiveUp, FilesAreTexts, PatchBounds
<1>2. ASSUME patch.pc = "copy", patch' = [CopyOf(disk[Target]) EXCEPT !.pc = "undo"]
      PROVE  CallIsOfTexts' /\ patch'.pc = "undo"
  <2>1. Target \in Path
    BY <1>2, TargetIs
  <2>2. disk[Target] \in Contents
    BY <2>1 DEF FilesAreTexts
  <2>3. /\ patch'.staged = patch.staged /\ patch'.backup = With(patch.backup, Target, disk[Target])
        /\ patch'.outcome = patch.outcome /\ patch'.pc = "undo"
    BY <1>1, <1>2 DEF CallShape, CopyOf
  <2> QED BY <1>2, <2>2, <2>3, CopyTexts
<1>3. ASSUME patch' = [patch EXCEPT !.pc = "undo"]
      PROVE  CallIsOfTexts' /\ patch'.pc = "undo"
  <2>1. /\ patch'.staged = patch.staged /\ patch'.backup = patch.backup
        /\ patch'.outcome = patch.outcome /\ patch'.pc = "undo"
    BY <1>1, <1>3 DEF CallShape
  <2> QED BY <2>1 DEF CallIsOfTexts
<1>4. CallIsOfTexts' /\ patch'.pc = "undo"
  BY <1>2, <1>3 DEF GiveUp
<1> QED BY <1>1, <1>4, FileTexts DEF FilesAreTexts

LEMMA RestoreTexts ==
    ASSUME PatchBounds, PatchInv, FilesAreTexts, CallIsOfTexts, RestoreBackups
    PROVE  FilesAreTexts' /\ CallIsOfTexts'
<1>1. PICK broken \in SUBSET DOMAIN patch.backup, empty \in SUBSET Path :
         /\ Cardinality(broken) <= MaxFault - faults
         /\ disk' = [p \in Path |-> IF p \in empty THEN <<>> ELSE Restored(p, broken)]
         /\ faults' = faults + Cardinality(broken)
         /\ spoiled' = (spoiled \/ broken # {})
  BY DEF RestoreBackups
<1>2. /\ CallShape /\ others' = others /\ start' = start /\ temps' = temps
      /\ patch' = [patch EXCEPT !.pc = "done", !.outcome = "error"]
  BY DEF PatchInv, RestoreBackups, Ended
<1>3. Cardinality(broken) \in Nat
  BY FS_Subset, FS_CardinalityType DEF CallIsOfTexts
<1>4. faults' \in 0 .. MaxFault
  BY <1>1, <1>3 DEF FilesAreTexts, PatchBounds
<1>5. \A p \in Path : Restored(p, broken) \in Contents
  BY DEF Restored, CallIsOfTexts, FilesAreTexts
<1>6. disk' \in [Path -> Contents]
  BY <1>1, <1>5, UntouchedIs
<1>7. /\ patch'.staged = patch.staged /\ patch'.backup = patch.backup
      /\ patch'.outcome = "error" /\ patch'.pc = "done"
  BY <1>2 DEF CallShape
<1>8. spoiled' \in BOOLEAN
  BY <1>1
<1> QED BY <1>2, <1>4, <1>6, <1>7, <1>8, SameTexts, FileTexts DEF FilesAreTexts

LEMMA WriteTexts ==
    ASSUME PatchInv, FilesAreTexts, CallIsOfTexts, DeleteFile \/ RemoveTarget \/ ReplaceFile
    PROVE  FilesAreTexts' /\ CallIsOfTexts'
<1>1. /\ CallShape /\ others' = others /\ start' = start /\ faults' = faults
      /\ spoiled' = spoiled /\ temps' \subseteq temps /\ patch.pc \in {"write", "replace"}
  BY DEF PatchInv, DeleteFile, RemoveTarget, ReplaceFile
<1>2. Target \in Path /\ Content \in Contents /\ NoFile \in Contents
  BY <1>1, TargetIs DEF Contents
<1>3. disk' \in [Path -> Contents]
  BY <1>2 DEF DeleteFile, RemoveTarget, ReplaceFile, FilesAreTexts
<1>4. patch' \in {WrittenAll(patch), [patch EXCEPT !.pc = "replace"]}
  BY DEF DeleteFile, RemoveTarget, ReplaceFile
<1>5. /\ patch'.staged = patch.staged /\ patch'.backup = patch.backup
      /\ patch'.outcome \in {patch.outcome, "ok"} /\ patch'.pc \in {"write", "replace", "done"}
  BY <1>1, <1>4 DEF CallShape, WrittenAll, Advance
<1>6. patch'.outcome \in {"none", "ok", "error"}
  BY <1>5 DEF CallIsOfTexts
<1> QED BY <1>1, <1>3, <1>5, <1>6, SameTexts, FileTexts DEF FilesAreTexts

LEMMA ForeignTexts ==
    ASSUME FilesAreTexts, CallIsOfTexts, NEW q \in Path, WriteByOther(q)
    PROVE  FilesAreTexts' /\ CallIsOfTexts'
<1>1. PICK c \in Untouched : disk' = [disk EXCEPT ![q] = c]
  BY DEF WriteByOther
<1>2. /\ others' = others \cup {q} /\ temps' = temps /\ patch' = patch /\ faults' = faults
      /\ start' = start /\ spoiled' = spoiled
  BY DEF WriteByOther
<1>3. disk' \in [Path -> Contents]
  BY <1>1, UntouchedIs DEF FilesAreTexts
<1>4. patch'.pc \in {"idle", "stage"} => disk' \in [Path -> Untouched]
  BY <1>1, <1>2 DEF FilesAreTexts
<1> QED BY <1>2, <1>3, <1>4 DEF FilesAreTexts, CallIsOfTexts

LEMMA TextsStep ==
    ASSUME PatchBounds, PatchInv, FilesAreTexts, CallIsOfTexts, PatchNext \/ UNCHANGED patchVars
    PROVE  FilesAreTexts' /\ CallIsOfTexts'
<1>1. CASE UNCHANGED patchVars
  BY <1>1 DEF patchVars, FilesAreTexts, CallIsOfTexts
<1> QED BY <1>1, BeginTexts, StageTexts, StagedTexts, CopiesTexts, ReturnTexts, GivesUpTexts,
           RestoreTexts, WriteTexts, ForeignTexts DEF PatchNext

LEMMA PatchTyped == PatchInv /\ FilesAreTexts /\ CallIsOfTexts => PatchTypeOK
BY DEF PatchInv, FilesAreTexts, CallIsOfTexts, PatchTypeOK, Contents

-----------------------------------------------------------------------------
(* TaskHarness                                                             *)

ToolPcs == {"idle", "check", "run", "capture", "save", "write", "rename"}
ToolCalls == [pc : ToolPcs, task : Task \cup {NoTask}, copy : TaskFile \cup {NoTask},
              to : {"temp", "task", "gone"}]
HarnessTypes ==
    /\ tree \in 0 .. MaxTree /\ head \in 0 .. MaxHead
    /\ tasks \in [Task -> Files] /\ temp \in [Task -> Files]
    /\ tool \in [Tool -> ToolCalls]
    /\ called \in 0 .. MaxTool /\ outside \subseteq Task
    /\ stale \subseteq Tool /\ raced \in BOOLEAN

\* A call that holds a copy holds one of a task; one whose temporary file was
\* put in place by another call is an overtaken one.
CopiesAreOfTasks ==
    /\ \A c \in Tool : HoldsCopy(c) => tool[c].task \in Task /\ tool[c].copy \in TaskFile
    /\ \A c \in stale : HoldsCopy(c)
    /\ \A c \in Tool : tool[c].to # "temp" => c \in stale

HarnessInv == HarnessTypes /\ CopiesAreOfTasks

LEMMA IdleTyped == /\ Idle \in ToolCalls /\ Idle.pc = "idle" /\ Idle.task = NoTask
                   /\ Idle.copy = NoTask /\ Idle.to = "temp"
BY DEF Idle, ToolCalls, ToolPcs

LEMMA HarnessInitTyped == ASSUME HarnessBounds, HarnessInit PROVE HarnessInv
<1> USE IdleTyped
<1> HIDE DEF Idle
<1>1. \A c \in Tool : tool[c] = Idle
  BY DEF HarnessInit
<1>2. tool \in [Tool -> ToolCalls] /\ tasks \in [Task -> Files] /\ temp \in [Task -> Files]
  BY DEF HarnessInit, Files
<1>3. CopiesAreOfTasks
  BY <1>1 DEF CopiesAreOfTasks, HoldsCopy, Saving, HarnessInit
<1>4. tree \in 0 .. MaxTree /\ head \in 0 .. MaxHead /\ called \in 0 .. MaxTool
  BY DEF HarnessBounds, HarnessInit
<1>5. outside \subseteq Task /\ stale \subseteq Tool /\ raced \in BOOLEAN
  BY DEF HarnessInit
<1> QED BY <1>2, <1>3, <1>4, <1>5 DEF HarnessInv, HarnessTypes

LEMMA GoesTo ==
    ASSUME HarnessInv, NEW c \in Tool, NEW pc \in ToolPcs,
           NEW t \in Task \cup {NoTask}, NEW copy \in TaskFile \cup {NoTask},
           ToolGoto(c, pc, t, copy)
    PROVE  /\ tool' \in [Tool -> ToolCalls]
           /\ tool'[c].pc = pc /\ tool'[c].task = t /\ tool'[c].copy = copy /\ tool'[c].to = "temp"
           /\ \A d \in Tool \ {c} : tool'[d] = tool[d]
<1> DEFINE r == [Idle EXCEPT !.pc = pc, !.task = t, !.copy = copy]
<1>1. /\ r \in ToolCalls /\ r.pc = pc /\ r.task = t /\ r.copy = copy /\ r.to = "temp"
  BY DEF Idle, ToolCalls
<1>2. tool' = [tool EXCEPT ![c] = r] /\ tool \in [Tool -> ToolCalls]
  BY DEF ToolGoto, HarnessInv, HarnessTypes
<1> HIDE DEF r
<1> QED BY <1>1, <1>2

LEMMA MovesOn ==
    ASSUME HarnessInv, NEW c \in Tool, NEW pc \in ToolPcs, tool' = [tool EXCEPT ![c].pc = pc]
    PROVE  /\ tool' \in [Tool -> ToolCalls] /\ tool'[c].pc = pc
           /\ tool'[c].task = tool[c].task /\ tool'[c].copy = tool[c].copy /\ tool'[c].to = tool[c].to
           /\ \A d \in Tool \ {c} : tool'[d] = tool[d]
BY DEF HarnessInv, HarnessTypes, ToolCalls

\* The file of a task that can be read.
LEMMA ExistingIs == ASSUME HarnessInv, NEW t \in Existing PROVE t \in Task /\ tasks[t] \in TaskFile
BY DEF Existing, HarnessInv, HarnessTypes, Files

\* A call that begins or goes on before it saves, with the files as they are.
StepsAside(c) ==
    \E pc \in {"idle", "check", "run", "capture", "save"}, t \in Task \cup {NoTask},
       copy \in TaskFile \cup {NoTask} :
      /\ ToolGoto(c, pc, t, copy)
      /\ pc \in {"capture", "save"} => t \in Task /\ copy \in TaskFile
      /\ c \in stale => pc = "save"

LEMMA AsideTyped ==
    ASSUME HarnessBounds, HarnessInv, NEW c \in Tool, StepsAside(c),
           tree' \in 0 .. MaxTree, head' \in 0 .. MaxHead, called' \in 0 .. MaxTool,
           UNCHANGED <<tasks, temp, stale>>, outside' \subseteq Task, raced' \in BOOLEAN
    PROVE  HarnessInv'
<1>1. PICK pc \in {"idle", "check", "run", "capture", "save"}, t \in Task \cup {NoTask},
            copy \in TaskFile \cup {NoTask} :
         /\ ToolGoto(c, pc, t, copy)
         /\ pc \in {"capture", "save"} => t \in Task /\ copy \in TaskFile
         /\ c \in stale => pc = "save"
  BY DEF StepsAside
<1>2. /\ tool' \in [Tool -> ToolCalls]
      /\ tool'[c].pc = pc /\ tool'[c].task = t /\ tool'[c].copy = copy /\ tool'[c].to = "temp"
      /\ \A d \in Tool \ {c} : tool'[d] = tool[d]
  BY <1>1, GoesTo DEF ToolPcs
<1>3. HarnessTypes'
  BY <1>2 DEF HarnessInv, HarnessTypes
<1>4. CopiesAreOfTasks'
  <2>1. HoldsCopy(c)' <=> pc \in {"capture", "save"}
    BY <1>2 DEF HoldsCopy, Saving
  <2>2. \A d \in Tool \ {c} : HoldsCopy(d)' <=> HoldsCopy(d)
    BY <1>2 DEF HoldsCopy, Saving
  <2>3. \A d \in Tool : HoldsCopy(d)' => tool'[d].task \in Task /\ tool'[d].copy \in TaskFile
    BY <1>1, <1>2, <2>1, <2>2 DEF HarnessInv, CopiesAreOfTasks
  <2>4. \A d \in stale : HoldsCopy(d)'
    BY <1>1, <2>1, <2>2 DEF HarnessInv, CopiesAreOfTasks, HarnessTypes
  <2>5. \A d \in Tool : tool'[d].to # "temp" => d \in stale
    BY <1>2 DEF HarnessInv, CopiesAreOfTasks
  <2> QED BY <2>3, <2>4, <2>5 DEF CopiesAreOfTasks
<1> QED BY <1>3, <1>4 DEF HarnessInv

\* The copy a call that changes a task begins with.
LEMMA BeginsWith ==
    ASSUME HarnessBounds, HarnessInv, NEW c \in Tool, NEW t \in Task, NEW next \in Asked,
           StartTask(c, t) \/ UpdateSteps(c, t) \/ Transition(c, t, next)
    PROVE  \E copy \in TaskFile :
             /\ ToolGoto(c, "save", t, copy)
             /\ \/ StartTask(c, t) /\ tasks[t] = NoTask /\ copy.head = head /\ copy.expected = tree
                \/ /\ t \in Existing /\ copy.head = tasks[t].head /\ copy.expected = tasks[t].expected
                   /\ IsWritable(copy.status) => IsWritable(tasks[t].status)
<1>1. CASE StartTask(c, t)
  <2> DEFINE new == [status |-> "active", head |-> head, expected |-> tree]
  <2>1. new \in TaskFile /\ new.head = head /\ new.expected = tree
    BY DEF TaskFile, Statuses, HarnessInv, HarnessTypes
  <2>2. ToolGoto(c, "save", t, new) /\ tasks[t] = NoTask
    BY <1>1 DEF StartTask, Unused
  <2> QED BY <1>1, <2>1, <2>2
<1>2. CASE UpdateSteps(c, t)
  BY <1>2, ExistingIs DEF UpdateSteps
<1>3. CASE Transition(c, t, next)
  <2>1. t \in Existing /\ tasks[t] \in TaskFile /\ CanTransition(tasks[t].status, next)
    BY <1>3, ExistingIs DEF Transition
  <2> DEFINE new == [tasks[t] EXCEPT !.status = next]
  <2>2. new \in TaskFile /\ new.head = tasks[t].head /\ new.expected = tasks[t].expected
    BY <2>1 DEF TaskFile, Statuses, Asked
  <2>3. IsWritable(tasks[t].status)
    BY <2>1 DEF CanTransition, IsWritable
  <2>4. ToolGoto(c, "save", t, new)
    BY <1>3 DEF Transition
  <2> HIDE DEF new
  <2> QED BY <2>1, <2>2, <2>3, <2>4
<1> QED BY <1>1, <1>2, <1>3

LEMMA BeginsTyped ==
    ASSUME HarnessBounds, HarnessInv, NEW c \in Tool, NEW t \in Task, NEW next \in Asked,
           StartTask(c, t) \/ UpdateSteps(c, t) \/ Transition(c, t, next)
    PROVE  HarnessInv'
<1>1. called' \in 0 .. MaxTool
  BY DEF StartTask, UpdateSteps, Transition, Called, HarnessBounds, HarnessInv, HarnessTypes
<1>2. \E copy \in TaskFile : ToolGoto(c, "save", t, copy)
  BY BeginsWith
<1>3. StepsAside(c)
  BY <1>2 DEF StepsAside
<1>4. /\ UNCHANGED <<tasks, temp, stale>> /\ tree' \in 0 .. MaxTree /\ head' \in 0 .. MaxHead
      /\ outside' \subseteq Task
  BY DEF StartTask, UpdateSteps, Transition, HarnessInv, HarnessTypes
<1>5. raced' \in BOOLEAN
  <2>1. raced \in BOOLEAN
    BY DEF HarnessInv, HarnessTypes
  <2> QED BY <2>1, Zenon DEF StartTask, UpdateSteps, Transition
<1> QED BY <1>1, <1>3, <1>4, <1>5, AsideTyped

LEMMA RefuseTyped == ASSUME HarnessBounds, HarnessInv, NEW c \in Tool, RefuseCall(c) PROVE HarnessInv'
BY DEF RefuseCall, Called, HarnessBounds, HarnessInv, HarnessTypes, CopiesAreOfTasks, HoldsCopy, Saving

\* A tool that writes, up to the copy it reads when it has succeeded.
LEMMA RunTyped ==
    ASSUME HarnessBounds, HarnessInv, NEW c \in Tool,
           BeginOperation(c) \/ CheckBaseline(c) \/ RunTool(c)
    PROVE  HarnessInv' /\ StepsAside(c) /\ c \notin stale
<1>1. tree' \in 0 .. MaxTree /\ head' \in 0 .. MaxHead /\ called' \in 0 .. MaxTool
  BY DEF BeginOperation, CheckBaseline, RunTool, Called, HarnessBounds, HarnessInv, HarnessTypes
<1>2. c \notin stale /\ tool[c].task \in Task \cup {NoTask}
  BY DEF BeginOperation, CheckBaseline, RunTool, Called, HarnessInv, HarnessTypes, ToolCalls,
         CopiesAreOfTasks, HoldsCopy, Saving
<1>3. StepsAside(c)
  <2>1. CASE BeginOperation(c)
    <3>1. \/ ToolGoto(c, "run", NoTask, NoTask)
          \/ \E t \in Task : ToolGoto(c, "check", t, NoTask)
      BY <2>1 DEF BeginOperation, CurrentTask, Existing
    <3> QED BY <1>2, <3>1 DEF StepsAside
  <2>2. CASE CheckBaseline(c)
    <3>1. ToolGoto(c, "run", tool[c].task, NoTask) \/ ToolGoto(c, "idle", NoTask, NoTask)
      BY <2>2 DEF CheckBaseline
    <3> QED BY <1>2, <3>1 DEF StepsAside
  <2>3. CASE RunTool(c) /\ ToolGoto(c, "idle", NoTask, NoTask)
    BY <1>2, <2>3 DEF StepsAside
  <2>4. CASE tool[c].task \in Existing /\ ToolGoto(c, "capture", tool[c].task, tasks[tool[c].task])
    BY <1>2, <2>4, ExistingIs DEF StepsAside
  <2> QED BY <2>1, <2>2, <2>3, <2>4 DEF RunTool
<1>4. UNCHANGED <<tasks, temp, stale, outside, raced>> /\ outside \subseteq Task /\ raced \in BOOLEAN
  BY DEF BeginOperation, CheckBaseline, RunTool, HarnessInv, HarnessTypes
<1>5. outside' \subseteq Task /\ raced' \in BOOLEAN
  BY <1>4
<1> QED BY <1>1, <1>2, <1>3, <1>4, <1>5, AsideTyped

\* refresh_expected_state.
LEMMA CaptureIs ==
    ASSUME HarnessBounds, HarnessInv, NEW c \in Tool, CaptureTree(c)
    PROVE  \E copy \in TaskFile :
             /\ ToolGoto(c, "save", tool[c].task, copy)
             /\ copy.status = tool[c].copy.status /\ copy.head = tool[c].copy.head /\ copy.expected = tree
             /\ tool[c].task \in Task /\ tool[c].copy \in TaskFile
<1> DEFINE copy == [tool[c].copy EXCEPT !.expected = tree]
<1>1. tool[c].task \in Task /\ tool[c].copy \in TaskFile
  BY DEF CaptureTree, HarnessInv, CopiesAreOfTasks, HoldsCopy
<1>2. /\ copy \in TaskFile /\ copy.status = tool[c].copy.status /\ copy.head = tool[c].copy.head
      /\ copy.expected = tree
  BY <1>1 DEF TaskFile, HarnessInv, HarnessTypes
<1>3. ToolGoto(c, "save", tool[c].task, copy)
  BY DEF CaptureTree
<1> HIDE DEF copy
<1> QED BY <1>1, <1>2, <1>3

LEMMA CaptureTyped == ASSUME HarnessBounds, HarnessInv, NEW c \in Tool, CaptureTree(c) PROVE HarnessInv'
<1>1. StepsAside(c)
  BY CaptureIs DEF StepsAside
<1>2. UNCHANGED <<tree, head, called, tasks, temp, stale, outside, raced>>
  BY DEF CaptureTree
<1>3. /\ tree \in 0 .. MaxTree /\ head \in 0 .. MaxHead /\ called \in 0 .. MaxTool
      /\ outside \subseteq Task /\ raced \in BOOLEAN
  BY DEF HarnessInv, HarnessTypes
<1> QED BY <1>1, <1>2, <1>3, AsideTyped

\* A call that saves.
LEMMA SaverIs ==
    ASSUME HarnessInv, NEW c \in Tool, SaveTask(c) \/ WriteTemp(c) \/ RenameTask(c) \/ FailSave(c)
    PROVE  /\ HoldsCopy(c) /\ tool[c].task \in Task /\ tool[c].copy \in TaskFile
           /\ tool[c].copy \in Files /\ Blank \in Files /\ Mangled \in Files /\ NoTask \in Files
<1>1. HoldsCopy(c)
  BY DEF SaveTask, WriteTemp, RenameTask, FailSave, HoldsCopy, Saving
<1>2. tool[c].task \in Task /\ tool[c].copy \in TaskFile
  BY <1>1 DEF HarnessInv, CopiesAreOfTasks
<1> QED BY <1>1, <1>2 DEF Files, Broken

\* What a step of a call that saves does to the files.
LEMMA WrittenIs ==
    ASSUME HarnessInv, NEW c \in Tool, tool[c].task \in Task, NEW text \in Files, Written(c, text)
    PROVE  /\ tasks' \in [Task -> Files] /\ temp' \in [Task -> Files]
           /\ \A u \in Task \ {tool[c].task} : tasks'[u] = tasks[u] /\ temp'[u] = temp[u]
           /\ IF tool[c].to = "temp" THEN temp'[tool[c].task] = text ELSE UNCHANGED temp
           /\ IF tool[c].to = "task" THEN tasks'[tool[c].task] = text ELSE UNCHANGED tasks
<1>1. tasks \in [Task -> Files] /\ temp \in [Task -> Files]
  BY DEF HarnessInv, HarnessTypes
<1> HIDE DEF Files
<1> QED BY <1>1 DEF Written

LEMMA RacedTyped ==
    ASSUME HarnessInv, NEW c \in Tool, SaveTask(c) \/ WriteTemp(c) \/ RenameTask(c) \/ FailSave(c)
    PROVE  raced' \in BOOLEAN /\ (raced => raced')
<1>1. raced \in BOOLEAN
  BY DEF HarnessInv, HarnessTypes
<1>2. raced' = raced \/ raced' = (raced \/ c \in stale)
  BY Zenon DEF SaveTask, WriteTemp, RenameTask, FailSave, Written
<1> QED BY <1>1, <1>2, Zenon

LEMMA SaveTyped == ASSUME HarnessBounds, HarnessInv, NEW c \in Tool, SaveTask(c) PROVE HarnessInv'
<1> DEFINE t == tool[c].task
<1>1. t \in Task /\ tool[c].copy \in TaskFile /\ Blank \in Files
  BY SaverIs
<1>2. tool' = [tool EXCEPT ![c].pc = "write"]
  BY DEF SaveTask
<1>3. /\ tool' \in [Tool -> ToolCalls] /\ tool'[c].pc = "write" /\ tool'[c].task = t
      /\ tool'[c].copy = tool[c].copy /\ tool'[c].to = tool[c].to
      /\ \A d \in Tool \ {c} : tool'[d] = tool[d]
  BY <1>2, MovesOn DEF ToolPcs
<1>4. temp' \in [Task -> Files]
  BY <1>1 DEF SaveTask, HarnessInv, HarnessTypes
<1>5. raced' \in BOOLEAN
  BY RacedTyped
<1>6. stale' \subseteq Tool /\ stale \subseteq stale' /\ \A d \in stale' : d \in stale \/ (Saving(d) /\ d # c)
  BY DEF SaveTask, HarnessInv, HarnessTypes
<1>7. CopiesAreOfTasks'
  BY <1>1, <1>3, <1>6 DEF HarnessInv, CopiesAreOfTasks, HoldsCopy, Saving
<1> QED BY <1>3, <1>4, <1>5, <1>6, <1>7 DEF SaveTask, HarnessInv, HarnessTypes

LEMMA WriteTyped == ASSUME HarnessBounds, HarnessInv, NEW c \in Tool, WriteTemp(c) PROVE HarnessInv'
<1> DEFINE t == tool[c].task
<1>1. /\ t \in Task /\ tool[c].copy \in TaskFile /\ HoldsCopy(c)
      /\ tool[c].copy \in Files /\ Mangled \in Files
  BY SaverIs
<1>2. tool' = [tool EXCEPT ![c].pc = "rename"]
  BY DEF WriteTemp
<1>3. /\ tool' \in [Tool -> ToolCalls] /\ tool'[c].pc = "rename" /\ tool'[c].task = t
      /\ tool'[c].copy = tool[c].copy /\ tool'[c].to = tool[c].to
      /\ \A d \in Tool \ {c} : tool'[d] = tool[d]
  BY <1>2, MovesOn DEF ToolPcs
<1>4. temp' \in [Task -> Files] /\ tasks' \in [Task -> Files]
  <2>1. PICK text \in Files : Written(c, text)
    BY <1>1 DEF WriteTemp, Over
  <2> QED BY <1>1, <2>1, WrittenIs
<1>5. raced' \in BOOLEAN
  BY RacedTyped
<1>6. stale' \subseteq Tool /\ stale \subseteq stale' /\ \A d \in stale' : d \in stale \/ (HoldsCopy(d) /\ d # c)
  BY DEF WriteTemp, Readers, HarnessInv, HarnessTypes
<1>7. CopiesAreOfTasks'
  BY <1>1, <1>3, <1>6 DEF HarnessInv, CopiesAreOfTasks, HoldsCopy, Saving
<1> QED BY <1>3, <1>4, <1>5, <1>6, <1>7 DEF WriteTemp, HarnessInv, HarnessTypes

LEMMA FailTyped == ASSUME HarnessBounds, HarnessInv, NEW c \in Tool, FailSave(c) PROVE HarnessInv'
<1> DEFINE t == tool[c].task
<1>1. t \in Task /\ Mangled \in Files
  BY SaverIs
<1>2. /\ tool' \in [Tool -> ToolCalls] /\ tool'[c].pc = "idle" /\ tool'[c].to = "temp"
      /\ \A d \in Tool \ {c} : tool'[d] = tool[d]
  BY GoesTo DEF FailSave, ToolPcs
<1>3. temp' \in [Task -> Files] /\ tasks' \in [Task -> Files]
  <2>1. CASE UNCHANGED <<tasks, temp>>
    BY <2>1 DEF HarnessInv, HarnessTypes
  <2>2. CASE Written(c, Mangled)
    BY <1>1, <2>2, WrittenIs
  <2> QED BY <2>1, <2>2 DEF FailSave
<1>4. raced' \in BOOLEAN
  BY RacedTyped
<1>5. /\ stale' \subseteq Tool /\ c \notin stale' /\ stale \ {c} \subseteq stale'
      /\ \A d \in stale' : d # c /\ (d \in stale \/ HoldsCopy(d))
  BY DEF FailSave, Readers, HarnessInv, HarnessTypes
<1>6. CopiesAreOfTasks'
  BY <1>2, <1>5 DEF HarnessInv, CopiesAreOfTasks, HoldsCopy, Saving
<1> QED BY <1>2, <1>3, <1>4, <1>5, <1>6 DEF FailSave, HarnessInv, HarnessTypes

\* The temporary file is put in place: another call that writes it writes the
\* file of the task from now on.
LEMMA RenameIs ==
    ASSUME HarnessBounds, HarnessInv, NEW c \in Tool, RenameTask(c)
    PROVE  /\ tool' \in [Tool -> ToolCalls] /\ tool'[c] = Idle
           /\ \A d \in Tool \ {c} :
                /\ tool'[d].pc = tool[d].pc /\ tool'[d].task = tool[d].task /\ tool'[d].copy = tool[d].copy
                /\ tool'[d].to # tool[d].to => HoldsCopy(d)
           /\ tasks' \in [Task -> Files] /\ temp' \in [Task -> Files]
           /\ tasks'[tool[c].task] = temp[tool[c].task] /\ temp'[tool[c].task] = NoTask
           /\ \A u \in Task \ {tool[c].task} : tasks'[u] = tasks[u] /\ temp'[u] = temp[u]
<1> DEFINE t == tool[c].task
           Moved(to) == IF to = "temp" THEN "task" ELSE "gone"
           new(o) == [tool[o] EXCEPT !.to = Moved(@)]
<1>1. tool \in [Tool -> ToolCalls] /\ Idle \in ToolCalls /\ t \in Task /\ NoTask \in Files
  BY IdleTyped, SaverIs DEF HarnessInv, HarnessTypes
<1>2. tool' = [o \in Tool |-> IF o = c THEN Idle
                              ELSE IF tool[o].pc = "write" /\ tool[o].task = t THEN new(o) ELSE tool[o]]
  BY DEF RenameTask
<1>3. ASSUME NEW o \in Tool
      PROVE  new(o) \in ToolCalls /\ new(o).pc = tool[o].pc /\ new(o).task = tool[o].task
             /\ new(o).copy = tool[o].copy
  BY <1>1 DEF ToolCalls
<1> HIDE DEF new, Idle
<1>4. tool' \in [Tool -> ToolCalls] /\ tool'[c] = Idle
  BY <1>1, <1>2, <1>3
<1>5. ASSUME NEW d \in Tool \ {c}
      PROVE  /\ tool'[d].pc = tool[d].pc /\ tool'[d].task = tool[d].task /\ tool'[d].copy = tool[d].copy
             /\ tool'[d].to # tool[d].to => HoldsCopy(d)
  BY <1>2, <1>3 DEF HoldsCopy, Saving
<1>6. tasks \in [Task -> Files] /\ temp \in [Task -> Files]
  BY DEF HarnessInv, HarnessTypes
<1>7. tasks' = [tasks EXCEPT ![t] = temp[t]] /\ temp' = [temp EXCEPT ![t] = NoTask]
  BY DEF RenameTask
<1> HIDE DEF Files
<1>8. /\ tasks' \in [Task -> Files] /\ temp' \in [Task -> Files]
      /\ tasks'[t] = temp[t] /\ temp'[t] = NoTask
      /\ \A u \in Task \ {t} : tasks'[u] = tasks[u] /\ temp'[u] = temp[u]
  BY <1>1, <1>6, <1>7
<1> QED BY <1>4, <1>5, <1>8

LEMMA RenameTyped == ASSUME HarnessBounds, HarnessInv, NEW c \in Tool, RenameTask(c) PROVE HarnessInv'
<1>1. /\ tool' \in [Tool -> ToolCalls] /\ tool'[c].pc = "idle" /\ tool'[c].to = "temp"
      /\ \A d \in Tool \ {c} :
           /\ tool'[d].pc = tool[d].pc /\ tool'[d].task = tool[d].task /\ tool'[d].copy = tool[d].copy
           /\ tool'[d].to # tool[d].to => HoldsCopy(d)
      /\ tasks' \in [Task -> Files] /\ temp' \in [Task -> Files]
  BY RenameIs, IdleTyped
<1>2. raced' \in BOOLEAN
  BY RacedTyped
<1>3. /\ stale' \subseteq Tool /\ c \notin stale' /\ stale \ {c} \subseteq stale'
      /\ \A d \in stale' : d # c /\ (d \in stale \/ HoldsCopy(d))
      /\ \A d \in Tool \ {c} : HoldsCopy(d) => d \in stale'
  BY DEF RenameTask, Readers, HarnessInv, HarnessTypes
<1>4. \A d \in Tool \ {c} : HoldsCopy(d)' <=> HoldsCopy(d)
  BY <1>1 DEF HoldsCopy, Saving
<1>5. ~HoldsCopy(c)'
  BY <1>1 DEF HoldsCopy, Saving
<1>6. CopiesAreOfTasks'
  BY <1>1, <1>3, <1>4, <1>5 DEF HarnessInv, CopiesAreOfTasks
<1> QED BY <1>1, <1>2, <1>3, <1>6 DEF RenameTask, HarnessInv, HarnessTypes

LEMMA OutsideTyped == ASSUME HarnessBounds, HarnessInv, ChangeOutside \/ StopHarness PROVE HarnessInv'
<1>1. CASE ChangeOutside
  <2>1. tree' \in 0 .. MaxTree /\ head' \in 0 .. MaxHead /\ outside' \subseteq Task
    BY <1>1 DEF ChangeOutside, HarnessBounds, HarnessInv, HarnessTypes
  <2> QED BY <1>1, <2>1 DEF ChangeOutside, HarnessInv, HarnessTypes, CopiesAreOfTasks, HoldsCopy, Saving
<1>2. CASE StopHarness
  <2>1. tool' = [c \in Tool |-> Idle]
    BY <1>2 DEF StopHarness
  <2>2. tool' \in [Tool -> ToolCalls] /\ \A c \in Tool : tool'[c].pc = "idle" /\ tool'[c].to = "temp"
    <3> HIDE DEF Idle
    <3> QED BY <2>1, IdleTyped
  <2> QED BY <1>2, <2>2 DEF StopHarness, HarnessInv, HarnessTypes, CopiesAreOfTasks, HoldsCopy, Saving
<1> QED BY <1>1, <1>2

LEMMA HarnessTyped == ASSUME HarnessBounds, HarnessInv, [HarnessNext]_(harnessVars) PROVE HarnessInv'
<1>1. CASE UNCHANGED harnessVars
  BY <1>1 DEF harnessVars, HarnessInv, HarnessTypes, CopiesAreOfTasks, HoldsCopy, Saving
<1>2. Asked # {}
  BY DEF Asked
<1> QED
  BY <1>1, <1>2, BeginsTyped, RefuseTyped, RunTyped, CaptureTyped, SaveTyped, WriteTyped, FailTyped,
     RenameTyped, OutsideTyped DEF HarnessNext

-----------------------------------------------------------------------------
\* The files there are of a task, saved, half saved and held by calls.  Each
\* knows at most the files and the head there are; those of a task whose files
\* changed do not know them, and no tool runs under it.
FilesOf(t) == {tasks[t], temp[t]} \cup {tool[c].copy : c \in {d \in Tool : tool[d].task = t}}
Past(f) == f \in TaskFile => (f.head <= head /\ f.expected <= tree)
Behind(f) == f \in TaskFile => (f.head < head \/ f.expected < tree)

FilesArePast == \A t \in Task : \A f \in FilesOf(t) : Past(f)
MarkedIsBehind ==
    \A t \in outside : /\ \A f \in FilesOf(t) : Behind(f)
                       /\ \A c \in Tool : tool[c].task = t => ~ToolInFlight(c)

\* A file is as an earlier one of its task but for its status, or as the
\* files are now, if those of its task have not changed.
Comes(t, f) ==
    \/ f \notin TaskFile
    \/ \E g \in FilesOf(t) \cap TaskFile : g.head = f.head /\ g.expected = f.expected
    \/ t \notin outside' /\ \E g \in FilesOf(t) \cap TaskFile : g.head = f.head /\ f.expected = tree
    \/ t \notin outside' /\ f.head = head /\ f.expected = tree

LEMMA OldComes == ASSUME NEW t, NEW f \in FilesOf(t) PROVE Comes(t, f)
BY DEF Comes

LEMMA EmptyComes ==
    ASSUME HarnessBounds, NEW t PROVE Comes(t, NoTask) /\ Comes(t, Blank) /\ Comes(t, Mangled)
BY DEF Comes, HarnessBounds, Broken

\* A step that changes at most the copy of one call.
LEMMA OneCopyComes ==
    ASSUME HarnessInv, NEW c \in Tool, UNCHANGED <<tasks, temp>>,
           \A d \in Tool \ {c} : tool'[d] = tool[d],
           tool'[c].task \in Task => Comes(tool'[c].task, tool'[c].copy),
           NEW t \in Task, NEW f \in FilesOf(t)'
    PROVE  Comes(t, f)
<1>1. CASE f \in FilesOf(t)
  BY <1>1, OldComes
<1>2. CASE f \notin FilesOf(t)
  BY <1>2 DEF FilesOf
<1> QED BY <1>1, <1>2

LEMMA BeginsComes ==
    ASSUME HarnessBounds, HarnessInv, NEW c \in Tool, NEW t \in Task, NEW next \in Asked,
           StartTask(c, t) \/ UpdateSteps(c, t) \/ Transition(c, t, next),
           NEW u \in Task, NEW f \in FilesOf(u)'
    PROVE  Comes(u, f)
<1>1. PICK copy \in TaskFile :
         /\ ToolGoto(c, "save", t, copy)
         /\ \/ StartTask(c, t) /\ tasks[t] = NoTask /\ copy.head = head /\ copy.expected = tree
            \/ /\ t \in Existing /\ copy.head = tasks[t].head /\ copy.expected = tasks[t].expected
               /\ IsWritable(copy.status) => IsWritable(tasks[t].status)
  BY BeginsWith
<1>2. Comes(t, copy)
  <2>1. CASE StartTask(c, t) /\ copy.head = head /\ copy.expected = tree
    BY <2>1 DEF StartTask, Comes
  <2>2. CASE t \in Existing /\ copy.head = tasks[t].head /\ copy.expected = tasks[t].expected
    BY <2>2, ExistingIs DEF Comes, FilesOf
  <2> QED BY <1>1, <2>1, <2>2
<1>3. /\ tool'[c].task = t /\ tool'[c].copy = copy
      /\ \A d \in Tool \ {c} : tool'[d] = tool[d]
  BY <1>1, GoesTo DEF ToolPcs
<1>4. UNCHANGED <<tasks, temp>>
  BY DEF StartTask, UpdateSteps, Transition
<1> QED BY <1>2, <1>3, <1>4, OneCopyComes

LEMMA RunComes ==
    ASSUME HarnessBounds, HarnessInv, NEW c \in Tool,
           BeginOperation(c) \/ CheckBaseline(c) \/ RunTool(c),
           NEW u \in Task, NEW f \in FilesOf(u)'
    PROVE  Comes(u, f)
<1>1. PICK pc \in ToolPcs, t \in Task \cup {NoTask}, copy \in TaskFile \cup {NoTask} :
         ToolGoto(c, pc, t, copy) /\ (t \in Task => copy \in {NoTask, tasks[t]})
  <2>1. CASE BeginOperation(c)
    BY <2>1 DEF BeginOperation, CurrentTask, Existing, ToolPcs
  <2>2. CASE CheckBaseline(c)
    BY <2>2, ExistingIs DEF CheckBaseline, ToolPcs
  <2>3. CASE RunTool(c)
    BY <2>3, ExistingIs DEF RunTool, ToolPcs
  <2> QED BY <2>1, <2>2, <2>3
<1>2. /\ tool'[c].task = t /\ tool'[c].copy = copy
      /\ \A d \in Tool \ {c} : tool'[d] = tool[d]
  BY <1>1, GoesTo
<1>3. t \in Task => Comes(t, copy)
  BY <1>1, OldComes, EmptyComes DEF FilesOf
<1>4. UNCHANGED <<tasks, temp>>
  BY DEF BeginOperation, CheckBaseline, RunTool
<1> QED BY <1>2, <1>3, <1>4, OneCopyComes

LEMMA CaptureComes ==
    ASSUME HarnessBounds, HarnessInv, MarkedIsBehind, NEW c \in Tool, CaptureTree(c),
           NEW u \in Task, NEW f \in FilesOf(u)'
    PROVE  Comes(u, f)
<1> DEFINE t == tool[c].task
<1>1. PICK copy \in TaskFile :
         /\ ToolGoto(c, "save", t, copy)
         /\ copy.status = tool[c].copy.status /\ copy.head = tool[c].copy.head /\ copy.expected = tree
         /\ t \in Task /\ tool[c].copy \in TaskFile
  BY CaptureIs
<1>2. t \notin outside' /\ tool[c].copy \in FilesOf(t)
  BY <1>1 DEF MarkedIsBehind, CaptureTree, ToolInFlight, FilesOf
<1>3. UNCHANGED <<tasks, temp>>
  BY DEF CaptureTree
<1>4. /\ tool'[c].task = t /\ tool'[c].copy = copy
      /\ \A d \in Tool \ {c} : tool'[d] = tool[d]
  BY <1>1, GoesTo DEF ToolPcs
<1>5. Comes(t, copy)
  BY <1>1, <1>2 DEF Comes
<1> QED BY <1>3, <1>4, <1>5, OneCopyComes

\* A call that saves puts what it holds where it is told, or nothing whole.
LEMMA SaveComes ==
    ASSUME HarnessBounds, HarnessInv, NEW c \in Tool,
           SaveTask(c) \/ WriteTemp(c) \/ RenameTask(c) \/ FailSave(c),
           NEW u \in Task, NEW f \in FilesOf(u)'
    PROVE  Comes(u, f)
<1> DEFINE t == tool[c].task
<1>1. /\ t \in Task /\ tool[c].copy \in FilesOf(t) /\ tool[c].copy \in Files
      /\ Blank \in Files /\ Mangled \in Files
  BY SaverIs DEF FilesOf
<1> DEFINE Old == FilesOf(u) \cup {NoTask, Blank, Mangled}
<1>2. f \in Old => Comes(u, f)
  BY OldComes, EmptyComes
<1>3. ASSUME tasks'[u] \in Old, temp'[u] \in Old,
             \A d \in Tool : tool'[d].task = NoTask \/ (tool'[d].task = tool[d].task /\ tool'[d].copy = tool[d].copy)
      PROVE  f \in Old
  BY <1>3 DEF FilesOf, HarnessBounds
<1> HIDE DEF Old
<1>4. CASE SaveTask(c)
  <2>1. /\ tool'[c].task = t /\ tool'[c].copy = tool[c].copy
        /\ \A d \in Tool \ {c} : tool'[d] = tool[d]
    BY <1>4, MovesOn DEF SaveTask, ToolPcs
  <2>2. tasks' = tasks /\ temp' = [temp EXCEPT ![t] = Blank]
    BY <1>4 DEF SaveTask
  <2>3. tasks'[u] \in Old /\ temp'[u] \in Old
    BY <1>1, <2>2 DEF Old, FilesOf, HarnessInv, HarnessTypes
  <2> QED BY <1>2, <1>3, <2>1, <2>3
<1>5. ASSUME NEW text \in {tool[c].copy, Mangled}, Written(c, text) PROVE tasks'[u] \in Old /\ temp'[u] \in Old
  BY <1>1, <1>5, WrittenIs DEF Old, FilesOf
<1>6. CASE WriteTemp(c)
  <2>1. /\ tool'[c].task = t /\ tool'[c].copy = tool[c].copy
        /\ \A d \in Tool \ {c} : tool'[d] = tool[d]
    BY <1>6, MovesOn DEF WriteTemp, ToolPcs
  <2>2. \E text \in {tool[c].copy, Mangled} : Written(c, text)
    BY <1>6 DEF WriteTemp, Over
  <2> QED BY <1>2, <1>3, <1>5, <2>1, <2>2
<1>7. CASE FailSave(c)
  <2>1. /\ tool'[c].task = NoTask
        /\ \A d \in Tool \ {c} : tool'[d] = tool[d]
    BY <1>7, GoesTo DEF FailSave, ToolPcs
  <2>2. UNCHANGED <<tasks, temp>> \/ Written(c, Mangled)
    BY <1>7 DEF FailSave
  <2>3. UNCHANGED <<tasks, temp>> => tasks'[u] \in Old /\ temp'[u] \in Old
    BY DEF Old, FilesOf
  <2> QED BY <1>2, <1>3, <1>5, <2>1, <2>2, <2>3
<1>8. CASE RenameTask(c)
  <2>1. /\ tool'[c].task = NoTask
        /\ \A d \in Tool \ {c} : tool'[d].task = tool[d].task /\ tool'[d].copy = tool[d].copy
        /\ tasks'[t] = temp[t] /\ temp'[t] = NoTask
        /\ \A w \in Task \ {t} : tasks'[w] = tasks[w] /\ temp'[w] = temp[w]
    BY <1>8, RenameIs, IdleTyped
  <2>2. tasks'[u] \in Old /\ temp'[u] \in Old
    BY <1>1, <2>1 DEF Old, FilesOf
  <2> QED BY <1>2, <1>3, <2>1, <2>2
<1> QED BY <1>4, <1>6, <1>7, <1>8

LEMMA FilesCome ==
    ASSUME HarnessBounds, HarnessInv, MarkedIsBehind, [HarnessNext]_(harnessVars),
           NEW u \in Task, NEW f \in FilesOf(u)'
    PROVE  Comes(u, f)
<1>1. CASE UNCHANGED <<tasks, temp, tool>>
  BY <1>1, OldComes DEF FilesOf
<1>2. CASE StopHarness
  <2>1. \A c \in Tool : tool'[c].task = NoTask
    BY <1>2 DEF StopHarness, Idle
  <2>2. f \in FilesOf(u)
    BY <1>2, <2>1 DEF StopHarness, FilesOf, HarnessBounds
  <2> QED BY <2>2, OldComes
<1>3. Asked # {}
  BY DEF Asked
<1>4. CASE UNCHANGED harnessVars \/ ChangeOutside \/ (\E c \in Tool : RefuseCall(c))
  BY <1>1, <1>4 DEF harnessVars, RefuseCall, ChangeOutside
<1> QED
  BY <1>2, <1>3, <1>4, BeginsComes, RunComes, CaptureComes, SaveComes DEF HarnessNext

LEMMA TreesGrow ==
    ASSUME HarnessBounds, HarnessInv, HarnessInv', [HarnessNext]_(harnessVars)
    PROVE  {tree, head, tree', head'} \subseteq Nat /\ tree' >= tree /\ head' >= head
<1>1. tree \in Nat /\ head \in Nat /\ tree' \in Nat /\ head' \in Nat
  BY DEF HarnessInv, HarnessTypes, HarnessBounds
<1>2. CASE UNCHANGED <<tree, head>>
  BY <1>1, <1>2
<1>3. CASE \E c \in Tool : RunTool(c)
  BY <1>1, <1>3 DEF RunTool
<1>4. CASE ChangeOutside
  BY <1>1, <1>4 DEF ChangeOutside
<1> QED
  BY <1>1, <1>2, <1>3, <1>4
     DEF HarnessNext, StartTask, UpdateSteps, Transition, RefuseCall, BeginOperation, CheckBaseline,
         CaptureTree, SaveTask, WriteTemp, FailSave, RenameTask, StopHarness, harnessVars

\* A task is marked while no tool runs, and the files have changed.
LEMMA NewlyMarked ==
    ASSUME HarnessBounds, HarnessInv, [HarnessNext]_(harnessVars), NEW t \in outside' \ outside
    PROVE  /\ \A c \in Tool : ~ToolInFlight(c)
           /\ UNCHANGED <<tool, tasks, temp>> /\ (tree' > tree \/ head' > head)
<1>1. CASE ChangeOutside
  <2>1. tree \in Nat /\ head \in Nat
    BY DEF HarnessInv, HarnessTypes, HarnessBounds
  <2> QED BY <1>1, <2>1 DEF ChangeOutside
<1>2. CASE ~ChangeOutside
  BY <1>2
     DEF HarnessNext, StartTask, UpdateSteps, Transition, RefuseCall, BeginOperation, CheckBaseline,
         RunTool, CaptureTree, SaveTask, WriteTemp, FailSave, RenameTask, StopHarness, harnessVars
<1> QED BY <1>1, <1>2

\* No tool runs under a marked task.
LEMMA NoneBeginsBehind ==
    ASSUME HarnessBounds, HarnessInv, MarkedIsBehind, [HarnessNext]_(harnessVars),
           NEW t \in outside, NEW c \in Tool, tool'[c].task = t, tool'[c].pc \in {"run", "capture"}
    PROVE  FALSE
<1>1. ~(tool'[c].pc = tool[c].pc /\ tool'[c].task = tool[c].task)
  BY DEF MarkedIsBehind, ToolInFlight
<1>t. t \in Task /\ NoTask # t
  BY DEF HarnessInv, HarnessTypes, HarnessBounds
<1>2. ASSUME NEW d \in Tool, NEW pc \in ToolPcs, NEW u \in Task \cup {NoTask},
             NEW copy \in TaskFile \cup {NoTask}, ToolGoto(d, pc, u, copy)
      PROVE  d = c /\ pc \in {"run", "capture"} /\ u = t
  BY <1>1, <1>2, GoesTo
<1>3. ASSUME NEW d \in Tool, BeginOperation(d) PROVE FALSE
  BY <1>2, <1>3, <1>t DEF BeginOperation, CurrentTask, Existing, ToolPcs
<1>4. ASSUME NEW d \in Tool, CheckBaseline(d) PROVE FALSE
  <2>1. tool[d].task \in Existing /\ Matches(tool[d].task) /\ ToolGoto(d, "run", tool[d].task, NoTask)
    BY <1>2, <1>4, <1>t DEF CheckBaseline, ToolPcs
  <2>2. tool[d].task = t /\ tasks[t] \in TaskFile
    BY <1>2, <2>1, ExistingIs DEF ToolPcs
  <2>3. Behind(tasks[t])
    BY DEF MarkedIsBehind, FilesOf
  <2> QED BY <2>1, <2>2, <2>3 DEF Behind, Matches, HarnessBounds, HarnessInv, HarnessTypes
<1>5. ASSUME NEW d \in Tool, RunTool(d) PROVE FALSE
  <2>1. tool[d].task \in Existing /\ ToolGoto(d, "capture", tool[d].task, tasks[tool[d].task])
    BY <1>2, <1>5, <1>t DEF RunTool, ToolPcs
  <2>2. tool[d].task = t
    BY <1>2, <2>1, ExistingIs DEF ToolPcs
  <2> QED BY <1>5, <2>2 DEF RunTool, MarkedIsBehind, ToolInFlight
<1>6. ASSUME NEW d \in Tool, NEW u \in Task, NEW next \in Asked,
             StartTask(d, u) \/ UpdateSteps(d, u) \/ Transition(d, u, next)
      PROVE  FALSE
  <2>1. \E copy \in TaskFile : ToolGoto(d, "save", u, copy)
    BY <1>6, BeginsWith
  <2> QED BY <1>2, <2>1 DEF ToolPcs
<1>7. ASSUME NEW d \in Tool, CaptureTree(d) PROVE FALSE
  BY <1>2, <1>7, CaptureIs DEF ToolPcs
<1>8. ASSUME NEW d \in Tool, SaveTask(d) \/ WriteTemp(d) PROVE FALSE
  <2>1. PICK pc \in {"write", "rename"} : tool' = [tool EXCEPT ![d].pc = pc]
    BY <1>8 DEF SaveTask, WriteTemp
  <2> QED BY <1>1, <2>1, MovesOn DEF ToolPcs
<1>9. ASSUME NEW d \in Tool, FailSave(d) PROVE FALSE
  BY <1>2, <1>9 DEF FailSave, ToolPcs
<1>10. ASSUME NEW d \in Tool, RenameTask(d) PROVE FALSE
  BY <1>1, <1>10, RenameIs, IdleTyped
<1>11. CASE StopHarness
  BY <1>11 DEF StopHarness, Idle
<1>12. Asked # {} /\ Task # {}
  BY <1>t DEF Asked
<1>13. ~(UNCHANGED tool)
  BY <1>1
<1> QED
  BY <1>3, <1>4, <1>5, <1>6, <1>7, <1>8, <1>9, <1>10, <1>11, <1>12, <1>13
     DEF HarnessNext, RefuseCall, ChangeOutside, harnessVars

LEMMA SeenStep ==
    ASSUME HarnessBounds, HarnessInv, HarnessInv', FilesArePast, MarkedIsBehind,
           [HarnessNext]_(harnessVars)
    PROVE  FilesArePast' /\ MarkedIsBehind'
<1>1. {tree, head, tree', head'} \subseteq Nat /\ tree' >= tree /\ head' >= head
  BY TreesGrow
<1>k. ASSUME NEW t \in Task, NEW g \in FilesOf(t) \cap TaskFile
      PROVE  g.head \in Nat /\ g.expected \in Nat /\ g.head <= head /\ g.expected <= tree
  BY <1>k DEF FilesArePast, Past, TaskFile, HarnessBounds
<1>2. ASSUME NEW t \in Task, NEW f \in FilesOf(t)', f \in TaskFile
      PROVE  f.head \in Nat /\ f.expected \in Nat /\ f.head <= head' /\ f.expected <= tree'
  <2>1. Comes(t, f)
    BY FilesCome
  <2> QED BY <1>1, <1>2, <1>k, <2>1 DEF Comes
<1>3. ASSUME NEW t \in outside', NEW f \in FilesOf(t)', f \in TaskFile
      PROVE  f.head < head' \/ f.expected < tree'
  <2>1. t \in Task
    BY DEF HarnessInv, HarnessTypes
  <2>2. PICK g \in FilesOf(t) \cap TaskFile : g.head = f.head /\ g.expected = f.expected
    BY <1>3, <2>1, FilesCome DEF Comes
  <2>3. g.head \in Nat /\ g.expected \in Nat /\ g.head <= head /\ g.expected <= tree
    BY <1>k, <2>1
  <2>4. CASE t \in outside
    BY <1>1, <2>2, <2>3, <2>4 DEF MarkedIsBehind, Behind
  <2>5. CASE t \notin outside
    BY <1>1, <2>2, <2>3, <2>5, NewlyMarked
  <2> QED BY <2>4, <2>5
<1>4. ASSUME NEW t \in outside', NEW c \in Tool, tool'[c].task = t, tool'[c].pc \in {"run", "capture"}
      PROVE  FALSE
  <2>1. CASE t \in outside
    BY <1>4, <2>1, NoneBeginsBehind
  <2>2. CASE t \notin outside
    BY <1>4, <2>2, NewlyMarked DEF ToolInFlight
  <2> QED BY <2>1, <2>2
<1>5. FilesArePast'
  BY <1>2 DEF FilesArePast, Past
<1>6. MarkedIsBehind'
  BY <1>3, <1>4 DEF MarkedIsBehind, Behind, ToolInFlight
<1> QED BY <1>5, <1>6

-----------------------------------------------------------------------------
\* A copy that no save has overtaken: of a new task while there is no other
\* that may be written, or of one that may be written if the copy may.
IsFresh(c) ==
    LET t == tool[c].task IN
    /\ ~raced /\ t \notin Existing => CurrentTask = {}
    /\ t \in Existing /\ IsWritable(tool[c].copy.status) => IsWritable(tasks[t].status)

\* Of the calls that write the temporary file of a task, one is not overtaken,
\* and what it has written is there, unless an overtaken one is at work too.
Overtaken(t) == \E d \in stale : Saving(d) /\ tool[d].task = t
Unspoilt(c) ==
    LET t == tool[c].task IN
    /\ tool[c].pc = "write" => temp[t] = Blank
    /\ tool[c].pc = "rename" => temp[t] = tool[c].copy

CopiesAreFresh == \A c \in Tool \ stale : HoldsCopy(c) => IsFresh(c)
OneSaves ==
    \A c, d \in Tool \ stale : Saving(c) /\ Saving(d) /\ tool[c].task = tool[d].task => c = d
TempIsKept ==
    \A c \in Tool \ stale : Saving(c) => Unspoilt(c) \/ (raced /\ Overtaken(tool[c].task))
FilesAreWhole == ~raced => /\ \A t \in Task : tasks[t] \notin Broken
                           /\ \A t, u \in CurrentTask : t = u
SavedInv == CopiesAreFresh /\ OneSaves /\ TempIsKept /\ FilesAreWhole

LEMMA FirstSaved == ASSUME HarnessBounds, HarnessInit PROVE SavedInv /\ FilesArePast /\ MarkedIsBehind
<1>1. \A c \in Tool : tool[c].pc = "idle" /\ tool[c].copy = NoTask
  BY IdleTyped DEF HarnessInit
<1>2. \A t \in Task : tasks[t] = NoTask /\ temp[t] = NoTask
  BY DEF HarnessInit
<1>3. outside = {} /\ Existing = {}
  BY <1>2 DEF HarnessInit, Existing
<1>4. SavedInv
  BY <1>1, <1>2, <1>3
     DEF SavedInv, CopiesAreFresh, OneSaves, TempIsKept, FilesAreWhole, HoldsCopy, Saving, CurrentTask,
         HarnessBounds
<1>5. \A t \in Task : \A f \in FilesOf(t) : f \notin TaskFile
  BY <1>1, <1>2 DEF FilesOf, HarnessBounds
<1> QED BY <1>3, <1>4, <1>5 DEF FilesArePast, Past, MarkedIsBehind

\* Tasks and saves as they were, and one call with another copy.
LEMMA AsideSaved ==
    ASSUME HarnessBounds, HarnessInv, SavedInv, NEW c \in Tool, StepsAside(c), ~Saving(c),
           UNCHANGED <<tasks, temp, stale>>, raced => raced',
           c \notin stale /\ HoldsCopy(c)' => IsFresh(c)'
    PROVE  SavedInv'
<1>1. /\ tool'[c].pc \in {"idle", "check", "run", "capture", "save"}
      /\ \A d \in Tool \ {c} : tool'[d] = tool[d]
  BY GoesTo DEF StepsAside, ToolPcs
<1>2. CurrentTask' = CurrentTask /\ Existing' = Existing
  BY DEF CurrentTask, Existing
<1>3. ~Saving(c)' /\ \A d \in Tool \ {c} : (Saving(d)' <=> Saving(d)) /\ (HoldsCopy(d)' <=> HoldsCopy(d))
  BY <1>1 DEF Saving, HoldsCopy
<1>4. CopiesAreFresh'
  BY <1>1, <1>2, <1>3 DEF SavedInv, CopiesAreFresh, IsFresh
<1>5. OneSaves'
  BY <1>1, <1>3 DEF SavedInv, OneSaves
<1>6. ASSUME NEW d \in Tool \ stale, Saving(d)' PROVE Unspoilt(d)' \/ (raced' /\ Overtaken(tool[d].task)')
  <2>1. d # c /\ tool'[d] = tool[d]
    BY <1>1, <1>3, <1>6
  <2>2. Unspoilt(d) \/ (raced /\ Overtaken(tool[d].task))
    BY <1>3, <1>6, <2>1 DEF SavedInv, TempIsKept
  <2>3. Unspoilt(d) => Unspoilt(d)'
    BY <2>1 DEF Unspoilt
  <2>4. Overtaken(tool[d].task) => Overtaken(tool[d].task)'
    BY <1>1, <1>3, <2>1 DEF Overtaken, HarnessInv, HarnessTypes
  <2> QED BY <2>2, <2>3, <2>4
<1>7. TempIsKept'
  BY <1>6 DEF TempIsKept
<1>8. FilesAreWhole'
  BY <1>2 DEF SavedInv, FilesAreWhole
<1> QED BY <1>4, <1>5, <1>7, <1>8 DEF SavedInv

LEMMA BeginsSaved ==
    ASSUME HarnessBounds, HarnessInv, SavedInv, NEW c \in Tool, NEW t \in Task, NEW next \in Asked,
           StartTask(c, t) \/ UpdateSteps(c, t) \/ Transition(c, t, next)
    PROVE  SavedInv'
<1>1. PICK copy \in TaskFile :
         /\ ToolGoto(c, "save", t, copy)
         /\ \/ StartTask(c, t) /\ tasks[t] = NoTask /\ copy.head = head /\ copy.expected = tree
            \/ /\ t \in Existing /\ copy.head = tasks[t].head /\ copy.expected = tasks[t].expected
               /\ IsWritable(copy.status) => IsWritable(tasks[t].status)
  BY BeginsWith
<1>2. tool'[c].task = t /\ tool'[c].copy = copy
  BY <1>1, GoesTo DEF ToolPcs
<1>3. UNCHANGED <<tasks, temp, stale>> /\ ~Saving(c)
  BY DEF StartTask, UpdateSteps, Transition, Called, Saving
<1>4. raced => raced'
  BY Zenon DEF StartTask, UpdateSteps, Transition
<1>5. CurrentTask' = CurrentTask /\ Existing' = Existing
  BY <1>3 DEF CurrentTask, Existing
<1>6. IsFresh(c)'
  <2>1. CASE StartTask(c, t) /\ tasks[t] = NoTask
    <3>1. t \notin Existing
      BY <2>1 DEF Existing
    <3>2. ~raced' => CurrentTask = {}
      BY <2>1, Zenon DEF StartTask
    <3> QED BY <1>2, <1>5, <3>1, <3>2 DEF IsFresh
  <2>2. CASE t \in Existing /\ (IsWritable(copy.status) => IsWritable(tasks[t].status))
    BY <1>2, <1>3, <1>5, <2>2 DEF IsFresh
  <2> QED BY <1>1, <2>1, <2>2
<1>7. StepsAside(c)
  BY <1>1 DEF StepsAside
<1> QED BY <1>3, <1>4, <1>6, <1>7, AsideSaved

LEMMA RunSaved ==
    ASSUME HarnessBounds, HarnessInv, SavedInv, NEW c \in Tool,
           BeginOperation(c) \/ CheckBaseline(c) \/ RunTool(c)
    PROVE  SavedInv'
<1>1. StepsAside(c) /\ c \notin stale /\ ~Saving(c)
  BY RunTyped DEF BeginOperation, CheckBaseline, RunTool, Called, Saving
<1>2. UNCHANGED <<tasks, temp, stale, raced>>
  BY DEF BeginOperation, CheckBaseline, RunTool
<1>3. CurrentTask' = CurrentTask /\ Existing' = Existing
  BY <1>2 DEF CurrentTask, Existing
<1>4. ASSUME HoldsCopy(c)' PROVE IsFresh(c)'
  <2>1. ASSUME NEW pc \in {"idle", "check", "run"}, NEW t \in Task \cup {NoTask}, ToolGoto(c, pc, t, NoTask)
        PROVE  FALSE
    BY <1>4, <2>1, GoesTo DEF ToolPcs, HoldsCopy, Saving
  <2>2. \A t \in Existing : t \in Task \cup {NoTask}
    BY ExistingIs
  <2>3. ~BeginOperation(c) /\ ~CheckBaseline(c) /\ ~ToolGoto(c, "idle", NoTask, NoTask)
    BY <2>1, <2>2 DEF BeginOperation, CheckBaseline, CurrentTask
  <2>4. tool[c].task \in Existing /\ ToolGoto(c, "capture", tool[c].task, tasks[tool[c].task])
    BY <2>3 DEF RunTool
  <2>5. tool'[c].task = tool[c].task /\ tool'[c].copy = tasks[tool[c].task]
    BY <2>4, ExistingIs, GoesTo DEF ToolPcs
  <2> QED BY <1>2, <1>3, <2>4, <2>5 DEF IsFresh
<1> QED BY <1>1, <1>2, <1>4, AsideSaved

LEMMA CaptureSaved ==
    ASSUME HarnessBounds, HarnessInv, SavedInv, NEW c \in Tool, CaptureTree(c) PROVE SavedInv'
<1>1. PICK copy \in TaskFile :
         /\ ToolGoto(c, "save", tool[c].task, copy)
         /\ copy.status = tool[c].copy.status /\ copy.head = tool[c].copy.head /\ copy.expected = tree
         /\ tool[c].task \in Task /\ tool[c].copy \in TaskFile
  BY CaptureIs
<1>2. UNCHANGED <<tasks, temp, stale, raced>> /\ ~Saving(c) /\ HoldsCopy(c)
  BY DEF CaptureTree, Saving, HoldsCopy
<1>3. CurrentTask' = CurrentTask /\ Existing' = Existing
  BY <1>2 DEF CurrentTask, Existing
<1>4. tool'[c].task = tool[c].task /\ tool'[c].copy = copy
  BY <1>1, GoesTo DEF ToolPcs
<1>5. c \notin stale => IsFresh(c)'
  BY <1>1, <1>2, <1>3, <1>4 DEF SavedInv, CopiesAreFresh, IsFresh
<1>6. StepsAside(c)
  BY <1>1 DEF StepsAside
<1> QED BY <1>2, <1>5, <1>6, AsideSaved

\* The temporary file is emptied, and those that had it are overtaken.
LEMMA SaveSaved ==
    ASSUME HarnessBounds, HarnessInv, SavedInv, NEW c \in Tool, SaveTask(c) PROVE SavedInv'
<1> DEFINE t == tool[c].task
<1>1. t \in Task /\ tool[c].pc = "save"
  BY SaverIs DEF SaveTask
<1>2. /\ tool'[c].pc = "write" /\ tool'[c].task = t /\ tool'[c].copy = tool[c].copy
      /\ \A d \in Tool \ {c} : tool'[d] = tool[d]
  BY MovesOn DEF SaveTask, ToolPcs
<1>3. /\ tasks' = tasks /\ temp'[t] = Blank /\ \A u \in Task \ {t} : temp'[u] = temp[u]
      /\ stale' = stale \cup {o \in Tool \ {c} : Saving(o) /\ tool[o].task = t}
  BY <1>1 DEF SaveTask, HarnessInv, HarnessTypes
<1>4. raced => raced'
  BY RacedTyped
<1>5. CurrentTask' = CurrentTask /\ Existing' = Existing
  BY <1>3 DEF CurrentTask, Existing
<1>6. /\ HoldsCopy(c) /\ Saving(c)' /\ ~Saving(c)
      /\ \A d \in Tool \ {c} : (Saving(d)' <=> Saving(d)) /\ (HoldsCopy(d)' <=> HoldsCopy(d))
  BY <1>1, <1>2 DEF HoldsCopy, Saving
<1>7. CopiesAreFresh'
  <2> SUFFICES ASSUME NEW d \in Tool, d \notin stale', HoldsCopy(d)' PROVE IsFresh(d)'
    BY DEF CopiesAreFresh
  <2>1. IsFresh(d)
    BY <1>3, <1>6 DEF SavedInv, CopiesAreFresh
  <2> QED BY <1>2, <1>3, <1>4, <1>5, <2>1 DEF IsFresh
<1>8. ASSUME NEW d \in Tool, d \notin stale', Saving(d)', d # c
      PROVE  /\ tool'[d] = tool[d] /\ tool[d].task \in Task /\ tool[d].task # t /\ Saving(d) /\ d \notin stale
  BY <1>2, <1>3, <1>6, <1>8 DEF HarnessInv, CopiesAreOfTasks, HoldsCopy
<1>9. OneSaves'
  <2> SUFFICES ASSUME NEW d \in Tool, NEW e \in Tool, d \notin stale', e \notin stale', Saving(d)', Saving(e)',
                      tool'[d].task = tool'[e].task
               PROVE  d = e
    BY DEF OneSaves
  <2> QED BY <1>2, <1>8 DEF SavedInv, OneSaves
<1>10. TempIsKept'
  <2> SUFFICES ASSUME NEW d \in Tool, d \notin stale', Saving(d)'
               PROVE  Unspoilt(d)' \/ (raced' /\ Overtaken(tool[d].task)')
    BY DEF TempIsKept
  <2>1. CASE d = c
    BY <1>2, <1>3, <2>1 DEF Unspoilt
  <2>2. CASE d # c
    <3>1. Unspoilt(d) => Unspoilt(d)'
      BY <1>3, <1>8, <2>2 DEF Unspoilt
    <3>2. ASSUME Overtaken(tool[d].task) PROVE Overtaken(tool[d].task)'
      <4>1. PICK e \in stale : Saving(e) /\ tool[e].task = tool[d].task
        BY <3>2 DEF Overtaken
      <4> QED BY <1>2, <1>3, <1>6, <1>8, <2>2, <4>1 DEF Overtaken, HarnessInv, HarnessTypes
    <3>3. Unspoilt(d) \/ (raced /\ Overtaken(tool[d].task))
      BY <1>8, <2>2 DEF SavedInv, TempIsKept
    <3> QED BY <1>4, <3>1, <3>2, <3>3
  <2> QED BY <2>1, <2>2
<1>11. FilesAreWhole'
  BY <1>3, <1>4, <1>5 DEF SavedInv, FilesAreWhole
<1> QED BY <1>7, <1>9, <1>10, <1>11 DEF SavedInv

\* Of the files of the tasks, a call that is not overtaken writes none.
LEMMA WriteSaved ==
    ASSUME HarnessBounds, HarnessInv, SavedInv, NEW c \in Tool, WriteTemp(c) PROVE SavedInv'
<1> DEFINE t == tool[c].task
<1>1. t \in Task /\ tool[c].pc = "write" /\ tool[c].copy \in Files /\ Mangled \in Files
  BY SaverIs DEF WriteTemp
<1>2. /\ tool'[c].pc = "rename" /\ tool'[c].task = t /\ tool'[c].copy = tool[c].copy
      /\ \A d \in Tool \ {c} : tool'[d] = tool[d]
  BY MovesOn DEF WriteTemp, ToolPcs
<1>3. /\ stale \subseteq stale' /\ stale' \subseteq Tool /\ (c \in stale' <=> c \in stale)
      /\ tool[c].to = "task" => \A d \in Tool \ {c} : HoldsCopy(d) => d \in stale'
      /\ tool[c].to # "temp" => c \in stale
  BY DEF WriteTemp, Readers, HarnessInv, HarnessTypes, CopiesAreOfTasks
<1>4. (raced => raced') /\ (c \in stale => raced')
  BY Zenon DEF WriteTemp, Written
<1>5. PICK text \in {tool[c].copy, Mangled} :
         /\ Written(c, text)
         /\ tool[c].to = "temp" /\ temp[t] = Blank => text = tool[c].copy
  BY DEF WriteTemp, Over
<1>6. /\ \A u \in Task \ {t} : tasks'[u] = tasks[u] /\ temp'[u] = temp[u]
      /\ IF tool[c].to = "temp" THEN temp'[t] = text ELSE UNCHANGED temp
      /\ IF tool[c].to = "task" THEN tasks'[t] = text ELSE UNCHANGED tasks
  BY <1>1, <1>5, WrittenIs
<1>7. /\ HoldsCopy(c) /\ Saving(c)' /\ Saving(c)
      /\ \A d \in Tool \ {c} : (Saving(d)' <=> Saving(d)) /\ (HoldsCopy(d)' <=> HoldsCopy(d))
  BY <1>1, <1>2 DEF HoldsCopy, Saving
<1>8. CopiesAreFresh'
  <2> SUFFICES ASSUME NEW d \in Tool, d \notin stale', HoldsCopy(d)' PROVE IsFresh(d)'
    BY DEF CopiesAreFresh
  <2>1. IsFresh(d)
    BY <1>3, <1>7 DEF SavedInv, CopiesAreFresh
  <2>2. UNCHANGED tasks
    BY <1>3, <1>6, <1>7
  <2>3. CurrentTask' = CurrentTask /\ Existing' = Existing
    BY <2>2 DEF CurrentTask, Existing
  <2> QED BY <1>2, <1>4, <2>1, <2>2, <2>3 DEF IsFresh
<1>9. OneSaves'
  BY <1>2, <1>3, <1>7 DEF SavedInv, OneSaves
<1>10. TempIsKept'
  <2> SUFFICES ASSUME NEW d \in Tool, d \notin stale', Saving(d)'
               PROVE  Unspoilt(d)' \/ (raced' /\ Overtaken(tool[d].task)')
    BY DEF TempIsKept
  <2>1. d \notin stale /\ Saving(d) /\ tool'[d].task = tool[d].task
    BY <1>2, <1>3, <1>7
  <2>2. Unspoilt(d) \/ (raced /\ Overtaken(tool[d].task))
    BY <2>1 DEF SavedInv, TempIsKept
  <2>3. ASSUME Overtaken(tool[d].task) PROVE Overtaken(tool[d].task)'
    <3>1. PICK e \in stale : Saving(e) /\ tool[e].task = tool[d].task
      BY <2>3 DEF Overtaken
    <3> QED BY <1>2, <1>3, <1>7, <2>1, <3>1 DEF Overtaken, HarnessInv, HarnessTypes
  <2>4. CASE d = c /\ Unspoilt(d)
    <3>1. tool[c].to = "temp" /\ temp[t] = Blank
      BY <1>1, <1>3, <2>1, <2>4 DEF Unspoilt
    <3> QED BY <1>2, <1>5, <1>6, <2>4, <3>1 DEF Unspoilt
  <2>5. CASE d # c /\ Unspoilt(d) /\ tool[d].task # t
    <3>1. tool[d].task \in Task
      BY <2>1 DEF HarnessInv, CopiesAreOfTasks, HoldsCopy
    <3> QED BY <1>2, <1>6, <2>5, <3>1 DEF Unspoilt
  <2>6. CASE d # c /\ tool[d].task = t
    <3>1. c \in stale
      BY <1>7, <2>1, <2>6 DEF SavedInv, OneSaves
    <3> QED BY <1>2, <1>3, <1>4, <1>7, <2>1, <2>6, <3>1 DEF Overtaken
  <2> QED BY <1>4, <2>2, <2>3, <2>4, <2>5, <2>6
<1>11. FilesAreWhole'
  <2> SUFFICES ASSUME ~raced' PROVE (\A u \in Task : tasks'[u] \notin Broken) /\ (\A u, w \in CurrentTask' : u = w)
    BY DEF FilesAreWhole
  <2>1. UNCHANGED tasks /\ ~raced
    BY <1>3, <1>4, <1>6
  <2>2. CurrentTask' = CurrentTask
    BY <2>1 DEF CurrentTask, Existing
  <2> QED BY <2>1, <2>2 DEF SavedInv, FilesAreWhole
<1> QED BY <1>8, <1>9, <1>10, <1>11 DEF SavedInv

\* The step of a call that is done with, well or not: no copy is fresh after it.
LEMMA LastSaved ==
    ASSUME HarnessInv, NEW c \in Tool, ~HoldsCopy(c)', FilesAreWhole',
           \A d \in Tool \ {c} : HoldsCopy(d)' => d \in stale'
    PROVE  SavedInv'
<1>1. \A d \in Tool : d \notin stale' => ~HoldsCopy(d)' /\ ~Saving(d)'
  BY DEF HoldsCopy
<1> QED BY <1>1 DEF SavedInv, CopiesAreFresh, OneSaves, TempIsKept

LEMMA FailSaved ==
    ASSUME HarnessBounds, HarnessInv, SavedInv, NEW c \in Tool, FailSave(c) PROVE SavedInv'
<1> DEFINE t == tool[c].task
<1>1. t \in Task /\ Mangled \in Files
  BY SaverIs
<1>2. tool'[c].pc = "idle" /\ \A d \in Tool \ {c} : tool'[d] = tool[d]
  BY GoesTo DEF FailSave, ToolPcs
<1>3. ~HoldsCopy(c)' /\ \A d \in Tool \ {c} : HoldsCopy(d)' => d \in stale'
  BY <1>2 DEF FailSave, Readers, HoldsCopy, Saving
<1>4. CASE UNCHANGED <<tasks, raced>>
  <2>1. CurrentTask' = CurrentTask
    BY <1>4 DEF CurrentTask, Existing
  <2> QED BY <1>3, <1>4, <2>1, LastSaved DEF SavedInv, FilesAreWhole
<1>5. CASE Written(c, Mangled)
  <2>1. (raced => raced') /\ (c \in stale => raced')
    BY <1>5, Zenon DEF Written
  <2>2. tool[c].to # "temp" => c \in stale
    BY DEF HarnessInv, CopiesAreOfTasks
  <2>3. tool[c].to = "task" \/ UNCHANGED tasks
    BY <1>1, <1>5, WrittenIs
  <2>4. UNCHANGED tasks => CurrentTask' = CurrentTask
    BY DEF CurrentTask, Existing
  <2>5. FilesAreWhole'
    BY <2>1, <2>2, <2>3, <2>4 DEF SavedInv, FilesAreWhole
  <2> QED BY <1>3, <2>5, LastSaved
<1> QED BY <1>4, <1>5 DEF FailSave

\* What a call that is not overtaken puts in place is the copy it holds.
LEMMA PutsItsCopy ==
    ASSUME HarnessInv, SavedInv, NEW c \in Tool, RenameTask(c), c \notin stale,
           ~raced \/ ~Overtaken(tool[c].task)
    PROVE  IsFresh(c) /\ temp[tool[c].task] = tool[c].copy /\ tool[c].copy \in TaskFile
<1>1. tool[c].pc = "rename" /\ Saving(c) /\ HoldsCopy(c)
  BY DEF RenameTask, Saving, HoldsCopy
<1>2. Unspoilt(c)
  BY <1>1 DEF SavedInv, TempIsKept
<1> QED BY <1>1, <1>2, SaverIs DEF SavedInv, CopiesAreFresh, Unspoilt

LEMMA RenameSaved ==
    ASSUME HarnessBounds, HarnessInv, SavedInv, NEW c \in Tool, RenameTask(c) PROVE SavedInv'
<1> DEFINE t == tool[c].task
<1>1. t \in Task
  BY SaverIs
<1>2. /\ tool'[c].pc = "idle"
      /\ \A d \in Tool \ {c} : tool'[d].pc = tool[d].pc
      /\ tasks'[t] = temp[t]
      /\ \A u \in Task \ {t} : tasks'[u] = tasks[u]
  BY RenameIs, IdleTyped
<1>3. ~HoldsCopy(c)' /\ \A d \in Tool \ {c} : HoldsCopy(d)' => d \in stale'
  BY <1>2 DEF RenameTask, Readers, HoldsCopy, Saving
<1>4. ~raced' => c \notin stale /\ ~raced
  BY Zenon DEF RenameTask
<1>5. ASSUME ~raced' PROVE (\A u \in Task : tasks'[u] \notin Broken) /\ (\A u, w \in CurrentTask' : u = w)
  <2>1. c \notin stale /\ ~raced /\ (\A u \in Task : tasks[u] \notin Broken) /\ (\A u, w \in CurrentTask : u = w)
    BY <1>4, <1>5 DEF SavedInv, FilesAreWhole
  <2>2. IsFresh(c) /\ temp[t] = tool[c].copy /\ tool[c].copy \in TaskFile
    BY <2>1, PutsItsCopy
  <2>3. tasks'[t] \notin Broken
    BY <1>2, <2>2 DEF HarnessBounds
  <2>4. \A u \in Task : tasks'[u] \notin Broken
    BY <1>2, <2>1, <2>3
  <2>5. CurrentTask' \subseteq CurrentTask \cup {t}
    BY <1>2 DEF CurrentTask, Existing
  <2>6. CASE t \in CurrentTask'
    <3>1. IsWritable(tool[c].copy.status)
      BY <1>2, <2>2, <2>6 DEF CurrentTask
    <3>2. CASE t \in Existing
      <4>1. t \in CurrentTask
        BY <2>2, <3>1, <3>2 DEF IsFresh, CurrentTask
      <4> QED BY <2>1, <2>4, <2>5, <4>1
    <3>3. CASE t \notin Existing
      <4>1. CurrentTask = {}
        BY <2>1, <2>2, <3>3 DEF IsFresh
      <4> QED BY <2>4, <2>5, <4>1
    <3> QED BY <3>2, <3>3
  <2>7. CASE t \notin CurrentTask'
    BY <2>1, <2>4, <2>5, <2>7
  <2> QED BY <2>6, <2>7
<1>6. FilesAreWhole'
  BY <1>5 DEF FilesAreWhole
<1> QED BY <1>3, <1>6, LastSaved

LEMMA SavedStep ==
    ASSUME HarnessBounds, HarnessInv, SavedInv, [HarnessNext]_(harnessVars) PROVE SavedInv'
<1>1. CASE UNCHANGED <<tasks, temp, tool, stale, raced>>
  <2>1. CurrentTask' = CurrentTask /\ Existing' = Existing
    BY <1>1 DEF CurrentTask, Existing
  <2>2. \A d \in Tool : (HoldsCopy(d)' <=> HoldsCopy(d)) /\ (Saving(d)' <=> Saving(d))
                        /\ (Unspoilt(d)' <=> Unspoilt(d)) /\ (IsFresh(d)' <=> IsFresh(d))
    BY <1>1, <2>1 DEF HoldsCopy, Saving, Unspoilt, IsFresh
  <2>3. \A t : Overtaken(t)' <=> Overtaken(t)
    BY <1>1 DEF Overtaken, Saving
  <2>4. CopiesAreFresh' /\ OneSaves'
    BY <1>1, <2>2 DEF SavedInv, CopiesAreFresh, OneSaves
  <2>5. TempIsKept'
    BY <1>1, <2>2, <2>3 DEF SavedInv, TempIsKept
  <2>6. FilesAreWhole'
    BY <1>1, <2>1 DEF SavedInv, FilesAreWhole
  <2> QED BY <2>4, <2>5, <2>6 DEF SavedInv
<1>2. CASE UNCHANGED harnessVars \/ ChangeOutside \/ (\E c \in Tool : RefuseCall(c))
  BY <1>1, <1>2 DEF harnessVars, RefuseCall, ChangeOutside
<1>3. CASE StopHarness
  <2>1. \A c \in Tool : tool'[c].pc = "idle"
    BY <1>3, IdleTyped DEF StopHarness
  <2>2. CurrentTask' = CurrentTask /\ UNCHANGED <<tasks, raced>>
    BY <1>3 DEF StopHarness, CurrentTask, Existing
  <2>3. \A c \in Tool : ~HoldsCopy(c)' /\ ~Saving(c)'
    BY <2>1 DEF HoldsCopy, Saving
  <2> QED
    BY <2>2, <2>3 DEF SavedInv, CopiesAreFresh, OneSaves, TempIsKept, FilesAreWhole
<1>4. Asked # {}
  BY DEF Asked
<1> QED
  BY <1>2, <1>3, <1>4, BeginsSaved, RunSaved, CaptureSaved, SaveSaved, WriteSaved, FailSaved, RenameSaved
     DEF HarnessNext

LEMMA EndsStay ==
    ASSUME HarnessBounds, HarnessInv, SavedInv, [HarnessNext]_(harnessVars) PROVE EndIsFinal
<1> SUFFICES ASSUME NEW u \in Task, Finished(u), \A d \in stale : tool[d].task # u
             PROVE  Finished(u)'
  BY DEF EndIsFinal
<1>2. ASSUME NEW c \in Tool, RenameTask(c) PROVE Finished(u)'
  <2> DEFINE t == tool[c].task
  <2>1. tasks'[t] = temp[t] /\ \A w \in Task \ {t} : tasks'[w] = tasks[w]
    BY <1>2, RenameIs
  <2>2. CASE u # t
    BY <2>1, <2>2 DEF Finished, Existing
  <2>3. CASE u = t
    <3>1. c \notin stale /\ ~Overtaken(t)
      BY <2>3 DEF Overtaken
    <3>2. IsFresh(c) /\ temp[t] = tool[c].copy /\ tool[c].copy \in TaskFile
      BY <1>2, <3>1, PutsItsCopy
    <3>3. ~IsWritable(tool[c].copy.status)
      BY <2>3, <3>2 DEF IsFresh, Finished
    <3> QED BY <2>1, <2>3, <3>2, <3>3 DEF Finished, Existing, HarnessBounds
  <2> QED BY <2>2, <2>3
<1>3. ASSUME NEW c \in Tool, WriteTemp(c) \/ FailSave(c) PROVE Finished(u)'
  <2> DEFINE t == tool[c].task
  <2>1. t \in Task /\ tool[c].copy \in Files /\ Mangled \in Files
    BY <1>3, SaverIs
  <2>2. UNCHANGED tasks \/ \E text \in {tool[c].copy, Mangled} : Written(c, text)
    BY <1>3 DEF WriteTemp, FailSave, Over
  <2>3. UNCHANGED tasks \/ (tool[c].to = "task" /\ \A w \in Task \ {t} : tasks'[w] = tasks[w])
    BY <2>1, <2>2, WrittenIs
  <2>4. tool[c].to = "task" => u # t
    BY DEF HarnessInv, CopiesAreOfTasks
  <2> QED BY <2>3, <2>4 DEF Finished, Existing
<1>4. CASE UNCHANGED tasks
  BY <1>4 DEF Finished, Existing
<1> QED
  BY <1>2, <1>3, <1>4
     DEF HarnessNext, StartTask, UpdateSteps, Transition, RefuseCall, BeginOperation, CheckBaseline,
         RunTool, CaptureTree, SaveTask, ChangeOutside, StopHarness, harnessVars

LEMMA SeenOutside ==
    ASSUME HarnessBounds, HarnessInv, MarkedIsBehind, [HarnessNext]_(harnessVars) PROVE OutsideIsSeen
<1> SUFFICES ASSUME NEW c \in Tool, tool'[c].pc = "run", tool'[c].task \in outside PROVE FALSE
  BY DEF OutsideIsSeen
<1> QED BY NoneBeginsBehind

LEMMA OneIsCurrent == ASSUME SavedInv PROVE OneTask
<1> SUFFICES ASSUME ~raced PROVE Cardinality(CurrentTask) <= 1 /\ \A t \in Task : tasks[t] \notin Broken
  BY DEF OneTask
<1>1. CASE CurrentTask = {}
  BY <1>1, FS_EmptySet DEF SavedInv, FilesAreWhole
<1>2. CASE CurrentTask # {}
  <2>1. PICK t \in CurrentTask : TRUE
    BY <1>2
  <2>2. CurrentTask = {t}
    BY <2>1 DEF SavedInv, FilesAreWhole
  <2>3. Cardinality({t}) = 1
    BY FS_Singleton
  <2> QED BY <2>2, <2>3 DEF SavedInv, FilesAreWhole
<1> QED BY <1>1, <1>2
=============================================================================
