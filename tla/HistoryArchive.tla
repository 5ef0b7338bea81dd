---------------------------- MODULE HistoryArchive ----------------------------
(***************************************************************************)
(* The session archive of a workspace (tools/history, session/memory.rs):  *)
(* numbered Markdown files that only grow, and derived files that are      *)
(* rebuilt from them: index.json, memory/manifest.json and                 *)
(* memory/state.json.  Writers hold an exclusive lock on the directory;    *)
(* search and read take no lock; every file is replaced by a rename, so it *)
(* is seen whole.  A derived file is represented by the archive it was     *)
(* built from, a revision (a digest) by what it digests.  A state.json     *)
(* that is gone or cannot be read counts as none for every writer.         *)
(***************************************************************************)
EXTENDS Naturals, FiniteSets, Sequences, SequencesExt

CONSTANTS HCaller,    \* tool calls that may be in progress at once
          NoCaller,
          Key,        \* session keys
          Turn,       \* turn ids a client may give
          Text,       \* what a user said, after redaction
          NoText,     \* an argument that was left out
          MaxFile, MaxRecord, MaxFileEdit, MaxProvider, MaxCall, \* bounds of the instance
          PageBytes   \* the max_bytes of the reader

\* NoCaller is no caller, and the bounds are numbers.
HistoryBounds == /\ NoCaller \notin HCaller
                 /\ MaxFile \in Nat /\ MaxRecord \in Nat /\ MaxProvider \in Nat /\ PageBytes \in Nat

ASSUME HistoryAssumption == HistoryBounds

VARIABLES files,      \* the numbered Markdown files: [numbers -> documents]
          providers,  \* the provider checkpoint files that can be parsed
          manifest,   \* the archive memory/manifest.json was built from
          state,      \* memory/state.json
          lock,       \* who holds .history.lock
          hcall,      \* [HCaller -> the call in progress]
          answered,   \* checkpoints reported as saved, of files nobody removed
          reader,     \* a client that reads one file page by page
          search,     \* one search: in progress, or its result
          edits,      \* changes made by hand, or by a switch of branches, and
                      \* reads of state.json that failed
          begun       \* how many calls have arrived

hvars == <<files, providers, manifest, state, lock, hcall, answered, reader, search, edits, begun>>
written == <<files, providers, manifest, state>>

NoArchive == [n \in {} |-> 0]
Nobody == [op |-> "none", pc |-> "idle", key |-> NoText, turn |-> NoText,
           text |-> NoText, create |-> TRUE, path |-> 0, seen |-> NoArchive,
           with |-> 0, current |-> 0]
NoReader == [path |-> 0, doc |-> {}, cursor |-> 0, got |-> <<>>]
NoSearch == [pc |-> "idle", word |-> NoText, left |-> {}, docs |-> NoArchive, held |-> {},
             hits |-> {}]
NoState == [revision |-> 0, current |-> 0, focus |-> NoText]

HistoryInit ==
    /\ files = NoArchive
    /\ providers = 0
    /\ manifest = <<NoArchive, 0>>
    /\ state = NoState
    /\ lock = NoCaller
    /\ hcall = [c \in HCaller |-> Nobody]
    /\ answered = {}
    /\ reader = NoReader /\ search = NoSearch
    /\ edits = 0 /\ begun = 0

-----------------------------------------------------------------------------
(* What scan reports of the files.                                          *)
Latest(f) == IF DOMAIN f = {} THEN 0 ELSE CHOOSE n \in DOMAIN f : \A k \in DOMAIN f : k <= n
Missing(f) == (1 .. Latest(f)) \ DOMAIN f
Of(f, k) == {n \in DOMAIN f : f[n].key = k}
Ambiguous(f) == \E k \in Key : Cardinality(Of(f, k)) > 1
Put(f, n, doc) == [k \in DOMAIN f \cup {n} |-> IF k = n THEN doc ELSE f[k]]

(* The records of a document: a turn reported again with other content is a *)
(* revision of it.                                                          *)
OfTurn(doc, t) == {i \in DOMAIN doc.records : doc.records[i].turn = t}
LatestOf(doc, t) == LET R == {doc.records[i].revision : i \in OfTurn(doc, t)}
                    IN IF R = {} THEN 0 ELSE CHOOSE r \in R : \A s \in R : s <= r
Known(doc, t, x) == \E i \in OfTurn(doc, t) : doc.records[i].text = x

\* Mutant of NextRevision: every record is the first of its turn.
NextRevisionFirst(doc, t) == 1

NextRevision(doc, t) == LatestOf(doc, t) + 1

\* What the user last said, as state.json shows it: the record with the
\* highest revision of all turns, the last of them in the file.
Focus(f, n) ==
    IF n \notin DOMAIN f THEN NoText ELSE
    LET r == f[n].records  a == f[n].initial
        Top == {i \in DOMAIN r : \A j \in DOMAIN r : r[j].revision <= r[i].revision}
    IN IF r # <<>> THEN r[CHOOSE i \in Top : \A j \in Top : j <= i].text
       ELSE IF a # <<>> THEN Last(a) ELSE NoText

-----------------------------------------------------------------------------
Running(c, pc) == hcall[c].pc = pc
MoveTo(c, pc) == hcall' = [hcall EXCEPT ![c].pc = pc]

\* The lock goes with the guard of the call, however the call ends.
EndCall(c) == /\ hcall' = [hcall EXCEPT ![c] = Nobody]
          /\ lock' = IF lock = c THEN NoCaller ELSE lock

Args == [op : {"bootstrap"}, key : Key, text : Text \cup {NoText}, create : BOOLEAN,
         turn : {NoText}, path : {0}]
   \cup [op : {"checkpoint"}, key : Key, text : Text, create : {TRUE},
         turn : Turn \cup {NoText}, path : 1 .. MaxFile]
   \cup [op : {"repair", "provider"}, key : {NoText}, text : {NoText}, create : {TRUE},
         turn : {NoText}, path : {0}]

\* A tool call arrives.  Without a turn id the record is named after its
\* own content.
Call(c, a) ==
    /\ Running(c, "idle") /\ begun < MaxCall
    /\ begun' = begun + 1
    /\ hcall' = [hcall EXCEPT ![c] =
                  [Nobody EXCEPT !.op = a.op, !.key = a.key, !.text = a.text,
                                 !.turn = IF a.op = "checkpoint" /\ a.turn = NoText
                                          THEN a.text ELSE a.turn,
                                 !.create = a.create, !.path = a.path,
                                 !.pc = IF a.op = "provider" THEN "provider" ELSE "lock"]]
    /\ UNCHANGED <<written, lock, answered, reader, search, edits>>

\* write_provider_checkpoint: a file of its own, written without the lock;
\* a half written one is skipped by every reader.
WriteProvider(c) ==
    /\ Running(c, "provider")
    /\ providers < MaxProvider
    /\ providers' = providers + 1
    /\ MoveTo(c, "lock")
    /\ UNCHANGED <<files, manifest, state, lock, answered, reader, search, edits, begun>>

\* Mutant of TakeLock: the lock is a shared one.
TakeLockShared(c) ==
    /\ Running(c, "lock")
    /\ lock' = c
    /\ hcall' = [hcall EXCEPT ![c].pc = "decide", ![c].seen = files]
    /\ UNCHANGED <<written, answered, reader, search, edits, begun>>

\* Mutant of TakeLock: the directory is scanned while the call waits.
ScanFirst(c) ==
    /\ Running(c, "lock")
    /\ \/ hcall[c].with = 0 /\ hcall' = [hcall EXCEPT ![c].seen = files, ![c].with = 1] /\ UNCHANGED lock
       \/ hcall[c].with = 1 /\ lock = NoCaller /\ lock' = c /\ MoveTo(c, "decide")
    /\ UNCHANGED <<written, answered, reader, search, edits, begun>>

\* lock_directory, then scan.
TakeLock(c) ==
    /\ Running(c, "lock") /\ lock = NoCaller
    /\ lock' = c
    /\ hcall' = [hcall EXCEPT ![c].pc = "decide", ![c].seen = files]
    /\ UNCHANGED <<written, answered, reader, search, edits, begun>>

\* A refused call, and one whose read or write failed, changes nothing more.
Fail(c) ==
    /\ hcall[c].pc \notin {"idle", "lock"}
    /\ EndCall(c)
    /\ UNCHANGED <<written, answered, reader, search, edits, begun>>

Store(c, n, doc) == /\ files' = Put(files, n, doc)
                    /\ hcall' = [hcall EXCEPT ![c].pc = "rescan", ![c].current = n]
Keep(c, n) == /\ UNCHANGED files
              /\ hcall' = [hcall EXCEPT ![c].pc = "rescan", ![c].current = n]

\* bootstrap of a key the archive knows: the first input is added unless it
\* is there already.
Resume(c) ==
    LET f == hcall[c].seen  x == hcall[c].text IN
    /\ Running(c, "decide") /\ hcall[c].op = "bootstrap"
    /\ ~Ambiguous(f) /\ Missing(f) = {}
    /\ \E n \in Of(f, hcall[c].key) :
         \/ x \in Range(f[n].initial) \cup {NoText} /\ Keep(c, n)
         \/ /\ x \notin Range(f[n].initial) \cup {NoText}
            /\ Store(c, n, [f[n] EXCEPT !.initial = Append(@, x)])
    /\ UNCHANGED <<providers, manifest, state, lock, answered, reader, search, edits, begun>>

\* bootstrap of a new key: the next number.
Create(c) ==
    LET f == hcall[c].seen  n == Latest(f) + 1  x == hcall[c].text IN
    /\ Running(c, "decide") /\ hcall[c].op = "bootstrap"
    /\ ~Ambiguous(f) /\ Missing(f) = {} /\ Of(f, hcall[c].key) = {}
    /\ hcall[c].create /\ n <= MaxFile
    /\ Store(c, n, [key |-> hcall[c].key, initial |-> IF x = NoText THEN <<>> ELSE <<x>>,
                    records |-> <<>>])
    /\ UNCHANGED <<providers, manifest, state, lock, answered, reader, search, edits, begun>>

\* checkpoint: the file must be the one bootstrap named; content the turn
\* already holds, in whatever revision, is not written again.
Checkpoint(c) ==
    LET f == hcall[c].seen  n == hcall[c].path  t == hcall[c].turn  x == hcall[c].text IN
    /\ Running(c, "decide") /\ hcall[c].op = "checkpoint"
    /\ ~Ambiguous(f) /\ n \in Of(f, hcall[c].key)
    /\ \/ Known(f[n], t, x) /\ Keep(c, n)
       \/ /\ ~Known(f[n], t, x) /\ Len(f[n].records) < MaxRecord
          /\ Store(c, n, [f[n] EXCEPT !.records =
                 Append(@, [turn |-> t, text |-> x, revision |-> NextRevision(f[n], t)])])
    /\ UNCHANGED <<providers, manifest, state, lock, answered, reader, search, edits, begun>>

\* validate with `repair`: only the derived files; the state is pointed at
\* the newest file, and an ambiguous archive is no obstacle.
Repair(c) ==
    /\ Running(c, "decide") /\ hcall[c].op = "repair"
    /\ Keep(c, Latest(hcall[c].seen))
    /\ UNCHANGED <<providers, manifest, state, lock, answered, reader, search, edits, begun>>

\* refresh_derived_memory, after a provider checkpoint: see StateFile.
RefreshDerived(c) ==
    /\ Running(c, "decide") /\ hcall[c].op = "provider" /\ ~Ambiguous(hcall[c].seen)
    /\ Keep(c, 0)
    /\ UNCHANGED <<providers, manifest, state, lock, answered, reader, search, edits, begun>>

\* scan again, and build_manifest, which lists the provider files; then the
\* index is written, which no call ever reads but to report its status.
Rescan(c) ==
    /\ Running(c, "rescan")
    /\ hcall' = [hcall EXCEPT ![c].pc = "manifest", ![c].seen = files, ![c].with = providers]
    /\ UNCHANGED <<written, lock, answered, reader, search, edits, begun>>

WriteManifest(c) ==
    /\ Running(c, "manifest")
    /\ manifest' = <<hcall[c].seen, hcall[c].with>>
    /\ MoveTo(c, "state")
    /\ UNCHANGED <<files, providers, state, lock, answered, reader, search, edits, begun>>

\* Mutant of WriteState: a rebuilt state starts over.
WriteStateFresh(c) ==
    /\ Running(c, "state")
    /\ state' = [revision |-> 1, current |-> hcall[c].current, focus |-> NoText]
    /\ EndCall(c)
    /\ UNCHANGED <<files, providers, manifest, answered, reader, search, edits, begun>>

\* build_state, from the state that was read: of a provider checkpoint the file
\* that was current stays current.
StateFile(call, read) ==
    LET n == IF call.op # "provider" THEN call.current
             ELSE IF read.current # 0 THEN read.current ELSE Latest(call.seen)
    IN  [revision |-> read.revision + 1,
         current |-> IF n \in DOMAIN call.seen THEN n ELSE 0,
         focus |-> Focus(call.seen, n)]

\* read_state, whose error is dropped: the revisions start over; write_state;
\* then the call answers.
WriteState(c) ==
    /\ Running(c, "state")
    /\ \/ state' = StateFile(hcall[c], state) /\ UNCHANGED edits
       \/ /\ edits < MaxFileEdit /\ edits' = edits + 1
          /\ state' = StateFile(hcall[c], NoState)
    /\ answered' = IF hcall[c].op # "checkpoint" THEN answered
                   ELSE answered \cup {<<hcall[c].key, hcall[c].turn, hcall[c].text>>}
    /\ EndCall(c)
    /\ UNCHANGED <<files, providers, manifest, reader, search, begun>>

\* The process ends: the lock goes, and every call is forgotten.
CrashArchive ==
    /\ \E c \in HCaller : ~Running(c, "idle")
    /\ lock' = NoCaller
    /\ hcall' = [c \in HCaller |-> Nobody] /\ search' = NoSearch
    /\ UNCHANGED <<written, answered, reader, edits, begun>>

\* A file is removed, or copied to the next number, while no call is at work.
\* Nothing is promised any more of a search that is under way.
EditFiles ==
    /\ edits < MaxFileEdit /\ lock = NoCaller
    /\ edits' = edits + 1
    /\ \E n \in DOMAIN files :
         \/ /\ files' = [k \in DOMAIN files \ {n} |-> files[k]]
            /\ answered' = {a \in answered : a[1] # files[n].key}
         \/ /\ Latest(files) < MaxFile
            /\ files' = Put(files, Latest(files) + 1, files[n])
            /\ UNCHANGED answered
    /\ search' = [search EXCEPT !.held = {}]
    /\ UNCHANGED <<providers, manifest, state, lock, hcall, reader, begun>>

\* state.json is removed, or made unreadable.
LoseState ==
    /\ edits < MaxFileEdit /\ lock = NoCaller /\ state # NoState
    /\ edits' = edits + 1 /\ state' = NoState
    /\ UNCHANGED <<files, providers, manifest, lock, hcall, answered, reader, search, begun>>

-----------------------------------------------------------------------------
(* search and read.  A document is a sequence of characters: the key takes  *)
(* one byte, what a user said three.                                        *)
Characters(doc) == <<doc.key>> \o doc.initial \o [i \in DOMAIN doc.records |-> doc.records[i].text]
Offset(s, i) == i + 2 * Cardinality({j \in 1 .. i : s[j] \in Text})
Boundary(s) == {Offset(s, i) : i \in 0 .. Len(s)}
Bytes(s) == Offset(s, Len(s))
CharactersTo(s, b) == Cardinality({i \in DOMAIN s : Offset(s, i) <= b})

\* The page ends at the last boundary its bytes reach; a character wider
\* than a page is a page of its own.
PageEnd(s, cursor) ==
    LET In == {b \in Boundary(s) : cursor < b /\ b <= cursor + PageBytes}
        Past == {b \in Boundary(s) : cursor < b}
    IN IF In # {} THEN CHOOSE b \in In : \A d \in In : d <= b
       ELSE IF Past # {} THEN CHOOSE b \in Past : \A d \in Past : b <= d
       ELSE cursor

\* HISTORY_ARCHIVE_CHANGED tells the client to start again.
StartReading ==
    /\ reader.path \in DOMAIN files => reader.doc \notin {{}, {files[reader.path]}}
    /\ \E n \in DOMAIN files : reader' = [NoReader EXCEPT !.path = n]
    /\ UNCHANGED <<written, lock, hcall, answered, search, edits, begun>>

\* Mutant of SameArchive: the hash the client passes is not compared.
SameArchiveAny(doc) == TRUE

\* expected_hash: the client passes what the page before returned.
SameArchive(doc) == reader.doc \subseteq {doc}

ReadPage ==
    /\ reader.path \in DOMAIN files
    /\ LET doc == files[reader.path]
           s == Characters(doc)
           end == PageEnd(s, reader.cursor)
       IN /\ reader.cursor < Bytes(s)
          /\ SameArchive(doc) /\ reader.cursor \in Boundary(s)
          /\ reader' = [reader EXCEPT !.doc = {doc}, !.cursor = end,
                                      !.got = @ \o SubSeq(s, CharactersTo(s, reader.cursor) + 1,
                                                        CharactersTo(s, end))]
    /\ UNCHANGED <<written, lock, hcall, answered, search, edits, begun>>

\* The numbers of the files that hold a word.
Holding(f, x) == {n \in DOMAIN f : x \in Range(Characters(f[n]))}

\* search: the directory is listed, with no lock,
BeginSearch(x) ==
    /\ search.pc = "idle"
    /\ search' = [NoSearch EXCEPT !.pc = "scan", !.word = x, !.left = DOMAIN files,
                                  !.held = Holding(files, x)]
    /\ UNCHANGED <<written, lock, hcall, answered, reader, edits, begun>>

\* the files are read one by one, and one that is gone by then ends the search,
ScanFile(n) ==
    /\ search.pc = "scan" /\ n \in search.left
    /\ search' = IF n \in DOMAIN files
                 THEN [search EXCEPT !.left = @ \ {n}, !.docs = Put(@, n, files[n])]
                 ELSE NoSearch
    /\ UNCHANGED <<written, lock, hcall, answered, reader, edits, begun>>

\* Mutant of Entries: a manifest that can be read is trusted.
EntriesStored(now) == DOMAIN manifest[1]

\* and the manifest serves the search if it is of the archive that was read:
\* archive_revision and memory_revision digest the files and the providers.
Entries(now) == IF manifest = now THEN DOMAIN manifest[1] ELSE DOMAIN now[1]

\* Every file of the manifest that scores is a hit.
AnswerSearch ==
    LET docs == search.docs IN
    /\ search.pc = "scan" /\ search.left = {}
    /\ search' = [search EXCEPT !.pc = "done",
                                !.hits = Entries(<<docs, providers>>) \cap Holding(docs, search.word)]
    /\ UNCHANGED <<written, lock, hcall, answered, reader, edits, begun>>

-----------------------------------------------------------------------------
CallStep(c) == \/ WriteProvider(c) \/ TakeLock(c) \/ Resume(c) \/ Create(c)
           \/ Checkpoint(c) \/ Repair(c) \/ RefreshDerived(c) \/ Rescan(c)
           \/ WriteManifest(c) \/ WriteState(c) \/ Fail(c)

HistoryNext ==
    \/ \E c \in HCaller : (\E a \in Args : Call(c, a)) \/ CallStep(c)
    \/ CrashArchive \/ EditFiles \/ LoseState \/ StartReading \/ ReadPage
    \/ (\E x \in Text : BeginSearch(x)) \/ (\E n \in 1 .. MaxFile : ScanFile(n)) \/ AnswerSearch

HistorySpec == HistoryInit /\ [][HistoryNext]_hvars

-----------------------------------------------------------------------------
Documents == [key : Key, initial : Seq(Text),
              records : Seq([turn : Turn \cup Text, text : Text, revision : Nat \ {0}])]
HistoryTypeOK ==
    /\ DOMAIN files \subseteq 1 .. MaxFile
    /\ \A n \in DOMAIN files : files[n] \in Documents
    /\ providers \in 0 .. MaxProvider
    /\ state.current \in 0 .. MaxFile /\ state.focus \in Text \cup {NoText}
    /\ lock \in HCaller \cup {NoCaller}
    /\ \A c \in HCaller : hcall[c].pc \notin {"idle", "provider", "lock"} => lock = c
    /\ search.pc \in {"idle", "scan", "done"} /\ search.left \subseteq 1 .. MaxFile
    /\ search.held \cup search.hits \subseteq 1 .. MaxFile

\* The archive is lossless: a call of the program never takes from a file a
\* record or an input it holds, whoever else writes at the same time, and
\* never gives a session a second file.
AppendOnly ==
    [][edits' = edits =>
         /\ \A n \in DOMAIN files :
              /\ n \in DOMAIN files'
              /\ IsPrefix(files[n].initial, files'[n].initial)
              /\ IsPrefix(files[n].records, files'[n].records)
         /\ ~Ambiguous(files) => ~Ambiguous(files')
         /\ Missing(files') \subseteq Missing(files)]_hvars

\* The revisions of a turn count up from one in the order of the file, and no
\* two of them say the same: a retry after a lost answer adds nothing.
RevisionsChain ==
    \A n \in DOMAIN files : LET r == files[n].records IN
      \A i \in DOMAIN r :
        /\ r[i].revision = Cardinality({j \in 1 .. i : r[j].turn = r[i].turn})
        /\ \A j \in 1 .. (i - 1) : r[j].turn = r[i].turn => r[j].text # r[i].text

\* What checkpoint reported as saved is in the file of its session.
AnsweredIsStored ==
    \A a \in answered : \E n \in Of(files, a[1]) : Known(files[n], a[2], a[3])

\* state_revision only grows, whichever of the four writers rebuilds the
\* state, and through every crash between the derived files, for as long as
\* state.json is there and can be read: one that is lost starts over.
StateRevisionGrows ==
    [][edits' = edits /\ state' # state => state'.revision > state.revision]_hvars

\* A search misses no file that held the word when it began, though it takes no
\* lock while calls write, and though the manifest is behind where a call ended
\* between the archive and the derived files.
SearchFinds == search.pc = "done" => search.held \subseteq search.hits

\* A client that follows next_cursor with the hash gets one version of the
\* file, whole and once, though calls append to it between two pages.
ReadIsWhole ==
    \A doc \in reader.doc : LET s == Characters(doc) IN
      /\ reader.got = SubSeq(s, 1, CharactersTo(s, reader.cursor))
      /\ reader.cursor \in Boundary(s)

\* What the archive says to a call is true of its files: a revision, a saved
\* turn, the hits of a search, the pages of a file.
ArchiveIsTrue == RevisionsChain /\ AnsweredIsStored /\ SearchFinds /\ ReadIsWhole

\* Nothing the archive holds is taken back, nor the number of its state.
ArchiveOnlyGrows == AppendOnly /\ StateRevisionGrows
=============================================================================
