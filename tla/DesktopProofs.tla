--------------------------- MODULE DesktopProofs ---------------------------
(***************************************************************************)
(* The theorems about Desktop as a whole: each component keeps its         *)
(* invariant, whichever one of them a behaviour is about.                  *)
(***************************************************************************)
EXTENDS Desktop, RecordProofs, AccessProofs

-----------------------------------------------------------------------------
(* The composition: each component keeps its invariant, whichever one of   *)
(* them the behaviour is about.                                            *)

\* What each keeps of the data and the logins, of the web models, and of files.
AccessInv == IInv /\ OAuthInv
WebInv == RouteInv /\ BridgeInv /\ Serves /\ Afterwards /\ WebTypes /\ TurnInv
RecordInv ==
    /\ HarnessInv /\ FilesArePast /\ MarkedIsBehind /\ SavedInv
    /\ ArchiveInv /\ ShownTyped
    /\ PatchInv /\ FilesAreTexts /\ CallIsOfTexts
    /\ FollowerInv /\ LinesInv /\ LogLimits

DesktopInv == AccessInv /\ WebInv /\ RecordInv

\* A step of the system is a step of a component or leaves its state alone.
LEMMA PartsStep ==
    ASSUME [DesktopNext]_desktopVars
    PROVE  /\ [HarnessNext]_(harnessVars)
           /\ [HistoryNext]_(hvars)
           /\ PatchNext \/ UNCHANGED patchVars
           /\ [EventsNext]_evars
           /\ [LogNext]_logVars
           /\ [Next]_vars
           /\ [OAuthNext]_oauthVars
           /\ [RouteNext]_rvars
           /\ [WebNext]_wvars
           /\ [TurnNext]_tvars
<1>1. CASE DesktopNext
  <2>1. /\ HarnessNext \/ UNCHANGED harnessVars
        /\ HistoryNext \/ UNCHANGED hvars
        /\ PatchNext \/ UNCHANGED patchVars
        /\ [EventsNext]_evars
        /\ [LogNext]_logVars
    BY <1>1 DEF DesktopNext
  <2>2. /\ [Next]_vars
        /\ [OAuthNext]_oauthVars
        /\ [RouteNext]_rvars
        /\ [WebNext]_wvars
        /\ [TurnNext]_tvars
    BY <1>1 DEF DesktopNext
  <2> QED BY <2>1, <2>2 DEF harnessVars, hvars
<1>2. CASE UNCHANGED desktopVars
  <2>1. UNCHANGED <<vars, oauthVars, rvars, wvars, tvars>>
    BY <1>2 DEF desktopVars
  <2> QED BY <1>2, <2>1 DEF desktopVars, harnessVars, hvars, patchVars, evars, logVars
<1> QED BY <1>1, <1>2

LEMMA FirstDesktopInv == ASSUME DesktopInit PROVE DesktopInv
<1>1. HarnessInit /\ HistoryInit /\ PatchInit
  BY DEF DesktopInit
<1>2. HarnessBounds /\ HistoryBounds /\ PatchBounds /\ OAuthBounds
  BY HarnessAssumption, HistoryAssumption, PatchAssumption, OAuthAssumption
<1>3. HarnessInv /\ FilesArePast /\ MarkedIsBehind /\ SavedInv
  BY <1>1, <1>2, HarnessInitTyped, FirstSaved
<1>4. ArchiveInv /\ ShownTyped
  <2>1. ShownTyped
    BY <1>1 DEF HistoryInit, NoState, ShownTyped
  <2> QED BY <1>1, <1>2, <2>1, FirstArchiveInv
<1>5. PatchInv /\ FilesAreTexts /\ CallIsOfTexts
  BY <1>1, <1>2, FirstPatchInv, FirstTexts
<1>6. FollowerInv /\ LinesInv /\ LogLimits
  <2>1. EventsInit /\ LogInit
    BY DEF DesktopInit
  <2>2. LogLimits
    BY <2>1, LogAssumption DEF LogInit, LogLimits, LogBounds
  <2> QED BY <2>1, <2>2, FirstFollowerInv, FirstLines
<1>7. AccessInv
  <2>1. Init /\ OAuthInit
    BY DEF DesktopInit
  <2> QED BY <1>2, <2>1, Initially, InitHolds DEF AccessInv
<1>8. WebInv
  <2>1. RouteInit /\ WebInit /\ TurnInit
    BY DEF DesktopInit
  <2>2. Serves /\ WebTypes
    BY <2>1 DEF WebInit, Serves, WebTypes
  <2> QED BY <2>1, <2>2, RouteInitHolds, BridgeInitHolds, AfterInit, TurnInitHolds DEF WebInv
<1> QED BY <1>3, <1>4, <1>5, <1>6, <1>7, <1>8 DEF DesktopInv, RecordInv

LEMMA DesktopStep ==
    ASSUME DesktopInv, [DesktopNext]_desktopVars
    PROVE  DesktopInv'
<1>1. [HarnessNext]_(harnessVars) /\ [HistoryNext]_(hvars)
      /\ (PatchNext \/ UNCHANGED patchVars) /\ [EventsNext]_evars /\ [LogNext]_logVars
  BY PartsStep
<1>2. HarnessBounds /\ HistoryBounds /\ PatchBounds /\ LogBounds
  BY HarnessAssumption, HistoryAssumption, PatchAssumption, LogAssumption
<1>3. HarnessInv /\ FilesArePast /\ MarkedIsBehind /\ SavedInv /\ ArchiveInv /\ PatchInv
      /\ FollowerInv /\ LinesInv /\ LogLimits /\ ShownTyped /\ FilesAreTexts /\ CallIsOfTexts
  BY DEF DesktopInv, RecordInv
<1>4. HarnessInv'
  BY <1>1, <1>2, <1>3, HarnessTyped
<1>5. FilesArePast' /\ MarkedIsBehind'
  BY <1>1, <1>2, <1>3, <1>4, SeenStep
<1>6. SavedInv'
  BY <1>1, <1>2, <1>3, <1>4, SavedStep
<1>7. ArchiveInv' /\ ShownTyped'
  <2>1. HistoryInv
    BY <1>3 DEF ArchiveInv
  <2> QED BY <1>1, <1>2, <1>3, <2>1, ArchiveStep, ShownStep
<1>8. PatchInv' /\ FilesAreTexts' /\ CallIsOfTexts'
  BY <1>1, <1>2, <1>3, PatchStep, TextsStep
<1>9. FollowerInv'
  BY <1>1, <1>3, FollowerStep
<1>10. LinesInv' /\ LogLimits'
  BY <1>1, <1>2, <1>3, LogStep, LimitsHold
<1>11. RecordInv'
  BY <1>4, <1>5, <1>6, <1>7, <1>8, <1>9, <1>10 DEF RecordInv
<1>12. AccessInv'
  <2>1. [Next]_vars /\ [OAuthNext]_oauthVars /\ OAuthBounds
    BY PartsStep, OAuthAssumption
  <2>2. IInv /\ OAuthInv
    BY DEF DesktopInv, AccessInv
  <2> QED BY <2>1, <2>2, Inductive, StepHolds DEF AccessInv
<1>13. WebInv'
  <2>1. [RouteNext]_rvars /\ [WebNext]_wvars /\ [TurnNext]_tvars
    BY PartsStep
  <2>2. RouteInv /\ BridgeInv /\ Serves /\ Afterwards /\ WebTypes /\ TurnInv
    BY DEF DesktopInv, WebInv
  <2>3. RouteInv' /\ TurnInv'
    BY <2>1, <2>2, RouteStepHolds, TurnStep
  <2>4. BridgeInv' /\ Serves' /\ Afterwards'
    BY <2>1, <2>2, BridgeStepHolds, ServesHolds, AfterStep
  <2>5. BridgeTypes
    BY <2>2 DEF BridgeInv
  <2>6. WebTypes'
    BY <2>1, <2>2, <2>5, WebTypesHold
  <2> QED BY <2>3, <2>4, <2>6 DEF WebInv
<1> QED BY <1>11, <1>12, <1>13 DEF DesktopInv

LEMMA DesktopInvariant == DesktopSpec => []DesktopInv
<1>1. DesktopInit => DesktopInv
  BY FirstDesktopInv
<1>2. DesktopInv /\ [DesktopNext]_desktopVars => DesktopInv'
  BY DesktopStep
<1> QED BY <1>1, <1>2, PTL DEF DesktopSpec

\* Every component's state is of its type, for any number of whatever it keeps:
\* what is read back from a file, parsed, merged or copied is what the readers
\* of it take it for, also after a crash, a refused write or an interruption.
THEOREM DesktopTyped == DesktopSpec => []TypesOK
<1>1. DesktopInv => TypesOK
  <2> SUFFICES ASSUME DesktopInv PROVE TypesOK
    OBVIOUS
  <2>1. TypeOK /\ OAuthTypeOK
    BY DEF DesktopInv, AccessInv, IInv, OAuthInv
  <2>2. RouteTypeOK /\ WebTypeOK /\ TurnTypeOK
    BY RouteTyped, WebTyped, TurnHolds DEF DesktopInv, WebInv
  <2>3. HistoryTypeOK
    BY HistoryTyped DEF DesktopInv, RecordInv, ArchiveInv
  <2>4. PatchTypeOK /\ LogTypeOK
    BY PatchTyped, LogTyped DEF DesktopInv, RecordInv
  <2>5. EventsTypeOK
    BY DEF DesktopInv, RecordInv, FollowerInv, LogIsOrdered, ViewIsBehind, EventsTypeOK
  <2>6. HarnessTypeOK
    BY DEF DesktopInv, RecordInv, HarnessInv, HarnessTypes, HarnessTypeOK, ToolCalls, ToolPcs
  <2> QED BY <2>1, <2>2, <2>3, <2>4, <2>5, <2>6 DEF TypesOK
<1> QED BY <1>1, DesktopInvariant, PTL

\* What the tools say of files is so, for any number of calls, sessions, files
\* and faults: the revisions of a turn in the archive count its records, a turn
\* that was reported saved is in the file, a search that reads the files one by
\* one beside the writers names every file that held the word when it began, and
\* a paged read gives one whole version; and a patch is applied whole or not at
\* all, also for a crash between two of its steps, to the files it names once.
THEOREM FilesStayTrue == DesktopSpec => []FilesAreTrue
<1>1. DesktopInv => FilesAreTrue
  BY PatchHolds DEF DesktopInv, RecordInv, ArchiveInv, ReaderInv, SearchInv, FilesAreTrue, ArchiveIsTrue
<1> QED BY <1>1, DesktopInvariant, PTL

\* No record is taken back: a call never takes anything from the files of the
\* archive nor gives a session a second one, and the number of its state grows
\* unless state.json is lost or cannot be read; and the task harness has one
\* current task and whole task files unless two calls save a task at once, does
\* not reopen one that ended, and runs no writing tool under a task whose files
\* somebody changed before.
THEOREM NothingIsTakenBack == DesktopSpec => RecordsHold
<1>1. SavedInv => OneTask
  BY OneIsCurrent
<1>2. SavedInv' => OneTask'
  BY <1>1, PTL
<1>3. DesktopInv /\ DesktopInv' /\ [DesktopNext]_desktopVars =>
        [OneTask' /\ EndIsFinal /\ OutsideIsSeen]_(harnessVars)
  <2> SUFFICES ASSUME DesktopInv, DesktopInv', [DesktopNext]_desktopVars
               PROVE  OneTask' /\ EndIsFinal /\ OutsideIsSeen
    OBVIOUS
  <2>1. [HarnessNext]_(harnessVars) /\ HarnessBounds
    BY PartsStep, HarnessAssumption
  <2>2. HarnessInv /\ SavedInv /\ MarkedIsBehind /\ SavedInv'
    BY DEF DesktopInv, RecordInv
  <2>3. OneTask'
    BY <2>2, <1>2
  <2> QED BY <2>1, <2>2, <2>3, EndsStay, SeenOutside
<1>4. DesktopInv /\ [DesktopNext]_desktopVars =>
        [edits' = edits =>
           /\ \A n \in DOMAIN files :
                /\ n \in DOMAIN files'
                /\ IsPrefix(files[n].initial, files'[n].initial)
                /\ IsPrefix(files[n].records, files'[n].records)
           /\ ~Ambiguous(files) => ~Ambiguous(files')
           /\ Missing(files') \subseteq Missing(files)]_(hvars)
  <2> SUFFICES ASSUME DesktopInv, [DesktopNext]_desktopVars, edits' = edits
               PROVE  Grows(files, files')
    BY DEF Grows
  <2>1. [HistoryNext]_(hvars) /\ HistoryBounds /\ ArchiveInv
    BY PartsStep, HistoryAssumption DEF DesktopInv, RecordInv
  <2> QED BY <2>1, ArchiveStep
<1>5. DesktopInv /\ [DesktopNext]_desktopVars =>
        [edits' = edits /\ state' # state => state'.revision > state.revision]_(hvars)
  <2> SUFFICES ASSUME DesktopInv, [DesktopNext]_desktopVars, edits' = edits, state' # state
               PROVE  state'.revision > state.revision
    OBVIOUS
  <2>1. [HistoryNext]_(hvars) /\ HistoryBounds /\ ArchiveInv
    BY PartsStep, HistoryAssumption DEF DesktopInv, RecordInv
  <2> QED BY <2>1, ArchiveStep
<1>6. DesktopSpec => TasksAreTrue
  BY <1>3, DesktopInvariant, PTL DEF DesktopSpec, TasksAreTrue
<1>7. DesktopSpec => AppendOnly
  BY <1>4, DesktopInvariant, PTL DEF DesktopSpec, AppendOnly
<1>8. DesktopSpec => StateRevisionGrows
  BY <1>5, DesktopInvariant, PTL DEF DesktopSpec, StateRevisionGrows
<1> QED BY <1>6, <1>7, <1>8 DEF RecordsHold, ArchiveOnlyGrows

\* Who follows a log is given all of it, for logs of any length and capacity: a
\* client that polls the events of a session shows them without a hole and, in
\* the first run of the application, each in its latest form, although events
\* are merged and dropped between its polls; and one that pages through a log of
\* the harness is given every record once and in order, and finds each record
\* whose append returned, unless two texts met on one line.
THEOREM FollowersAreServed == DesktopSpec => FollowersSeeAll
<1>1. DesktopInv => ViewHasNoHole
  BY DEF DesktopInv, RecordInv, FollowerInv, ViewIsBehind
<1>2. DesktopInv /\ DesktopInv' /\ [DesktopNext]_desktopVars =>
        [run = 1 /\ cursor' # cursor => Delivered']_evars
  <2> SUFFICES ASSUME DesktopInv, DesktopInv', [DesktopNext]_desktopVars, run = 1, cursor' # cursor
               PROVE  Delivered'
    OBVIOUS
  <2>1. [EventsNext]_evars
    BY PartsStep
  <2>2. run' = 1
    BY <2>1 DEF EventsNext, Append1, StartAgain, Poll, evars
  <2> QED BY <2>2 DEF DesktopInv, RecordInv, FollowerInv
<1>3. DesktopInv => LogReadsBack
  BY LogHolds, LogAssumption DEF DesktopInv, RecordInv
<1>4. DesktopInv' => LogReadsBack'
  BY <1>3, PTL
<1>5. DesktopInv' => [LogReadsBack']_logVars
  BY <1>4
<1>6. DesktopSpec => []ViewHasNoHole
  BY <1>1, DesktopInvariant, PTL
<1>7. DesktopSpec => PollDelivers
  BY <1>2, DesktopInvariant, PTL DEF DesktopSpec, PollDelivers
<1>8. DesktopSpec => [][LogReadsBack']_logVars
  BY <1>5, DesktopInvariant, PTL
<1> QED BY <1>6, <1>7, <1>8 DEF FollowersSeeAll, FollowerSeesAll

\* What a client of the web bridge is streamed is the answer of its own turn, for
\* texts of any length and alphabet, any number of turns, and any sizes of the
\* gate, the anchor and the channel: however the page is rendered, shortened and
\* read, nothing that was streamed has to be taken back, the pieces add up to
\* the text that is announced at the end, and that is what the page shows last
\* unless the page rewrote its answer.
THEOREM StreamStaysAnswer == DesktopSpec => []StreamIsAnswer
<1>1. DesktopInv => StreamIsAnswer
  BY TurnHolds DEF DesktopInv, WebInv
<1> QED BY <1>1, DesktopInvariant, PTL
=============================================================================
