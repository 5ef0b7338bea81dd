------------------------------- MODULE Desktop -------------------------------
(***************************************************************************)
(* Ten components that share no state, as one system: `part` says which of *)
(* them a behaviour is about, the others keep one initial state.  A        *)
(* component's properties hold trivially where another one runs.           *)
(***************************************************************************)
EXTENDS OpenAiConnector, SessionEvents, OAuthFlow, CodexRoute, WebBridge, HistoryArchive,
        PatchTool, OperationLog, TaskHarness, TurnStream

VARIABLE part

desktopVars == <<part, vars, evars, hvars, rvars, tvars, wvars, oauthVars,
                 patchVars, logVars, harnessVars>>

DesktopInit ==
    /\ part \in {"connector", "events", "oauth", "history", "route", "turn", "web",
                "patch", "log", "harness"}
    /\ Init /\ EventsInit /\ HistoryInit /\ RouteInit /\ TurnInit /\ WebInit /\ OAuthInit
    /\ part # "route" =>
         /\ mine = [url |-> "absent", catalog |-> "absent"]
         /\ primary = NoJournal /\ ~config.legacy
    /\ PatchInit /\ LogInit /\ HarnessInit
    /\ part # "web" => codex
    /\ part # "patch" => \A p \in Path : disk[p] = NoFile

DesktopNext ==
    /\ part' = part
    /\ IF part = "connector" THEN Next ELSE UNCHANGED vars
    /\ IF part = "events" THEN EventsNext ELSE UNCHANGED evars
    /\ IF part = "oauth" THEN OAuthNext ELSE UNCHANGED oauthVars
    /\ IF part = "history" THEN HistoryNext ELSE UNCHANGED hvars
    /\ IF part = "route" THEN RouteNext ELSE UNCHANGED rvars
    /\ IF part = "turn" THEN TurnNext ELSE UNCHANGED tvars
    /\ IF part = "web" THEN WebNext ELSE UNCHANGED wvars
    /\ IF part = "patch" THEN PatchNext ELSE UNCHANGED patchVars
    /\ IF part = "log" THEN LogNext ELSE UNCHANGED logVars
    /\ IF part = "harness" THEN HarnessNext ELSE UNCHANGED harnessVars

DesktopSpec == DesktopInit /\ [][DesktopNext]_desktopVars

-----------------------------------------------------------------------------
\* The state of every component is of its type.
TypesOK ==
    /\ TypeOK /\ EventsTypeOK /\ HistoryTypeOK /\ RouteTypeOK /\ TurnTypeOK
    /\ WebTypeOK /\ OAuthTypeOK
    /\ PatchTypeOK /\ LogTypeOK /\ HarnessTypeOK

\* What a tool says of files is so: of the archive of sessions, and of a patch.
FilesAreTrue == ArchiveIsTrue /\ PatchIsWhole

\* What is recorded is not taken back: in the archive, and of a task.
RecordsHold == ArchiveOnlyGrows /\ TasksAreTrue

\* Who follows a log is given all of it: of the events of a session, and of the
\* operations and events of the harness (said after every step; the first state
\* has no record).
FollowersSeeAll == FollowerSeesAll /\ [][LogReadsBack']_logVars

=============================================================================
