------------------------------ MODULE CodexRoute ------------------------------
(***************************************************************************)
(* The reversible change of the user's Codex configuration                 *)
(* (web_models/codex_route.rs).  install points openai_base_url at the     *)
(* bridge and keeps the line it replaced in a journal, in two files;       *)
(* restore puts the line back.  An older version also installed a model    *)
(* catalogue, which the next install or restore takes out again.  Every    *)
(* file is replaced by a rename; the process may end between two of them.  *)
(***************************************************************************)
EXTENDS Naturals

CONSTANT MaxEdit      \* how often the user changes the configuration

VARIABLES config,     \* the lines of config.toml this is about
          mine,       \* what the user last wrote there
          primary,    \* journal.json
          recovery,   \* journal.recovery.json
          work,       \* an install or a restore in progress
          changed,    \* the user changed a line while a journal existed
          changes     \* how often the user has changed one

rvars == <<config, mine, primary, recovery, work, changed, changes>>
onDisk == <<config, primary, recovery>>

UserUrls == {"absent", "own", "other"}
UserCatalogs == {"absent", "own"}

\* No journal; else what it says of each key: the user's line, or that the
\* key is not installed.
NoJournal == [url |-> "none", catalog |-> "none"]
Journals == [url : UserUrls, catalog : UserCatalogs \cup {"none"}]
NoWork == [pc |-> "idle", config |-> config, journal |-> NoJournal]

\* load_journal: the primary file, or else the recovery file.
Current == IF primary # NoJournal THEN primary ELSE recovery

RouteInit ==
    \/ /\ mine \in [url : UserUrls, catalog : {"absent"}]
       /\ config \in {[url |-> mine.url, catalog |-> mine.catalog, legacy |-> l] : l \in BOOLEAN}
       /\ primary = NoJournal /\ recovery = NoJournal
       /\ work = NoWork /\ changed = FALSE /\ changes = 0
    \/ /\ mine \in [url : UserUrls, catalog : UserCatalogs]
       /\ config \in {[url |-> "bridge", catalog |-> "bridge", legacy |-> l] : l \in BOOLEAN}
       /\ primary = mine /\ recovery = mine
       /\ work = NoWork /\ changed = FALSE /\ changes = 0

-----------------------------------------------------------------------------
\* Mutant of Owned: whatever is in the file is taken for the installed line.
OwnedAny(key) == TRUE

\* The line of a key is the one this program wrote.
Owned(key) == config[key] = "bridge"

\* restore_assignment refuses a line that somebody changed.
CanRestore(j) == Owned("url") /\ (j.catalog # "none" => Owned("catalog"))

\* migrate_legacy_model_selection, and the catalogue of the older version.
Migrated(j) == [url |-> config.url, legacy |-> FALSE,
                catalog |-> IF j.catalog = "none" THEN config.catalog ELSE j.catalog]

\* Mutant of FirstStep: the configuration is written before the journal.
FirstStepConfig == "config"

\* "Recovery is written before the Codex config."
FirstStep == "recovery"

\* install with a journal: the route is there; only what the older version
\* left is migrated.
InstallAgain ==
    LET j == Current IN
    /\ work.pc = "idle" /\ j # NoJournal /\ CanRestore(j)
    /\ config.legacy \/ j.catalog # "none"
    /\ work' = [pc |-> FirstStep, config |-> Migrated(j), journal |-> [j EXCEPT !.catalog = "none"]]
    /\ UNCHANGED <<onDisk, mine, changed, changes>>

\* install without one: unless the user pointed Codex at the bridge himself.
InstallRoute ==
    /\ work.pc = "idle" /\ Current = NoJournal /\ config.url # "bridge"
    /\ work' = [pc |-> FirstStep,
                config |-> [url |-> "bridge", catalog |-> config.catalog, legacy |-> FALSE],
                journal |-> [url |-> config.url, catalog |-> "none"]]
    /\ changed' = FALSE
    /\ UNCHANGED <<onDisk, mine, changes>>

\* Mutant of RestoreConfig: what the journal says of the catalogue is lost.
RestoreConfigUrl(j) == [url |-> j.url, legacy |-> FALSE, catalog |-> "absent"]

RestoreConfig(j) == [Migrated(j) EXCEPT !.url = j.url]

\* restore: the configuration first, then the two journals.
RestoreRoute ==
    LET j == Current IN
    /\ work.pc = "idle" /\ j # NoJournal /\ CanRestore(j)
    /\ work' = [pc |-> "back", config |-> RestoreConfig(j), journal |-> NoJournal]
    /\ UNCHANGED <<onDisk, mine, changed, changes>>

WriteRecovery ==
    /\ work.pc = "recovery"
    /\ recovery' = work.journal
    /\ work' = [work EXCEPT !.pc = "config"]
    /\ UNCHANGED <<config, primary, mine, changed, changes>>

WriteConfig ==
    /\ work.pc \in {"config", "back"}
    /\ config' = work.config
    /\ work' = [work EXCEPT !.pc = IF work.pc = "back" THEN "unlink" ELSE "primary"]
    /\ UNCHANGED <<primary, recovery, mine, changed, changes>>

WritePrimary ==
    /\ work.pc = "primary"
    /\ primary' = work.journal
    /\ work' = NoWork
    /\ UNCHANGED <<config, recovery, mine, changed, changes>>

\* remove_journal_pair, one file after the other.
Unlink ==
    /\ work.pc = "unlink"
    /\ \/ primary # NoJournal /\ primary' = NoJournal /\ UNCHANGED <<recovery, work>>
       \/ primary = NoJournal /\ recovery' = NoJournal /\ work' = NoWork /\ UNCHANGED primary
    /\ UNCHANGED <<config, mine, changed, changes>>

\* A file cannot be written, or the process ends.
Interrupt ==
    /\ work.pc # "idle"
    /\ work' = NoWork
    /\ UNCHANGED <<onDisk, mine, changed, changes>>

\* The user, or Codex, writes the configuration while nothing is at work.
Edit ==
    /\ work.pc = "idle" /\ changes < MaxEdit
    /\ \E u \in UserUrls : /\ config' = [config EXCEPT !.url = u]
                           /\ mine' = [mine EXCEPT !.url = u]
    /\ changed' = (Current # NoJournal)
    /\ changes' = changes + 1
    /\ UNCHANGED <<primary, recovery, work>>

RouteNext == \/ InstallRoute \/ InstallAgain \/ RestoreRoute \/ WriteRecovery \/ WriteConfig
             \/ WritePrimary \/ Unlink \/ Interrupt \/ Edit
RouteSpec == RouteInit /\ [][RouteNext]_rvars

-----------------------------------------------------------------------------
RouteTypeOK ==
    /\ config \in [url : UserUrls \cup {"bridge"}, catalog : UserCatalogs \cup {"bridge"},
                   legacy : BOOLEAN]
    /\ {primary, recovery} \subseteq Journals \cup {NoJournal}
    /\ work.pc \in {"idle", "recovery", "config", "primary", "back", "unlink"}

\* What the user wrote is never lost: it is in the configuration, or the
\* configuration holds the line of this program and the journal that would be
\* read has the user's; through every interruption, in whatever order install,
\* restore and the user's own changes come.
UserValueKept ==
    \A key \in {"url", "catalog"} :
      \/ config[key] = mine[key]
      \/ Owned(key) /\ Current[key] = mine[key]

\* "an interrupted install can still be restored deterministically": while a
\* journal exists and the user changed nothing, restore can do its work.
Restorable == work.pc = "idle" /\ Current # NoJournal /\ ~changed => CanRestore(Current)
=============================================================================
