--------------------------- MODULE OpenAiConnector ---------------------------
(***************************************************************************)
(* The OpenAI connector (commands/openai_connector.rs, tunnel/openai.rs):  *)
(* a tunnel process that presents a secret, which the MCP listener compares*)
(* with the one in the data file on every request.  The start creates the  *)
(* secret through SecretStore; all other data goes through the copy in     *)
(* memory (see DataStore).                                                 *)
(***************************************************************************)
EXTENDS DataStore

CONSTANTS Caller       \* the starts and stops that may run at one time

VARIABLES call,     \* [Caller -> the start or stop it runs]
          saving,   \* {}, or {the switch} a save of the settings has read
          process,  \* the secret of the running tunnel process, 0 if none
          tokenFile,\* the file the process reads its secret from
          created   \* number of secrets created

tunnelVars == <<process, tokenFile>>
vars == <<storeVars, call, saving, tunnelVars, created>>

Calls == [pc : {"idle", "secret", "create", "launch", "spawn", "wait",
                "enable", "disable"},
          token : 0 .. MaxToken]
NoCall == [pc |-> "idle", token |-> 0]

Goto(c, pc) == call' = [call EXCEPT ![c].pc = pc]
End(c) == call' = [call EXCEPT ![c] = NoCall]
At(c, pc) == call[c].pc = pc

-----------------------------------------------------------------------------
\* save_openai_connector_settings reads the switch in one section of the mutex
\* and saves the key, if one was entered, and the settings in another.
BeginSave == /\ saving = {}
             /\ saving' = {memory.enabled}
             /\ UNCHANGED <<storeVars, call, tunnelVars, created>>

Keyed == [memory EXCEPT !.key = TRUE]

\* Mutant of SaveKey: the key is written through SecretStore, the copy not.
SaveKeyToFile(enabled) == /\ file' = [Read EXCEPT !.key = TRUE]
                          /\ UNCHANGED <<memory, saved>>

\* Two writes of the whole file; the second may fail after the first.
SaveKey(enabled) ==
    LET all == [Keyed EXCEPT !.enabled = enabled]
    IN  \/ Commit(all)
        \/ memory' = Keyed /\ WriteFails
        \/ "save" \in Faults /\ memory' = all /\ file' = Keyed /\ saved' = FALSE

SaveSettings == \E enabled \in saving :
                   /\ \/ SaveKey(enabled)
                      \/ Commit([memory EXCEPT !.enabled = enabled])
                   /\ saving' = {}
                   /\ UNCHANGED <<call, tunnelVars, created>>

-----------------------------------------------------------------------------
\* start_openai_connector for a workspace whose service runs; the key is read
\* from the file.
BeginStart(c) == /\ At(c, "idle")
                 /\ Read.key
                 /\ Goto(c, "secret")
                 /\ UNCHANGED <<storeVars, saving, tunnelVars, created>>

\* get_or_create_app: the file is read, and written in a second access.
GetSecret(c) ==
    /\ At(c, "secret")
    /\ call' = [call EXCEPT ![c] = [pc |-> IF Read.token = 0 THEN "create" ELSE "launch",
                                    token |-> Read.token]]
    /\ UNCHANGED <<storeVars, saving, tunnelVars, created>>

CreateSecret(c) ==
    /\ At(c, "create")
    /\ created < MaxToken
    /\ created' = created + 1
    /\ UpdateFile(created')
    /\ IF file' # Torn /\ file'.token = created'
       THEN call' = [call EXCEPT ![c] = [pc |-> "launch", token |-> created']]
       ELSE End(c)
    /\ UNCHANGED <<saving, tunnelVars>>

\* The process that runs is ended and the secret written where the new one
\* reads it; without a binary the start fails before.
Launch(c) == /\ At(c, "launch")
             /\ \/ process' = 0 /\ tokenFile' = call[c].token /\ Goto(c, "spawn")
                \/ process' \in {0, process} /\ UNCHANGED tokenFile /\ End(c)
             /\ UNCHANGED <<storeVars, saving, created>>

\* A process another start has spawned meanwhile is dropped, and ends.
Spawn(c) == /\ At(c, "spawn")
            /\ \/ process' = tokenFile /\ Goto(c, "wait")
               \/ UNCHANGED process /\ End(c)
            /\ UNCHANGED <<storeVars, saving, tokenFile, created>>

\* Ready; or ended or not ready in time, and then shut down; or the status
\* could not be read.
Wait(c) == /\ At(c, "wait")
           /\ \/ process # 0 /\ Goto(c, "enable") /\ UNCHANGED process
              \/ process' \in {0, process} /\ End(c)
           /\ UNCHANGED <<storeVars, saving, tokenFile, created>>

SetEnabled(c, enabled) == /\ Commit([memory EXCEPT !.enabled = enabled])
                          /\ End(c)
                          /\ UNCHANGED <<saving, tunnelVars, created>>

Enable(c) == At(c, "enable") /\ SetEnabled(c, TRUE)

BeginStop(c) == /\ At(c, "idle")
                /\ process' = 0
                /\ Goto(c, "disable")
                /\ UNCHANGED <<storeVars, saving, tokenFile, created>>

Disable(c) == At(c, "disable") /\ SetEnabled(c, FALSE)

Step(c) == \/ BeginStart(c) \/ GetSecret(c) \/ CreateSecret(c) \/ Launch(c)
           \/ Spawn(c) \/ Wait(c) \/ Enable(c) \/ BeginStop(c) \/ Disable(c)

\* The tunnel process ends by itself.
ProcessEnds == /\ process # 0 /\ process' = 0
               /\ UNCHANGED <<storeVars, call, saving, tokenFile, created>>

\* The program ends, and the process with it, perhaps in the middle of a write
\* that has emptied the file.
Crash == /\ "crash" \in Faults
         /\ \E from \in {Read, Empty} : Reload(from)
         /\ call' = [c \in Caller |-> NoCall]
         /\ saving' = {} /\ process' = 0
         /\ UNCHANGED <<tokenFile, created>>

Init == /\ StoreInit
        /\ call = [c \in Caller |-> NoCall]
        /\ saving = {} /\ process = 0 /\ tokenFile = 0 /\ created = 0

Next == \/ WorkspaceCommand /\ UNCHANGED <<call, saving, tunnelVars, created>>
        \/ BeginSave \/ SaveSettings
        \/ \E c \in Caller : Step(c)
        \/ ProcessEnds \/ Crash

Spec == Init /\ [][Next]_vars

-----------------------------------------------------------------------------
TypeOK == /\ StoreTypeOK
          /\ call \in [Caller -> Calls]
          /\ saving \subseteq BOOLEAN
          /\ process \in 0 .. MaxToken
          /\ tokenFile \in 0 .. MaxToken
          /\ created \in 0 .. MaxToken

\* While nothing is under way, the running process presents the secret the
\* listener expects.
ProcessIsKnown ==
    process # 0 /\ (\A c \in Caller : At(c, "idle")) => process = Read.token
=============================================================================
