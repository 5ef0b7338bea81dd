------------------------------ MODULE DataStore ------------------------------
(***************************************************************************)
(* The application's data (data/store.rs): one copy in memory, behind the  *)
(* mutex of AppState, and one file.  A command changes the copy and writes *)
(* all of it over the file; SecretStore reads and writes the file without  *)
(* the copy.  Modelled are the workspaces, with the port and the FRP       *)
(* subdomain each claims (workspace/resources.rs), and the secrets and the *)
(* switch of the OpenAI connector.                                         *)
(***************************************************************************)
EXTENDS Integers, FiniteSets

CONSTANTS Workspace,    \* workspace ids
          Port,         \* the ports, first .. last
          DefaultPort,  \* the port a new profile asks for
          Subdomain,    \* FRP subdomains, compared without case
          NoSubdomain,  \* blank, or the tunnel is not FRP
          NoClaim,      \* the workspace does not exist
          MaxToken,     \* bound: secrets created
          Faults        \* "save": a write may fail; "crash": the program may end

ASSUME DataAssumption ==
    /\ Port \subseteq Nat /\ IsFiniteSet(Port) /\ DefaultPort \in Port
    /\ NoSubdomain \notin Subdomain
    /\ NoClaim \notin [port : Port, sub : Subdomain \cup {NoSubdomain}]
    /\ MaxToken \in Nat
    /\ Faults \subseteq {"save", "crash"}

VARIABLES memory,   \* the copy in AppState
          file,     \* the file; Torn if it does not parse
          saved     \* history: no write failed since the copy was last written

storeVars == <<memory, file, saved>>

Claims == [port : Port, sub : Subdomain \cup {NoSubdomain}]

\* `key`: the connector's runtime key was entered.  `token`: its MCP secret,
\* random, 0 if there is none.
Data == [claim : [Workspace -> Claims \cup {NoClaim}],
         key : BOOLEAN, token : 0 .. MaxToken, enabled : BOOLEAN]

Empty == [claim |-> [w \in Workspace |-> NoClaim],
          key |-> FALSE, token |-> 0, enabled |-> FALSE]
Torn == [torn |-> TRUE]

\* load_or_migrate: a file that does not parse reads as no data at all.
Read == IF file = Torn THEN Empty ELSE file

\* A failing write leaves the file as it was or truncated.
WriteFails == /\ "save" \in Faults
              /\ file' \in {file, Torn}
              /\ saved' = FALSE

\* A command: change the copy, then save().  The copy keeps the change when
\* the write fails.
Commit(data) == /\ memory' = data
                /\ \/ file' = data /\ saved' = TRUE
                   \/ WriteFails

\* Mutant of UpdateFile: what is written is not what was read.
UpdateFileFresh(token) == /\ file' = [Empty EXCEPT !.token = token]
                          /\ UNCHANGED <<memory, saved>>

\* DataStore::update_file
UpdateFile(token) == /\ \/ file' = [Read EXCEPT !.token = token] /\ UNCHANGED saved
                        \/ WriteFails
                     /\ UNCHANGED memory

-----------------------------------------------------------------------------
Exists(w) == memory.claim[w] # NoClaim
Others(w) == {memory.claim[v] : v \in {u \in Workspace \ {w} : Exists(u)}}
SameSubdomain(c, d) == c.sub # NoSubdomain /\ c.sub = d.sub

\* Mutant of FreePorts: the search starts and ends one port too high.
FreePortsAbove(w) ==
    {p \in {q + 1 : q \in Port} : p > DefaultPort /\ \A c \in Others(w) : c.port # p}

\* assign_free_workspace_ports, next_free_port
FreePorts(w) == {p \in Port : p >= DefaultPort /\ \A c \in Others(w) : c.port # p}
NextFree(w) == CHOOSE p \in FreePorts(w) : \A q \in FreePorts(w) : p <= q

\* Mutant of ValidUpdate: the claim is compared only if the port changes.
ValidPortOnly(w, c) ==
    memory.claim[w].port # c.port => \A d \in Others(w) : d.port # c.port

\* validate_workspace_resources_update: an unchanged claim is not validated.
ValidUpdate(w, c) ==
    memory.claim[w] # c =>
        \A d \in Others(w) : d.port # c.port /\ ~SameSubdomain(c, d)

SetClaim(w, c) == Commit([memory EXCEPT !.claim[w] = c])

CreateWorkspace(w) == /\ ~Exists(w)
                      /\ FreePorts(w) # {}
                      /\ SetClaim(w, [port |-> NextFree(w), sub |-> NoSubdomain])

UpdateWorkspace(w, c) == /\ Exists(w)
                         /\ ValidUpdate(w, c)
                         /\ SetClaim(w, c)

RemoveWorkspace(w) == Exists(w) /\ SetClaim(w, NoClaim)

WorkspaceCommand ==
    \E w \in Workspace : \/ CreateWorkspace(w) \/ RemoveWorkspace(w)
                         \/ \E c \in Claims : UpdateWorkspace(w, c)

-----------------------------------------------------------------------------
StoreInit == memory = Empty /\ file = Empty /\ saved = TRUE

\* The program starts: DataStore::load, init_shared_secrets.
Reload(from) == memory' = from /\ file' = from /\ saved' = TRUE

-----------------------------------------------------------------------------
StoreTypeOK == /\ memory \in Data
               /\ file \in Data \cup {Torn}
               /\ saved \in BOOLEAN

Distinct(data) ==
    \A v \in Workspace : \A w \in Workspace \ {v} :
        LET c == data.claim[v]  d == data.claim[w]
        IN  c # NoClaim /\ d # NoClaim => c.port # d.port /\ ~SameSubdomain(c, d)

\* No two workspaces claim one port or one subdomain, in the copy or in the
\* file, whatever commands ran, writes failed and restarts happened.
ClaimsDistinct == Distinct(memory) /\ Distinct(Read)

\* Until a write fails the file holds what the copy in memory holds, whatever
\* SecretStore wrote to it meanwhile: what a command was told to be saved is
\* there after a restart of the program.
SavedIsDurable ==
    saved => /\ file # Torn
             /\ file.claim = memory.claim
             /\ file.key = memory.key /\ file.enabled = memory.enabled
             /\ memory.token # 0 => file.token # 0
=============================================================================
