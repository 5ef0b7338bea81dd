---------------------------- MODULE AccessProofs ----------------------------
(***************************************************************************)
(* Proofs about what is saved of the workspaces and who is let in to them: *)
(* the data of DataStore under the commands of OpenAiConnector, for any    *)
(* number of workspaces, ports and callers (its types, that no two         *)
(* workspaces claim one port or subdomain, and that the file holds what was*)
(* saved), and the authorization of OAuthFlow, for any number of logins,   *)
(* clients, addresses and token requests (one approval is worth one pair of*)
(* tokens, and the pair is for whom it was given).                         *)
(*                                                                         *)
(* And about the web models: connecting and disconnecting Codex in         *)
(* WebBridge, for any set of operations (Codex is not left configured for a*)
(* port nobody holds, and no call works on the window while it is          *)
(* destroyed), and the Codex configuration of CodexRoute (however often the*)
(* user edits it, what the user wrote is never lost), and the answer of    *)
(* TurnStream, for any texts of the page (what a client is streamed is the *)
(* answer of its own turn, and is never taken back).                       *)
(***************************************************************************)
EXTENDS OpenAiConnector, OAuthFlow, WebBridge, CodexRoute, TurnStream, SequenceTheorems, WellFoundedInduction, TLAPS

-----------------------------------------------------------------------------
(* The helpers of the store                                                *)

\* Of any ports there is a lowest one.
LEMMA LowestPort ==
    ASSUME NEW ports \in SUBSET Nat, ports # {}
    PROVE  \E p \in ports : \A q \in ports : p <= q
<1>1. PICK p \in ports : \A q \in ports : ~(<<q, p>> \in OpToRel(<, Nat))
  BY NatLessThanWellFounded, WFMin, Zenon
<1>2. \A q \in ports : ~(q < p)
  BY <1>1 DEF OpToRel
<1> QED
  BY <1>2

\* assign_free_workspace_ports gives a port that no other workspace claims.
LEMMA NextFreeIsFree ==
    ASSUME NEW w \in Workspace, FreePorts(w) # {}
    PROVE  NextFree(w) \in FreePorts(w)
<1>1. FreePorts(w) \in SUBSET Nat
  BY DataAssumption DEF FreePorts
<1>2. \E p \in FreePorts(w) : \A q \in FreePorts(w) : p <= q
  BY <1>1, LowestPort
<1> QED
  BY <1>2 DEF NextFree

\* A file that was cut off is no data.
LEMMA TornIsNoData == Torn \notin Data
<1>1. "key" \notin DOMAIN Torn
  BY DEF Torn
<1>2. \A d \in Data : "key" \in DOMAIN d
  BY DEF Data
<1> QED
  BY <1>1, <1>2

LEMMA EmptyIsData == Empty \in Data
BY DataAssumption DEF Empty, Data

\* What is read is data, and the file if that was not cut off.
LEMMA ReadIsData ==
    ASSUME StoreTypeOK
    PROVE  Read \in Data /\ (file # Torn => Read = file)
BY EmptyIsData DEF StoreTypeOK, Read

\* After a commit of data both places hold data, and the same unless the write
\* failed.
LEMMA CommitKeepsTypes ==
    ASSUME StoreTypeOK, NEW data \in Data, Commit(data)
    PROVE  StoreTypeOK'
BY DEF StoreTypeOK, Commit, WriteFails

LEMMA CommitKeepsClaims ==
    ASSUME StoreTypeOK, ClaimsDistinct, NEW data \in Data, Distinct(data),
           Commit(data)
    PROVE  ClaimsDistinct'
BY DEF StoreTypeOK, Commit, WriteFails, ClaimsDistinct, Read, Distinct, Empty,
       SameSubdomain

LEMMA CommitIsDurable ==
    ASSUME StoreTypeOK, NEW data \in Data, Commit(data)
    PROVE  SavedIsDurable'
BY TornIsNoData DEF StoreTypeOK, Commit, WriteFails, SavedIsDurable

-----------------------------------------------------------------------------
(* The data that the commands commit                                       *)

\* A claim for a workspace that conflicts with no other keeps the claims apart.
LEMMA ClaimKeepsDistinct ==
    ASSUME StoreTypeOK, Distinct(memory), NEW w \in Workspace, NEW c \in Claims,
           \A d \in Others(w) : d.port # c.port /\ ~SameSubdomain(c, d)
    PROVE  Distinct([memory EXCEPT !.claim[w] = c])
<1> DEFINE data == [memory EXCEPT !.claim[w] = c]
<1>1. data.claim = [memory.claim EXCEPT ![w] = c]
  BY DEF StoreTypeOK, Data
<1>2. \A v \in Workspace \ {w} : Exists(v) => memory.claim[v] \in Others(w)
  BY DEF Others
<1>3. \A v \in Workspace : v # w => data.claim[v] = memory.claim[v]
  BY <1>1 DEF StoreTypeOK, Data
<1>4. data.claim[w] = c
  BY <1>1 DEF StoreTypeOK, Data
<1>5. ASSUME NEW u \in Workspace, NEW v \in Workspace \ {u},
             data.claim[u] # NoClaim, data.claim[v] # NoClaim
      PROVE  /\ data.claim[u].port # data.claim[v].port
             /\ ~SameSubdomain(data.claim[u], data.claim[v])
  <2>1. CASE u = w
    BY <1>2, <1>3, <1>4, <1>5, <2>1 DEF Exists
  <2>2. CASE v = w
    <3>1. memory.claim[u] \in Others(w) /\ data.claim[u] = memory.claim[u]
      BY <1>2, <1>3, <1>5, <2>2 DEF Exists
    <3> QED
      BY <1>4, <2>2, <3>1 DEF SameSubdomain
  <2>3. CASE u # w /\ v # w
    BY <1>3, <1>5, <2>3 DEF Distinct
  <2> QED
    BY <2>1, <2>2, <2>3
<1> QED
  BY <1>5 DEF Distinct

\* Every command on a workspace commits data in which the claims are distinct.
LEMMA CommandCommits ==
    ASSUME StoreTypeOK, Distinct(memory), WorkspaceCommand
    PROVE  \E data \in Data : Distinct(data) /\ Commit(data)
<1> DEFINE Taking(w, c) == [memory EXCEPT !.claim[w] = c]
<1>1. \A w \in Workspace : \A c \in Claims \cup {NoClaim} : Taking(w, c) \in Data
  BY DEF StoreTypeOK, Data
<1>2. ASSUME NEW w \in Workspace, CreateWorkspace(w)
      PROVE  \E data \in Data : Distinct(data) /\ Commit(data)
  <2> DEFINE c == [port |-> NextFree(w), sub |-> NoSubdomain]
  <2>1. NextFree(w) \in FreePorts(w)
    BY <1>2, NextFreeIsFree DEF CreateWorkspace
  <2>2. c \in Claims /\ \A d \in Others(w) : d.port # c.port /\ ~SameSubdomain(c, d)
    BY <2>1 DEF FreePorts, Claims, SameSubdomain
  <2>3. Distinct(Taking(w, c))
    BY <2>2, ClaimKeepsDistinct
  <2> QED
    BY <1>1, <1>2, <2>2, <2>3 DEF CreateWorkspace, SetClaim
<1>3. ASSUME NEW w \in Workspace, RemoveWorkspace(w)
      PROVE  \E data \in Data : Distinct(data) /\ Commit(data)
  <2>1. Distinct(Taking(w, NoClaim))
    BY DEF Distinct, StoreTypeOK, Data
  <2> QED
    BY <1>1, <1>3, <2>1 DEF RemoveWorkspace, SetClaim
<1>4. ASSUME NEW w \in Workspace, NEW c \in Claims, UpdateWorkspace(w, c)
      PROVE  \E data \in Data : Distinct(data) /\ Commit(data)
  <2>1. CASE memory.claim[w] = c
    <3>1. Taking(w, c) = memory
      BY <2>1 DEF StoreTypeOK, Data
    <3> QED
      BY <1>1, <1>4, <3>1 DEF UpdateWorkspace, SetClaim
  <2>2. CASE memory.claim[w] # c
    <3>1. Distinct(Taking(w, c))
      BY <1>4, <2>2, ClaimKeepsDistinct DEF UpdateWorkspace, ValidUpdate
    <3> QED
      BY <1>1, <1>4, <3>1 DEF UpdateWorkspace, SetClaim
  <2> QED
    BY <2>1, <2>2
<1> QED
  BY <1>2, <1>3, <1>4 DEF WorkspaceCommand
-----------------------------------------------------------------------------
(* The steps of the connector                                              *)

\* What a step does to the data: a commit, a write of a new secret through
\* SecretStore, a failed write between two writes, a new start, or nothing.
CommitsData == \E data \in Data : Distinct(data) /\ Commit(data)
SavesInParts == \E data \in Data, part \in Data :
                    /\ Distinct(data) /\ Distinct(part)
                    /\ memory' = data /\ file' = part /\ saved' = FALSE
CreatesSecret == \E token \in 1 .. MaxToken : UpdateFile(token)
Restarts == \E from \in {Read, Empty} : Reload(from)

\* A save of the settings commits, or is cut off between its two writes.
LEMMA SaveSettingsWrites ==
    ASSUME TypeOK, Distinct(memory), SaveSettings
    PROVE  CommitsData \/ SavesInParts
<1> USE DEF TypeOK
<1> PICK enabled \in saving : SaveKey(enabled) \/ Commit([memory EXCEPT !.enabled = enabled])
  BY DEF SaveSettings
<1>1. Keyed \in Data /\ Distinct(Keyed)
  BY DEF StoreTypeOK, Data, Distinct, Keyed
<1> DEFINE all == [Keyed EXCEPT !.enabled = enabled]
           switched == [memory EXCEPT !.enabled = enabled]
<1>2. /\ all \in Data /\ Distinct(all)
      /\ switched \in Data /\ Distinct(switched)
  BY DEF StoreTypeOK, Data, Distinct, Keyed
<1>3. CASE Commit(all)
  BY <1>2, <1>3 DEF CommitsData
<1>4. CASE memory' = Keyed /\ WriteFails
  BY <1>1, <1>4 DEF CommitsData, Commit
<1>5. CASE memory' = all /\ file' = Keyed /\ saved' = FALSE
  BY <1>1, <1>2, <1>5 DEF SavesInParts
<1>6. CASE Commit(switched)
  BY <1>2, <1>6 DEF CommitsData
<1> QED
  BY <1>3, <1>4, <1>5, <1>6 DEF SaveKey

LEMMA StepOnData ==
    ASSUME TypeOK, Distinct(memory), [Next]_vars
    PROVE  CommitsData \/ SavesInParts \/ CreatesSecret \/ Restarts \/ UNCHANGED storeVars
<1>1. CASE WorkspaceCommand
  BY <1>1, CommandCommits DEF CommitsData, TypeOK
<1>2. CASE SaveSettings
  BY <1>2, SaveSettingsWrites
<1>3. CASE Crash
  BY <1>3 DEF Crash, Restarts
<1>4. ASSUME NEW c \in Caller, Step(c)
      PROVE  CommitsData \/ CreatesSecret \/ UNCHANGED storeVars
  <2>1. CASE CreateSecret(c)
    <3>1. created' \in 1 .. MaxToken
      BY <2>1, DataAssumption DEF CreateSecret, TypeOK
    <3> QED
      BY <2>1, <3>1 DEF CreateSecret, CreatesSecret
  <2>2. CASE Enable(c) \/ Disable(c)
    <3>1. PICK enabled \in BOOLEAN : Commit([memory EXCEPT !.enabled = enabled])
      BY <2>2 DEF Enable, Disable, SetEnabled
    <3>2. /\ [memory EXCEPT !.enabled = enabled] \in Data
          /\ Distinct([memory EXCEPT !.enabled = enabled])
      BY DEF TypeOK, StoreTypeOK, Data, Distinct
    <3> QED
      BY <3>1, <3>2 DEF CommitsData
  <2>3. CASE BeginStart(c) \/ GetSecret(c) \/ Launch(c) \/ Spawn(c) \/ Wait(c) \/ BeginStop(c)
    BY <2>3 DEF BeginStart, GetSecret, Launch, Spawn, Wait, BeginStop
  <2> QED
    BY <1>4, <2>1, <2>2, <2>3 DEF Step
<1>5. CASE BeginSave \/ ProcessEnds \/ UNCHANGED vars
  BY <1>5 DEF BeginSave, ProcessEnds, vars
<1> QED
  BY <1>1, <1>2, <1>3, <1>4, <1>5 DEF Next
-----------------------------------------------------------------------------
(* The theorems                                                            *)

\* The inductive invariant.
IInv == TypeOK /\ ClaimsDistinct /\ SavedIsDurable

\* Where nothing is stored no claims conflict, and what is read from the file
\* is data with distinct claims.
LEMMA ReadIsDistinct ==
    ASSUME ClaimsDistinct
    PROVE  Distinct(Read) /\ Distinct(Empty)
BY DEF ClaimsDistinct, Distinct, Empty

LEMMA FileKeepsDistinct ==
    ASSUME ClaimsDistinct, NEW data, Distinct(data), file' \in {data, file, Torn}
    PROVE  Distinct(Read)'
<1>1. Read' \in {data, Read, Empty}
  BY DEF Read
<1> QED
  BY <1>1, ReadIsDistinct DEF Distinct, SameSubdomain

LEMMA MemoryKeepsDistinct ==
    ASSUME NEW data, Distinct(data), memory' = data
    PROVE  Distinct(memory)'
BY DEF Distinct, SameSubdomain

LEMMA StoreStep ==
    ASSUME IInv, \/ CommitsData \/ SavesInParts \/ CreatesSecret
                 \/ Restarts \/ UNCHANGED storeVars
    PROVE  StoreTypeOK' /\ ClaimsDistinct' /\ SavedIsDurable'
<1> USE DEF IInv, TypeOK
<1>1. CASE CommitsData
  BY <1>1, CommitKeepsTypes, CommitKeepsClaims, CommitIsDurable DEF CommitsData
<1>2. CASE SavesInParts
  <2>1. PICK data \in Data, part \in Data :
            /\ Distinct(data) /\ Distinct(part)
            /\ memory' = data /\ file' = part /\ saved' = FALSE
    BY <1>2 DEF SavesInParts
  <2>2. StoreTypeOK'
    BY <2>1 DEF StoreTypeOK
  <2>3. Distinct(Read)' /\ Distinct(memory)'
    BY <2>1, FileKeepsDistinct, MemoryKeepsDistinct
  <2> QED
    BY <2>1, <2>2, <2>3 DEF ClaimsDistinct, SavedIsDurable
<1>3. CASE CreatesSecret
  <2>1. PICK token \in 1 .. MaxToken : UpdateFile(token)
    BY <1>3 DEF CreatesSecret
  <2> DEFINE data == [Read EXCEPT !.token = token]
  <2>2. /\ data \in Data /\ data.token # 0
        /\ data.claim = Read.claim /\ data.key = Read.key /\ data.enabled = Read.enabled
    BY <2>1, ReadIsData, DataAssumption DEF Data
  <2>3. StoreTypeOK'
    BY <2>1, <2>2 DEF UpdateFile, WriteFails, StoreTypeOK
  <2>4. Distinct(data)
    BY <2>2, ReadIsDistinct DEF Distinct
  <2>5. file' \in {data, file, Torn} /\ memory' = memory
    BY <2>1 DEF UpdateFile, WriteFails
  <2>6. ClaimsDistinct'
    BY <2>4, <2>5, FileKeepsDistinct, MemoryKeepsDistinct DEF ClaimsDistinct
  <2>7. SavedIsDurable'
    BY <2>1, <2>2, ReadIsData, TornIsNoData DEF UpdateFile, WriteFails, SavedIsDurable
  <2> QED
    BY <2>3, <2>6, <2>7
<1>4. CASE Restarts
  <2>1. PICK from \in {Read, Empty} : Reload(from)
    BY <1>4 DEF Restarts
  <2>2. Read \in Data /\ Empty \in Data
    BY ReadIsData, EmptyIsData
  <2>3. StoreTypeOK'
    BY <2>1, <2>2 DEF Reload, StoreTypeOK
  <2>4. ClaimsDistinct'
    BY <2>1, ReadIsDistinct, FileKeepsDistinct, MemoryKeepsDistinct DEF Reload, ClaimsDistinct
  <2>5. SavedIsDurable'
    BY <2>1, <2>2, TornIsNoData DEF Reload, SavedIsDurable
  <2> QED
    BY <2>3, <2>4, <2>5
<1>5. CASE UNCHANGED storeVars
  BY <1>5 DEF storeVars, StoreTypeOK, ClaimsDistinct, SavedIsDurable, Read, Distinct,
              SameSubdomain, Empty
<1> QED
  BY <1>1, <1>2, <1>3, <1>4, <1>5
\* No step takes the commands, the processes or the secrets out of their types.
LEMMA ConnectorTypes ==
    ASSUME TypeOK, [Next]_vars
    PROVE  /\ call' \in [Caller -> Calls] /\ saving' \subseteq BOOLEAN
           /\ process' \in 0 .. MaxToken /\ tokenFile' \in 0 .. MaxToken
           /\ created' \in 0 .. MaxToken
<1> USE DataAssumption DEF TypeOK
<1>1. ASSUME NEW c \in Caller, Step(c)
      PROVE  call' \in [Caller -> Calls]
  <2>1. CASE GetSecret(c)
    BY <2>1, ReadIsData DEF GetSecret, Calls, Data
  <2>2. CASE CreateSecret(c)
    BY <2>2 DEF CreateSecret, Calls, End, NoCall
  <2>3. CASE \/ BeginStart(c) \/ Launch(c) \/ Spawn(c) \/ Wait(c)
             \/ Enable(c) \/ BeginStop(c) \/ Disable(c)
    BY <2>3 DEF BeginStart, Launch, Spawn, Wait, Enable, BeginStop, Disable, SetEnabled,
                Goto, End, NoCall, Calls
  <2> QED
    BY <1>1, <2>1, <2>2, <2>3 DEF Step
<1>2. ASSUME NEW c \in Caller, Step(c)
      PROVE  /\ saving' \subseteq BOOLEAN
             /\ process' \in 0 .. MaxToken /\ tokenFile' \in 0 .. MaxToken
             /\ created' \in 0 .. MaxToken
  BY <1>2 DEF Step, BeginStart, GetSecret, CreateSecret, Launch, Spawn, Wait, Enable,
              BeginStop, Disable, SetEnabled, tunnelVars, Calls
<1>3. CASE BeginSave
  BY <1>3 DEF BeginSave, StoreTypeOK, Data, tunnelVars
<1>4. CASE SaveSettings
  BY <1>4 DEF SaveSettings, tunnelVars
<1>5. CASE Crash
  BY <1>5 DEF Crash, NoCall, Calls
<1>6. CASE \/ WorkspaceCommand /\ UNCHANGED <<call, saving, tunnelVars, created>>
           \/ ProcessEnds \/ UNCHANGED vars
  BY <1>6 DEF ProcessEnds, vars, tunnelVars
<1> QED
  BY <1>1, <1>2, <1>3, <1>4, <1>5, <1>6 DEF Next

-----------------------------------------------------------------------------
(* The theorems                                                            *)

LEMMA Initially == Init => IInv
<1> SUFFICES ASSUME Init PROVE IInv
  OBVIOUS
<1>1. memory = Empty /\ file = Empty
  BY DEF Init, StoreInit
<1>2. TypeOK
  BY EmptyIsData, DataAssumption DEF Init, StoreInit, TypeOK, StoreTypeOK, Calls, NoCall
<1>3. ClaimsDistinct
  <2>1. Distinct(Empty)
    BY DEF Distinct, Empty
  <2> QED
    BY <1>1, <2>1 DEF ClaimsDistinct, Read
<1>4. SavedIsDurable
  BY <1>1, EmptyIsData, TornIsNoData DEF SavedIsDurable
<1> QED
  BY <1>2, <1>3, <1>4 DEF IInv

LEMMA Inductive == IInv /\ [Next]_vars => IInv'
BY StepOnData, StoreStep, ConnectorTypes DEF IInv, TypeOK, ClaimsDistinct

LEMMA Invariance == Spec => []IInv
BY Initially, Inductive, PTL DEF Spec

\* The data, the commands under way and the processes are always well typed.
THEOREM StoreTypeCorrect == Spec => []TypeOK
BY Invariance, PTL DEF IInv

\* No two workspaces ever claim one port or one FRP subdomain, in memory or in
\* the file: create_workspace, update_workspace and a reload after any failed
\* or interrupted write keep them apart.
THEOREM ClaimsStayDistinct == Spec => []ClaimsDistinct
BY Invariance, PTL DEF IInv

\* Until a write fails the file holds what was saved: no write of SecretStore
\* undoes a command.
THEOREM SavesAreDurable == Spec => []SavedIsDurable
BY Invariance, PTL DEF IInv

-----------------------------------------------------------------------------
(* The authorization                                                       *)

\* A request comes from a client, by an address, and with a code that a
\* redirection handed out.
Came(q) == /\ q.client \in Client /\ q.at \in Address
           /\ q.code \in Login /\ login[q.code].pc = "redirected"

Sent == \A r \in Request : request[r].pc # "idle" => Came(request[r])

\* A code is in one place: in the table, with one request, or used up.
InTable(l) == login[l].pending
WithLogin(r, l) == request[r].pc = "check" /\ request[r].code = l
UsedUp(l) == granted[l] # <<>>

OnePlace == \A l \in Login :
    /\ InTable(l) => login[l].pc = "redirected"
    /\ UsedUp(l) => login[l].pc = "redirected"
    /\ InTable(l) => ~UsedUp(l)
    /\ \A r \in Request : WithLogin(r, l) => ~InTable(l) /\ ~UsedUp(l)
    /\ \A r, s \in Request : WithLogin(r, l) /\ WithLogin(s, l) => r = s

OAuthInv == OAuthTypeOK /\ Sent /\ OnePlace /\ CodeOnce /\ GrantMatchesApproval

Grants == [client : Client, v : Login \cup {None}]

-----------------------------------------------------------------------------
LEMMA InitHolds == ASSUME OAuthBounds, OAuthInit PROVE OAuthInv
<1> USE DEF OAuthBounds, OAuthInit, NoLogin, NoRequest, Logins, Requests, Secrets
<1>1. 0 \in Secrets
  OBVIOUS
<1>2. NoLogin \in Logins /\ NoRequest \in Requests
  OBVIOUS
<1>3. url \in Address
  OBVIOUS
<1>4. OAuthTypeOK
  <2>1. granted \in [Login -> Seq([client : Client, v : Login \cup {None}])]
    OBVIOUS
  <2> QED BY <1>1, <1>2, <1>3, <2>1 DEF OAuthTypeOK
<1>5. Sent /\ OnePlace
  BY DEF Sent, Came, OnePlace, InTable, WithLogin, UsedUp
<1>6. CodeOnce /\ GrantMatchesApproval
  BY DEF CodeOnce, GrantMatchesApproval
<1> QED BY <1>4, <1>5, <1>6 DEF OAuthInv

\* What the steps make of a login and of a request.
LEMMA PageShown == ASSUME MaxSecret \in Nat, NEW c \in Client, url \in Address PROVE
    LoginPage(c) \in Logins /\ LoginPage(c).pc = "page" /\ ~LoginPage(c).pending
BY DEF LoginPage, Logins, Secrets

LEMMA Redirected == ASSUME NEW m \in Logins, NEW s \in Secrets PROVE
    LET n == [m EXCEPT !.pc = "redirected", !.under = s, !.pending = TRUE]
    IN  n \in Logins /\ n.pc = "redirected" /\ n.client = m.client
BY DEF Logins

LEMMA Pending == ASSUME NEW m \in Logins, NEW b \in BOOLEAN PROVE
    LET n == [m EXCEPT !.pending = b]
    IN  n \in Logins /\ n.pc = m.pc /\ n.client = m.client /\ n.pending = b
BY DEF Logins

LEMMA Checking == ASSUME NEW q \in Requests PROVE
    LET n == [q EXCEPT !.pc = "check"]
    IN  /\ n \in Requests /\ n.pc = "check"
        /\ n.code = q.code /\ n.client = q.client /\ n.at = q.at
BY DEF Requests

LEMMA Nothing == NoRequest.pc = "idle" /\ NoLogin.pc = "start" /\ ~NoLogin.pending
BY DEF NoRequest, NoLogin

LEMMA NothingTyped == ASSUME MaxSecret \in Nat PROVE NoRequest \in Requests /\ NoLogin \in Logins
BY DEF NoRequest, NoLogin, Logins, Requests, Secrets

-----------------------------------------------------------------------------
\* A step that leaves the logins, the requests and the grants alone.
LEMMA Apart == ASSUME OAuthInv, OAuthTypeOK', UNCHANGED <<login, request, granted>> PROVE OAuthInv'
BY DEF OAuthInv, Sent, Came, OnePlace, InTable, WithLogin, UsedUp, CodeOnce, GrantMatchesApproval

\* A step of one login, which is not redirected before: it has no code yet.
LEMMA LoginMoves ==
    ASSUME OAuthInv, OAuthTypeOK', UNCHANGED <<request, granted>>,
           NEW l \in Login, login[l].pc # "redirected",
           login'[l].pending => login'[l].pc = "redirected",
           \A k \in Login : k # l => /\ login'[k].pc = login[k].pc
                                     /\ login'[k].client = login[k].client
                                     /\ login'[k].pending => login[k].pending
    PROVE  OAuthInv'
<1>1. granted[l] = <<>> /\ \A r \in Request : ~WithLogin(r, l)
  BY DEF OAuthInv, OnePlace, UsedUp, WithLogin, Sent, Came
<1>2. Sent'
  BY DEF OAuthInv, Sent, Came
<1>3. OnePlace'
  BY <1>1 DEF OAuthInv, OnePlace, InTable, WithLogin, UsedUp
<1>4. CodeOnce' /\ GrantMatchesApproval'
  BY <1>1 DEF OAuthInv, CodeOnce, GrantMatchesApproval
<1> QED BY <1>2, <1>3, <1>4 DEF OAuthInv

LEMMA PageHolds == ASSUME OAuthBounds, OAuthInv, NEW l \in Login, NEW c \in Client, AuthorizeGet(l, c)
                   PROVE  OAuthInv'
<1>1. LoginPage(c) \in Logins /\ LoginPage(c).pc = "page" /\ ~LoginPage(c).pending
  BY PageShown DEF OAuthBounds, OAuthInv, OAuthTypeOK
<1>2. login' = [login EXCEPT ![l] = LoginPage(c)] /\ login[l].pc = "start"
  BY DEF AuthorizeGet
<1>3. OAuthTypeOK'
  BY <1>1, <1>2 DEF AuthorizeGet, OAuthInv, OAuthTypeOK
<1>4. login'[l] = LoginPage(c) /\ \A k \in Login : k # l => login'[k] = login[k]
  BY <1>2 DEF OAuthInv, OAuthTypeOK
<1> QED BY <1>1, <1>2, <1>3, <1>4, LoginMoves DEF AuthorizeGet

LEMMA AbandonHolds == ASSUME OAuthBounds, OAuthInv, NEW l \in Login, Abandon(l) PROVE OAuthInv'
<1>1. login' = [login EXCEPT ![l] = NoLogin] /\ login[l].pc = "page"
  BY DEF Abandon
<1>2. OAuthTypeOK'
  BY <1>1, NothingTyped DEF Abandon, OAuthBounds, OAuthInv, OAuthTypeOK
<1>3. login'[l] = NoLogin /\ \A k \in Login : k # l => login'[k] = login[k]
  BY <1>1 DEF OAuthInv, OAuthTypeOK
<1> QED BY <1>1, <1>2, <1>3, Nothing, LoginMoves DEF Abandon

LEMMA ApprovalHolds == ASSUME OAuthInv, NEW l \in Login, AuthorizePost(l) PROVE OAuthInv'
<1> DEFINE sent == [login[l] EXCEPT !.pc = "redirected", !.under = secret, !.pending = TRUE]
           Other(k) == [login[k] EXCEPT !.pending = login[k].pending /\ k \notin expired]
<1>1. login' = [k \in Login |-> IF k = l THEN sent ELSE Other(k)] /\ login[l].pc = "page"
  BY DEF AuthorizePost
<1>2. \A k \in Login : login[k] \in Logins
  BY DEF OAuthInv, OAuthTypeOK
<1>3. sent \in Logins /\ sent.pc = "redirected"
  BY <1>2, Redirected DEF OAuthInv, OAuthTypeOK
<1>4. ASSUME NEW k \in Login
      PROVE  /\ Other(k) \in Logins /\ Other(k).pc = login[k].pc
             /\ Other(k).client = login[k].client
             /\ Other(k).pending => login[k].pending
  <2>1. (login[k].pending /\ k \notin expired) \in BOOLEAN
    OBVIOUS
  <2>2. /\ Other(k) \in Logins /\ Other(k).pc = login[k].pc
        /\ Other(k).client = login[k].client
        /\ Other(k).pending = (login[k].pending /\ k \notin expired)
    BY <1>2, <2>1, Pending
  <2> QED BY <2>2
<1> HIDE DEF sent, Other
<1>5. OAuthTypeOK'
  BY <1>1, <1>3, <1>4 DEF AuthorizePost, OAuthInv, OAuthTypeOK
<1>6. login'[l] = sent /\ \A k \in Login : k # l => login'[k] = Other(k)
  BY <1>1, Zenon
<1>7. /\ UNCHANGED <<request, granted>> /\ login[l].pc # "redirected"
      /\ login'[l].pc = "redirected"
  BY <1>1, <1>3, <1>6 DEF AuthorizePost
<1>8. \A k \in Login : k # l => /\ login'[k].pc = login[k].pc
                                /\ login'[k].client = login[k].client
                                /\ login'[k].pending => login[k].pending
  BY <1>4, <1>6
<1> QED BY <1>5, <1>7, <1>8, LoginMoves, Zenon

-----------------------------------------------------------------------------
\* A step of one request that touches neither the logins nor the grants, and
\* does not become the one that checks its code.
LEMMA RequestMoves ==
    ASSUME OAuthInv, OAuthTypeOK', UNCHANGED <<login, granted>>, NEW r \in Request,
           \A s \in Request : s # r => request'[s] = request[s],
           request'[r].pc # "check",
           request'[r].pc # "idle" => Came(request'[r])
    PROVE  OAuthInv'
<1>1. Sent' /\ OnePlace'
  BY DEF OAuthInv, Sent, Came, OnePlace, InTable, WithLogin, UsedUp
<1> QED BY <1>1 DEF OAuthInv, CodeOnce, GrantMatchesApproval

LEMMA BeginHolds ==
    ASSUME OAuthInv, NEW r \in Request, NEW l \in Login, NEW c \in Client,
           NEW v \in Login \cup {None}, BeginExchange(r, l, c, v)
    PROVE  OAuthInv'
<1> DEFINE q == [pc |-> "take", code |-> l, client |-> c, v |-> v, at |-> url,
                 under |-> secret]
<1>1. request' = [request EXCEPT ![r] = q] /\ login[l].pc = "redirected"
  BY DEF BeginExchange
<1>2. q \in Requests
  BY DEF Requests, OAuthInv, OAuthTypeOK
<1>3. OAuthTypeOK'
  BY <1>1, <1>2 DEF BeginExchange, OAuthInv, OAuthTypeOK
<1>4. request'[r] = q /\ \A s \in Request : s # r => request'[s] = request[s]
  BY <1>1 DEF OAuthInv, OAuthTypeOK
<1>5. Came(q)
  BY <1>1 DEF Came, OAuthInv, OAuthTypeOK
<1> HIDE DEF q
<1>6. q.pc = "take" /\ UNCHANGED <<login, granted>>
  BY DEF q, BeginExchange
<1> QED BY <1>3, <1>4, <1>5, <1>6, RequestMoves

LEMMA TakeHolds == ASSUME OAuthBounds, OAuthInv, NEW r \in Request, TakeCode(r) PROVE OAuthInv'
<1> DEFINE l == request[r].code
           q == [request[r] EXCEPT !.pc = "check"]
           m == [login[l] EXCEPT !.pending = FALSE]
<1>1. request[r].pc = "take" /\ request[r] \in Requests
  BY DEF TakeCode, OAuthInv, OAuthTypeOK
<1>2. /\ l \in Login /\ login[l].pc = "redirected" /\ login[l] \in Logins
      /\ request[r].client \in Client /\ request[r].at \in Address
  BY <1>1 DEF OAuthInv, OAuthTypeOK, Sent, Came
<1>3. CASE ~IsPending(r)
  <2>1. request' = [request EXCEPT ![r] = NoRequest] /\ UNCHANGED login
    BY <1>3 DEF TakeCode
  <2>2. OAuthTypeOK'
    BY <2>1, NothingTyped DEF TakeCode, OAuthBounds, OAuthInv, OAuthTypeOK
  <2>3. request'[r] = NoRequest /\ \A s \in Request : s # r => request'[s] = request[s]
    BY <2>1 DEF OAuthInv, OAuthTypeOK
  <2> QED BY <2>1, <2>2, <2>3, Nothing, RequestMoves DEF TakeCode
<1>4. CASE IsPending(r)
  <2>1. request' = [request EXCEPT ![r] = q] /\ login' = [login EXCEPT ![l] = m]
    BY <1>4 DEF TakeCode
  <2>2. login[l].pending
    BY <1>4 DEF IsPending
  <2>3. /\ q \in Requests /\ q.pc = "check" /\ q.code = l
        /\ q.client \in Client /\ q.at \in Address
    BY <1>1, <1>2, Checking
  <2>4. m \in Logins /\ m.pc = login[l].pc /\ m.client = login[l].client /\ m.pending = FALSE
    BY <1>2, Pending
  <2> HIDE DEF q, m
  <2>5. OAuthTypeOK'
    BY <2>1, <2>3, <2>4 DEF TakeCode, OAuthInv, OAuthTypeOK
  <2>6. /\ request'[r] = q /\ \A s \in Request : s # r => request'[s] = request[s]
        /\ login'[l] = m /\ \A k \in Login : k # l => login'[k] = login[k]
    BY <1>2, <2>1 DEF OAuthInv, OAuthTypeOK
  <2>7. UNCHANGED granted /\ ~UsedUp(l) /\ \A s \in Request : ~WithLogin(s, l)
    BY <1>2, <2>2 DEF TakeCode, OAuthInv, OnePlace, InTable
  <2>8. Sent'
    BY <1>2, <2>3, <2>4, <2>6 DEF OAuthInv, Sent, Came
  <2>9. OnePlace'
    BY <1>2, <2>3, <2>4, <2>6, <2>7 DEF OAuthInv, OnePlace, InTable, WithLogin, UsedUp
  <2>10. CodeOnce' /\ GrantMatchesApproval'
    BY <2>4, <2>6, <2>7 DEF OAuthInv, CodeOnce, GrantMatchesApproval
  <2> QED BY <2>5, <2>8, <2>9, <2>10 DEF OAuthInv
<1> QED BY <1>3, <1>4

LEMMA PairTyped == ASSUME NEW a \in Address, NEW s \in Secrets PROVE Pair(a, s) \subseteq Tokens
BY DEF Pair, Tokens

\* A code is worth a pair to the one request that has it.
LEMMA ExchangeHolds == ASSUME OAuthBounds, OAuthInv, NEW r \in Request, Exchange(r) PROVE OAuthInv'
<1> DEFINE q == request[r]
           l == q.code
           g == [client |-> q.client, v |-> q.v]
<1>1. q.pc = "check" /\ q \in Requests
  BY DEF Exchange, OAuthInv, OAuthTypeOK
<1>2. /\ l \in Login /\ login[l].pc = "redirected" /\ login[l] \in Logins
      /\ q.client \in Client /\ q.at \in Address
  BY <1>1 DEF OAuthInv, OAuthTypeOK, Sent, Came
<1>3. WithLogin(r, l)
  BY <1>1 DEF WithLogin
<1>4. ~InTable(l) /\ ~UsedUp(l) /\ \A s \in Request : WithLogin(s, l) => s = r
  BY <1>2, <1>3 DEF OAuthInv, OnePlace
<1>5. /\ request' = [request EXCEPT ![r] = NoRequest] /\ UNCHANGED login
      /\ UNCHANGED <<url, secret, registered, expired>>
  BY DEF Exchange
<1>6. request'[r] = NoRequest /\ \A s \in Request : s # r => request'[s] = request[s]
  BY <1>5 DEF OAuthInv, OAuthTypeOK
<1>7. request' \in [Request -> Requests]
  BY <1>5, NothingTyped DEF OAuthBounds, OAuthInv, OAuthTypeOK
<1>8. Sent'
  BY <1>5, <1>6, Nothing DEF OAuthInv, Sent, Came
<1>9. CASE ~Valid(r)
  <2>1. UNCHANGED <<tokens, granted>>
    BY <1>9 DEF Exchange
  <2>2. OAuthTypeOK'
    BY <2>1, <1>5, <1>7 DEF OAuthInv, OAuthTypeOK
  <2> QED BY <2>1, <2>2, <1>5, <1>6, Nothing, RequestMoves
<1>10. CASE Valid(r)
  <2>1. /\ tokens' = tokens \cup Pair(login[l].at, q.under)
        /\ granted' = [granted EXCEPT ![l] = Append(granted[l], g)]
    BY <1>10 DEF Exchange
  <2>2. l = q.v /\ login[l].client = q.client /\ login[l].at = q.at
    BY <1>10 DEF Valid
  <2>3. g \in Grants /\ g = [client |-> login[l].client, v |-> l]
    BY <1>2, <2>2 DEF Grants
  <2>4. Pair(login[l].at, q.under) \subseteq Tokens
    BY <1>1, <1>2, <2>2, PairTyped DEF Requests
  <2> HIDE DEF g
  <2>5. LET h == Append(granted[l], g)
        IN  h \in Seq(Grants) /\ Len(h) = 1 /\ h[1] = g
    <3>1. granted[l] = <<>> /\ granted[l] \in Seq(Grants)
      BY <1>2, <1>4 DEF UsedUp, OAuthInv, OAuthTypeOK, Grants
    <3> QED BY <2>3, <3>1, AppendProperties
  <2>6. /\ granted'[l] \in Seq(Grants) /\ Len(granted'[l]) = 1 /\ granted'[l][1] = g
        /\ \A k \in Login : k # l => granted'[k] = granted[k]
    BY <1>2, <2>1, <2>5 DEF OAuthInv, OAuthTypeOK
  <2>7. granted' \in [Login -> Seq(Grants)]
    BY <2>1, <2>3, <2>5 DEF OAuthInv, OAuthTypeOK, Grants
  <2>8. OAuthTypeOK'
    BY <2>1, <2>4, <2>7, <1>5, <1>7 DEF OAuthInv, OAuthTypeOK, Grants
  <2>9. OnePlace'
    <3>1. \A k \in Login : k # l => granted'[k] = granted[k]
      BY <2>6
    <3> QED BY <3>1, <1>2, <1>4, <1>5, <1>6, Nothing DEF OAuthInv, OnePlace, InTable, WithLogin, UsedUp
  <2>10. CodeOnce'
    <3>1. ASSUME NEW k \in Login PROVE Len(granted'[k]) <= 1
      <4>1. CASE k = l
        BY <4>1, <2>6
      <4>2. CASE k # l
        BY <4>2, <2>6 DEF OAuthInv, CodeOnce
      <4> QED BY <4>1, <4>2
    <3> QED BY <3>1 DEF CodeOnce
  <2>11. GrantMatchesApproval'
    <3>1. DOMAIN granted'[l] = {1}
      BY <2>6
    <3> QED BY <2>3, <2>6, <3>1, <1>5 DEF OAuthInv, GrantMatchesApproval
  <2> QED BY <2>8, <2>9, <2>10, <2>11, <1>8 DEF OAuthInv
<1> QED BY <1>9, <1>10

LEMMA StepHolds == ASSUME OAuthBounds, OAuthInv, [OAuthNext]_oauthVars PROVE OAuthInv'
<1>1. CASE UNCHANGED oauthVars
  <2>1. OAuthTypeOK'
    BY <1>1 DEF oauthVars, OAuthInv, OAuthTypeOK
  <2> QED BY <1>1, <2>1, Apart DEF oauthVars
<1>2. ASSUME NEW c \in Client, Register(c) PROVE OAuthInv'
  <2>1. [client |-> c, under |-> secret] \in [client : Client, under : Secrets]
    BY DEF OAuthInv, OAuthTypeOK
  <2>2. OAuthTypeOK'
    BY <1>2, <2>1 DEF Register, OAuthInv, OAuthTypeOK
  <2> QED BY <1>2, <2>2, Apart DEF Register
<1>3. ASSUME NEW c \in Client, NEW t \in tokens, Refresh(c, t) PROVE OAuthInv'
  <2>1. OAuthTypeOK'
    BY <1>3, PairTyped DEF Refresh, OAuthInv, OAuthTypeOK
  <2> QED BY <1>3, <2>1, Apart DEF Refresh
<1>4. ASSUME NEW l \in Login, CodeExpires(l) PROVE OAuthInv'
  <2>1. OAuthTypeOK'
    BY <1>4 DEF CodeExpires, OAuthInv, OAuthTypeOK
  <2> QED BY <1>4, <2>1, Apart DEF CodeExpires
<1>5. ASSUME NEW t \in tokens, TokenExpires(t) PROVE OAuthInv'
  <2>1. OAuthTypeOK'
    BY <1>5 DEF TokenExpires, OAuthInv, OAuthTypeOK
  <2> QED BY <1>5, <2>1, Apart DEF TokenExpires
<1>6. ASSUME NEW a \in Address, Move(a) PROVE OAuthInv'
  <2>1. OAuthTypeOK'
    BY <1>6 DEF Move, OAuthInv, OAuthTypeOK
  <2> QED BY <1>6, <2>1, Apart DEF Move
<1>7. CASE Restart
  <2>1. secret' \in Secrets
    BY <1>7 DEF Restart, OAuthBounds, Secrets, OAuthInv, OAuthTypeOK
  <2>2. OAuthTypeOK'
    BY <1>7, <2>1 DEF Restart, OAuthInv, OAuthTypeOK
  <2> QED BY <1>7, <2>2, Apart DEF Restart
<1> QED BY <1>1, <1>2, <1>3, <1>4, <1>5, <1>6, <1>7, PageHolds, AbandonHolds, ApprovalHolds,
           BeginHolds, TakeHolds, ExchangeHolds DEF OAuthNext

LEMMA OAuthInvariance == OAuthSpec => []OAuthInv
<1>1. OAuthInit => OAuthInv
  BY InitHolds, OAuthAssumption
<1>2. OAuthInv /\ [OAuthNext]_oauthVars => OAuthInv'
  BY StepHolds, OAuthAssumption
<1> QED BY <1>1, <1>2, PTL DEF OAuthSpec

-----------------------------------------------------------------------------
\* The types of OAuthFlow's state.
THEOREM OAuthTypeCorrect == OAuthSpec => []OAuthTypeOK
<1>1. OAuthInv => OAuthTypeOK
  BY DEF OAuthInv
<1> QED BY <1>1, OAuthInvariance, PTL

\* The code of an approval is exchanged once at most, however many token
\* requests present it and however their steps interleave with restarts.
THEOREM CodesAreUsedOnce == OAuthSpec => []CodeOnce
<1>1. OAuthInv => CodeOnce
  BY DEF OAuthInv
<1> QED BY <1>1, OAuthInvariance, PTL

\* What a code was exchanged for went to the client that was approved, and to
\* the login that asked for it.
THEOREM GrantsAreApproved == OAuthSpec => []GrantMatchesApproval
<1>1. OAuthInv => GrantMatchesApproval
  BY DEF OAuthInv
<1> QED BY <1>1, OAuthInvariance, PTL

\* The tokens an exchange adds are for the address its request came by, also
\* when that is not the address of the approval any more.
THEOREM TokensWorkWhereAsked == OAuthSpec => IssuedIsUsable
<1> DEFINE Usable == \A r \in Request : \A t \in tokens' \ tokens :
                       (request[r].pc = "check" /\ request'[r].pc = "idle")
                           => t.at = request[r].at
<1>1. ASSUME OAuthInv, [OAuthNext]_oauthVars PROVE [Usable]_oauthVars
  <2>1. ASSUME NEW r \in Request, NEW t \in tokens' \ tokens,
               request[r].pc = "check", request'[r].pc = "idle", OAuthNext
        PROVE  t.at = request[r].at
    <3>1. PICK s \in Request : Exchange(s)
      <4>1. ~UNCHANGED tokens /\ ~UNCHANGED request
        BY <2>1
      <4> QED BY <2>1, <4>1 DEF OAuthNext, Register, Refresh, AuthorizeGet, AuthorizePost, CodeExpires,
                 Abandon, BeginExchange, TakeCode, TokenExpires, Move, Restart
    <3>2. s = r
      BY <2>1, <3>1 DEF Exchange, OAuthInv, OAuthTypeOK
    <3>3. Valid(r) /\ tokens' = tokens \cup Pair(login[request[r].code].at, request[r].under)
      BY <2>1, <3>1, <3>2 DEF Exchange
    <3> QED BY <2>1, <3>3 DEF Valid, Pair
  <2> QED BY <1>1, <2>1
<1> QED BY <1>1, OAuthInvariance, PTL DEF OAuthSpec, IssuedIsUsable

\* What an exchange gives out is what was approved: once, to whom, and for the
\* address the request came by.
THEOREM GrantsStaySound == OAuthSpec => GrantsAreSound
BY CodesAreUsedOnce, GrantsAreApproved, TokensWorkWhereAsked, PTL DEF GrantsAreSound

-----------------------------------------------------------------------------
(* Connecting and disconnecting the web models                             *)

Places == {"idle", "window", "page", "retire", "bind", "install",
           "drain", "restore", "quiet", "destroy", "release", "handoff", "helper"}
Closing == {"drain", "restore", "quiet", "destroy", "release", "handoff", "helper"}
RouteRestored == {"quiet", "destroy", "release", "handoff", "helper"}

BridgeOps == [pc : Places, was : BOOLEAN]
PageCalls == [by : {"none", "turn", "connect", "status"},
          step : {"none", "checked", "counted", "calling"}]

BridgeTypes == /\ op \in [Op -> BridgeOps] /\ devtools \in PageCalls
         /\ seen \in BOOLEAN /\ strained \in BOOLEAN /\ closing \in BOOLEAN
         /\ route \in BOOLEAN /\ port \in {"free", "main", "helper"}

\* One operation at a time; what it has done so far; and who holds the port
\* of a route that is installed, except between giving it up and binding it.
Alone == \A o, p \in Op : op[o] # NoOp /\ op[p] # NoOp => o = p
Marked == \A o \in Op : op[o].pc \in Closing => closing
PutBack == \A o \in Op : op[o].pc \in RouteRestored => ~route
Bound == \A o \in Op : op[o].pc = "install" => port = "main"
Quieted == \A o \in Op : op[o].pc = "destroy" => devtools.step # "calling"
Held == app = "up" /\ route => port = "main" \/ \E o \in Op : op[o].pc = "bind"

BridgeInv == BridgeTypes /\ (strained \/ (Alone /\ Marked /\ PutBack /\ Bound /\ Quieted /\ Held))

-----------------------------------------------------------------------------
LEMMA BridgeInitHolds == ASSUME WebInit PROVE BridgeInv
<1>1. NoOp \in BridgeOps /\ NoOp.pc = "idle" /\ NoDevTools \in PageCalls /\ NoDevTools.step = "none"
  BY DEF NoOp, BridgeOps, Places, NoDevTools, PageCalls
<1>2. \A o \in Op : op[o] = NoOp
  BY DEF WebInit
<1>3. BridgeTypes
  BY <1>1 DEF BridgeTypes, WebInit
<1> QED BY <1>1, <1>2, <1>3 DEF WebInit, BridgeInv, Alone, Marked, PutBack, Bound, Quieted, Held,
           Closing, RouteRestored

LEMMA Idling == NoOp \in BridgeOps /\ NoOp.pc = "idle" /\ NoDevTools \in PageCalls /\ NoDevTools.step = "none"
BY DEF NoOp, BridgeOps, Places, NoDevTools, PageCalls

\* What an operation makes of `op`.
LEMMA Goes == ASSUME op \in [Op -> BridgeOps], NEW o \in Op, NEW pc \in Places, Go(o, pc)
              PROVE  /\ op' \in [Op -> BridgeOps] /\ op'[o].pc = pc
                     /\ \A p \in Op : p # o => op'[p] = op[p]
BY DEF Go, BridgeOps

LEMMA Stops == ASSUME op \in [Op -> BridgeOps], NEW o \in Op, op' = [op EXCEPT ![o] = NoOp]
               PROVE  /\ op' \in [Op -> BridgeOps] /\ op'[o] = NoOp
                      /\ \A p \in Op : p # o => op'[p] = op[p]
BY Idling

\* A step of one operation that had begun, seen from the invariant.
LEMMA OpMoves ==
    ASSUME BridgeInv, BridgeTypes', strained => strained', NEW o \in Op, op[o] # NoOp,
           \A p \in Op : p # o => op'[p] = op[p],
           UNCHANGED <<app, devtools>>,
           ~strained /\ ~strained' =>
              /\ op'[o].pc \in Closing => closing'
              /\ op'[o].pc \in RouteRestored => ~route'
              /\ op'[o].pc = "install" => port' = "main"
              /\ op'[o].pc = "destroy" => devtools.step # "calling"
              /\ app = "up" /\ route' => port' = "main" \/ op'[o].pc = "bind"
    PROVE  BridgeInv'
<1> SUFFICES ASSUME ~strained' PROVE (Alone /\ Marked /\ PutBack /\ Bound /\ Quieted /\ Held)'
  BY DEF BridgeInv
<1>1. ~strained /\ Alone
  BY DEF BridgeInv
<1>2. \A p \in Op : p # o => op[p] = NoOp /\ op'[p] = NoOp
  BY <1>1 DEF Alone
<1>3. NoOp.pc \notin Closing \cup RouteRestored \cup {"install", "destroy", "bind"}
  BY DEF NoOp, Closing, RouteRestored
<1> QED BY <1>1, <1>2, <1>3 DEF Alone, Marked, PutBack, Bound, Quieted, Held

\* The operation is the only one, so what it has done still stands.
LEMMA Standing ==
    ASSUME BridgeInv, NEW o \in Op, op[o] # NoOp, ~strained
    PROVE  /\ op[o].pc \in Closing => closing
           /\ op[o].pc \in RouteRestored => ~route
           /\ op[o].pc = "install" => port = "main"
           /\ op[o].pc = "destroy" => devtools.step # "calling"
           /\ app = "up" /\ route => port = "main" \/ op[o].pc = "bind"
<1>1. \A p \in Op : p # o => op[p] = NoOp
  BY DEF BridgeInv, Alone
<1>2. NoOp.pc # "bind"
  BY DEF NoOp
<1> QED BY <1>1, <1>2 DEF BridgeInv, Marked, PutBack, Bound, Quieted, Held

LEMMA Busy == ASSUME BridgeTypes, NEW o \in Op, op[o].pc # "idle" PROVE op[o] # NoOp
BY DEF NoOp

LEMMA EnterHolds == ASSUME BridgeInv, NEW o \in Op, NEW pc \in {"window", "drain"}, Enter(o, pc),
                           UNCHANGED <<app, devtools, route, port, seen>>,
                           closing' = (IF pc = "drain" THEN TRUE ELSE closing)
                    PROVE  BridgeInv'
<1>1. /\ op' \in [Op -> BridgeOps] /\ op'[o].pc = pc /\ \A p \in Op : p # o => op'[p] = op[p]
  BY Goes DEF Enter, BridgeInv, BridgeTypes, Places
<1>2. strained' \in BOOLEAN /\ closing' \in BOOLEAN
  BY DEF Enter, BridgeInv, BridgeTypes
<1>3. BridgeTypes'
  BY <1>1, <1>2 DEF BridgeInv, BridgeTypes
<1> SUFFICES ASSUME ~strained' PROVE (Alone /\ Marked /\ PutBack /\ Bound /\ Quieted /\ Held)'
  BY <1>3 DEF BridgeInv
<1>4. ~strained /\ \A p \in Op : op[p] = NoOp
  BY DEF Enter, NoOperation, BridgeInv, BridgeTypes
<1>5. /\ NoOp.pc \notin Closing \cup RouteRestored \cup {"install", "destroy", "bind"}
      /\ pc \notin RouteRestored \cup {"install", "destroy"} /\ (pc \in Closing => pc = "drain")
  BY DEF NoOp, Closing, RouteRestored
<1>6. app = "up" /\ route => port = "main"
  BY <1>4, <1>5 DEF BridgeInv, Held
<1> QED BY <1>1, <1>4, <1>5, <1>6 DEF Alone, Marked, PutBack, Bound, Quieted, Held

LEMMA ConnectSteps == ASSUME BridgeInv, NEW o \in Op PROVE
    /\ EnsureWindow(o) => BridgeInv'
    /\ Recreate(o) => BridgeInv'
    /\ SignIn(o) => BridgeInv'
    /\ Retire(o) => BridgeInv'
    /\ Bind(o) => BridgeInv'
    /\ Install(o) => BridgeInv'
<1> DEFINE Ended == op' = [op EXCEPT ![o] = NoOp]
<1>0. /\ BridgeTypes /\ op \in [Op -> BridgeOps]
      /\ \A pc \in Places : Go(o, pc) => /\ op' \in [Op -> BridgeOps] /\ op'[o].pc = pc
                                         /\ \A p \in Op : p # o => op'[p] = op[p]
      /\ Ended => /\ op' \in [Op -> BridgeOps] /\ op'[o] = NoOp /\ op'[o].pc = "idle"
                  /\ \A p \in Op : p # o => op'[p] = op[p]
  BY Goes, Stops, Idling DEF BridgeInv, BridgeTypes
<1>1. ASSUME op[o] # NoOp PROVE ~strained =>
           /\ op[o].pc \in RouteRestored => ~route
           /\ op[o].pc = "install" => port = "main"
           /\ app = "up" /\ route => port = "main" \/ op[o].pc = "bind"
  BY <1>1, Standing
<1> USE DEF Places, Closing, RouteRestored, OpAt, ConnectEnds, world, flags, calls
<1>2. ASSUME EnsureWindow(o) PROVE BridgeInv'
  <2>1. op[o] # NoOp /\ op[o].pc = "window"
    BY <1>0, <1>2, Busy DEF EnsureWindow
  <2>2. UNCHANGED <<app, devtools, seen, strained, closing, route, port>>
    BY <1>2 DEF EnsureWindow
  <2>3. Go(o, "page") \/ Ended
    BY <1>2 DEF EnsureWindow
  <2>4. BridgeTypes'
    BY <1>0, <2>2, <2>3 DEF BridgeTypes
  <2> QED BY <1>0, <1>1, <2>1, <2>2, <2>3, <2>4, OpMoves
<1>3. ASSUME Recreate(o) PROVE BridgeInv'
  <2>1. op[o] # NoOp /\ op[o].pc = "page"
    BY <1>0, <1>3, Busy DEF Recreate
  <2>2. UNCHANGED <<app, devtools, seen, strained, closing, route, port>>
    BY <1>3 DEF Recreate
  <2>3. UNCHANGED op \/ Ended
    BY <1>3 DEF Recreate
  <2>4. BridgeTypes'
    BY <1>0, <2>2, <2>3 DEF BridgeTypes
  <2> QED BY <1>0, <1>1, <2>1, <2>2, <2>3, <2>4, OpMoves
<1>4. ASSUME SignIn(o) PROVE BridgeInv'
  <2>1. op[o] # NoOp /\ op[o].pc = "page"
    BY <1>0, <1>4, Busy DEF SignIn
  <2>2. UNCHANGED <<app, devtools, seen, strained, closing, route, port>>
    BY <1>4 DEF SignIn
  <2>3. Go(o, "retire") \/ Ended
    BY <1>4 DEF SignIn
  <2>4. BridgeTypes'
    BY <1>0, <2>2, <2>3 DEF BridgeTypes
  <2> QED BY <1>0, <1>1, <2>1, <2>2, <2>3, <2>4, OpMoves
<1>5. ASSUME Retire(o) PROVE BridgeInv'
  <2>1. op[o] # NoOp /\ op[o].pc = "retire"
    BY <1>0, <1>5, Busy DEF Retire
  <2>2. UNCHANGED <<app, devtools, seen, strained, closing, route>>
    BY <1>5 DEF Retire
  <2>3. Go(o, "bind") \/ (Ended /\ port = "helper")
    BY <1>5 DEF Retire
  <2>4. port' \in {port, "free"}
    BY <1>5 DEF Retire
  <2>5. BridgeTypes'
    BY <1>0, <2>2, <2>3, <2>4 DEF BridgeTypes
  <2> QED BY <1>0, <1>1, <2>1, <2>2, <2>3, <2>5, OpMoves
<1>6. ASSUME Bind(o) PROVE BridgeInv'
  <2>1. op[o] # NoOp /\ op[o].pc = "bind"
    BY <1>0, <1>6, Busy DEF Bind
  <2>2. UNCHANGED <<app, devtools, seen, closing, route>>
    BY <1>6 DEF Bind
  <2>3. /\ strained' \in BOOLEAN /\ (strained => strained')
        /\ ~strained' => port # "helper" /\ ~(route /\ port' = "free")
    BY <1>0, <1>6 DEF Bind, BridgeTypes
  <2>4. \/ Go(o, "install") /\ port' # "free" /\ (port' = port \/ port' = "main")
        \/ Ended /\ UNCHANGED port
    BY <1>6 DEF Bind
  <2>5. BridgeTypes'
    BY <1>0, <2>2, <2>3, <2>4 DEF BridgeTypes
  <2>6. op'[o].pc = "install" => port' = "main" \/ strained'
    BY <1>0, <2>3, <2>4 DEF BridgeTypes
  <2>7. ~strained' /\ route' => port' = "main"
    BY <1>0, <2>2, <2>3, <2>4 DEF BridgeTypes
  <2> QED BY <1>0, <1>1, <2>1, <2>2, <2>3, <2>4, <2>5, <2>6, <2>7, OpMoves
<1>7. ASSUME Install(o) PROVE BridgeInv'
  <2>1. op[o] # NoOp /\ op[o].pc = "install"
    BY <1>0, <1>7, Busy DEF Install
  <2>2. UNCHANGED <<app, devtools, seen, strained, closing, port>> /\ route' \in BOOLEAN
    BY <1>0, <1>7 DEF Install, BridgeTypes
  <2>3. Ended
    BY <1>7 DEF Install
  <2>4. BridgeTypes'
    BY <1>0, <2>2, <2>3 DEF BridgeTypes
  <2> QED BY <1>0, <1>1, <2>1, <2>2, <2>3, <2>4, OpMoves
<1> QED BY <1>2, <1>3, <1>4, <1>5, <1>6, <1>7

LEMMA DisconnectSteps == ASSUME BridgeInv, NEW o \in Op PROVE
    /\ Drain(o) => BridgeInv'
    /\ Restore(o) => BridgeInv'
    /\ RestoreFails(o) => BridgeInv'
    /\ Quiet(o) => BridgeInv'
    /\ Destroy(o) => BridgeInv'
    /\ Release(o) => BridgeInv'
    /\ Handoff(o) => BridgeInv'
    /\ AwaitHelper(o) => BridgeInv'
<1> DEFINE Ended == op' = [op EXCEPT ![o] = NoOp]
           Draining == op' = [op EXCEPT ![o] = [pc |-> "restore", was |-> seen]]
<1>0. /\ BridgeTypes /\ op \in [Op -> BridgeOps]
      /\ \A pc \in Places : Go(o, pc) => /\ op' \in [Op -> BridgeOps] /\ op'[o].pc = pc
                                         /\ \A p \in Op : p # o => op'[p] = op[p]
      /\ Ended => /\ op' \in [Op -> BridgeOps] /\ op'[o] = NoOp /\ op'[o].pc = "idle"
                  /\ \A p \in Op : p # o => op'[p] = op[p]
  BY Goes, Stops, Idling DEF BridgeInv, BridgeTypes
<1>1. ASSUME op[o] # NoOp PROVE ~strained =>
           /\ op[o].pc \in Closing => closing
           /\ op[o].pc \in RouteRestored => ~route
           /\ op[o].pc = "destroy" => devtools.step # "calling"
           /\ app = "up" /\ route => port = "main" \/ op[o].pc = "bind"
  BY <1>1, Standing
<1> USE DEF Places, Closing, RouteRestored, OpAt, DisconnectEnds, world, flags, calls
<1>2. ASSUME Drain(o) PROVE BridgeInv'
  <2>1. op[o] # NoOp /\ op[o].pc = "drain"
    BY <1>0, <1>2, Busy DEF Drain
  <2>2. UNCHANGED <<app, devtools, strained, closing, route, port>> /\ seen' \in BOOLEAN
    BY <1>2 DEF Drain
  <2>3. Draining
    BY <1>2 DEF Drain
  <2>4. /\ op' \in [Op -> BridgeOps] /\ op'[o].pc = "restore"
        /\ \A p \in Op : p # o => op'[p] = op[p]
    BY <1>0, <2>3 DEF BridgeOps, BridgeTypes
  <2>5. BridgeTypes'
    BY <1>0, <2>2, <2>4 DEF BridgeTypes
  <2> QED BY <1>0, <1>1, <2>1, <2>2, <2>4, <2>5, OpMoves
<1>3. ASSUME Restore(o) PROVE BridgeInv'
  <2>1. op[o] # NoOp /\ op[o].pc = "restore"
    BY <1>0, <1>3, Busy DEF Restore
  <2>2. UNCHANGED <<app, devtools, seen, strained, closing, port>> /\ ~route' /\ route' \in BOOLEAN
    BY <1>0, <1>3 DEF Restore, BridgeTypes
  <2>3. Go(o, "quiet")
    BY <1>3 DEF Restore
  <2>4. BridgeTypes'
    BY <1>0, <2>2, <2>3 DEF BridgeTypes
  <2> QED BY <1>0, <1>1, <2>1, <2>2, <2>3, <2>4, OpMoves
<1>4. ASSUME RestoreFails(o) PROVE BridgeInv'
  <2>1. op[o] # NoOp /\ op[o].pc = "restore"
    BY <1>0, <1>4, Busy DEF RestoreFails, RefusedRestore
  <2>5. UNCHANGED <<app, devtools, seen, strained, port>> /\ (route' = route \/ route' = FALSE)
    BY <1>4 DEF RestoreFails, RefusedRestore
  <2>2. UNCHANGED <<app, devtools, seen, strained, port>> /\ route' \in BOOLEAN /\ (route' => route)
    <3>1. route' \in BOOLEAN
      BY <1>0, <2>5, Zenon DEF BridgeTypes
    <3>2. route' => route
      BY <2>5, Zenon
    <3> QED BY <2>5, <3>1, <3>2, Zenon
  <2>3. Ended /\ closing' \in BOOLEAN
    BY <1>4 DEF RestoreFails, RefusedRestore
  <2>4. BridgeTypes'
    BY <1>0, <2>2, <2>3 DEF BridgeTypes
  <2> QED BY <1>0, <1>1, <2>1, <2>2, <2>3, <2>4, OpMoves
<1>5. ASSUME Quiet(o) PROVE BridgeInv'
  <2>1. op[o] # NoOp /\ op[o].pc = "quiet"
    BY <1>0, <1>5, Busy DEF Quiet
  <2>2. UNCHANGED <<app, devtools, seen, strained, route, port>>
    BY <1>5 DEF Quiet
  <2>3. \/ Go(o, "destroy") /\ UNCHANGED closing /\ devtools.step # "calling"
        \/ Ended /\ closing' \in BOOLEAN
    BY <1>5 DEF Quiet, InFlight
  <2>4. BridgeTypes'
    BY <1>0, <2>2, <2>3 DEF BridgeTypes
  <2> QED BY <1>0, <1>1, <2>1, <2>2, <2>3, <2>4, OpMoves
<1>6. ASSUME Destroy(o) PROVE BridgeInv'
  <2>1. op[o] # NoOp /\ op[o].pc = "destroy"
    BY <1>0, <1>6, Busy DEF Destroy
  <2>2. UNCHANGED <<app, devtools, seen, strained, route, port>>
    BY <1>0, <1>6 DEF Destroy, BridgeTypes
  <2>3. \/ Go(o, "release") /\ UNCHANGED closing
        \/ Ended /\ closing' \in BOOLEAN
    BY <1>6 DEF Destroy
  <2>4. BridgeTypes'
    BY <1>0, <2>2, <2>3 DEF BridgeTypes
  <2> QED BY <1>0, <1>1, <2>1, <2>2, <2>3, <2>4, OpMoves
<1>7. ASSUME Release(o) PROVE BridgeInv'
  <2>1. op[o] # NoOp /\ op[o].pc = "release"
    BY <1>0, <1>7, Busy DEF Release
  <2>2. UNCHANGED <<app, devtools, seen, strained, route>> /\ port' \in {"free", "main", "helper"}
    BY <1>0, <1>7 DEF Release, StopProxy, BridgeTypes
  <2>3. \/ Go(o, "handoff") /\ UNCHANGED closing
        \/ Ended /\ closing' \in BOOLEAN
    BY <1>7 DEF Release
  <2>4. BridgeTypes'
    BY <1>0, <2>2, <2>3 DEF BridgeTypes
  <2> QED BY <1>0, <1>1, <2>1, <2>2, <2>3, <2>4, OpMoves
<1>8. ASSUME Handoff(o) PROVE BridgeInv'
  <2>1. op[o] # NoOp /\ op[o].pc = "handoff"
    BY <1>0, <1>8, Busy DEF Handoff
  <2>2. UNCHANGED <<app, devtools, seen, strained, route>> /\ port' \in {"free", "main", "helper"}
    BY <1>0, <1>8 DEF Handoff, StopProxy, BridgeTypes
  <2>3. \/ Go(o, "helper") /\ UNCHANGED closing
        \/ Ended /\ closing' \in BOOLEAN
    BY <1>8 DEF Handoff
  <2>4. BridgeTypes'
    BY <1>0, <2>2, <2>3 DEF BridgeTypes
  <2> QED BY <1>0, <1>1, <2>1, <2>2, <2>3, <2>4, OpMoves
<1>9. ASSUME AwaitHelper(o) PROVE BridgeInv'
  <2>1. op[o] # NoOp /\ op[o].pc = "helper"
    BY <1>0, <1>9, Busy DEF AwaitHelper
  <2>2. UNCHANGED <<app, devtools, seen, strained, route>> /\ port' \in {"free", "main", "helper"}
    BY <1>0, <1>9 DEF AwaitHelper, BridgeTypes
  <2>3. Ended /\ closing' \in BOOLEAN
    BY <1>9 DEF AwaitHelper
  <2>4. BridgeTypes'
    BY <1>0, <2>2, <2>3 DEF BridgeTypes
  <2> QED BY <1>0, <1>1, <2>1, <2>2, <2>3, <2>4, OpMoves
<1> QED BY <1>2, <1>3, <1>4, <1>5, <1>6, <1>7, <1>8, <1>9

\* A step that leaves the operations, the route and the window's mark alone.
LEMMA AloneApart ==
    ASSUME BridgeInv, UNCHANGED <<op, route, closing, strained, app>>, devtools' \in PageCalls,
           seen' \in BOOLEAN, port' \in {"free", "main", "helper"},
           port = "main" => port' = "main",
           devtools'.step = "calling" => devtools.step = "calling" \/ ~closing
    PROVE  BridgeInv'
<1>1. BridgeTypes'
  BY DEF BridgeInv, BridgeTypes
<1>2. Marked => \A o \in Op : op[o].pc = "destroy" => closing
  BY DEF Marked, Closing
<1> QED BY <1>1, <1>2 DEF BridgeInv, Alone, Marked, PutBack, Bound, Quieted, Held

\* The helper that serves has the port.
Serves == helper = "serving" => port = "helper"

LEMMA ServesHolds == ASSUME Serves, [WebNext]_wvars PROVE Serves'
<1> USE DEF Serves, world, flags, calls
<1>1. CASE UNCHANGED wvars
  BY <1>1 DEF wvars
<1>2. ASSUME NEW o \in Op, Retire(o) \/ Bind(o) \/ Release(o) \/ Handoff(o) \/ AwaitHelper(o)
      PROVE  Serves'
  BY <1>2 DEF Retire, Bind, Release, Handoff, AwaitHelper, StopProxy
<1>3. ASSUME NEW o \in Op,
             \/ Connect(o) \/ EnsureWindow(o) \/ Recreate(o) \/ SignIn(o) \/ Install(o)
             \/ Disconnect(o) \/ Drain(o) \/ Restore(o) \/ RestoreFails(o) \/ Quiet(o)
             \/ Destroy(o)
      PROVE  Serves'
  BY <1>3 DEF Connect, EnsureWindow, Recreate, SignIn, Install, Disconnect, Drain, Restore,
              RestoreFails, Quiet, Destroy
<1>4. CASE \/ Admit \/ NoteSeen \/ BeginTurn \/ EndTurn \/ Codex
           \/ NewCall \/ StepCall \/ CallTimesOut \/ StrayEnds
  BY <1>4 DEF Admit, NoteSeen, BeginTurn, EndTurn, Codex, NewCall, StepCall, CallTimesOut, StrayEnds
<1>5. CASE ExitRequested \/ Ends \/ Startup \/ Helper
  BY <1>5 DEF ExitRequested, Ends, Startup, Helper, Forget, StopProxy
<1> QED BY <1>1, <1>2, <1>3, <1>4, <1>5 DEF WebNext

LEMMA Serving == WebSpec => []Serves
<1>1. WebInit => Serves
  BY DEF WebInit, Serves
<1>2. Serves /\ [WebNext]_wvars => Serves'
  BY ServesHolds
<1> QED BY <1>1, <1>2, PTL DEF WebSpec

LEMMA RequestSteps ==
    ASSUME BridgeInv, Serves,
           \/ Admit \/ NoteSeen \/ BeginTurn \/ EndTurn \/ NewCall \/ StepCall
           \/ CallTimesOut \/ StrayEnds \/ Helper \/ Codex
    PROVE  BridgeInv'
<1> USE DEF world, flags, calls
<1>0. /\ devtools \in PageCalls /\ seen \in BOOLEAN /\ port \in {"free", "main", "helper"}
  BY DEF BridgeInv, BridgeTypes
<1>1. CASE Admit \/ NoteSeen \/ BeginTurn \/ StrayEnds \/ Codex
  <2>1. UNCHANGED <<op, route, closing, strained, app, devtools, port>> /\ seen' \in BOOLEAN
    BY <1>0, <1>1 DEF Admit, NoteSeen, BeginTurn, StrayEnds, Codex
  <2> QED BY <1>0, <2>1, AloneApart
<1>5. CASE EndTurn \/ CallTimesOut
  <2>1. UNCHANGED <<op, route, closing, strained, app, seen, port>>
    BY <1>5 DEF EndTurn, CallTimesOut
  <2>2. devtools' = devtools \/ devtools' = NoDevTools
    BY <1>5 DEF EndTurn, CallTimesOut, DropGuard
  <2>3. devtools' \in PageCalls /\ (devtools'.step = "calling" => devtools.step = "calling")
    BY <1>0, <2>2, Idling
  <2> QED BY <1>0, <2>1, <2>3, AloneApart
<1>2. CASE NewCall
  <2>1. UNCHANGED <<op, route, closing, strained, app, seen, port>>
    BY <1>2 DEF NewCall
  <2>2. PICK by \in {"turn", "connect", "status"} : devtools' = [by |-> by, step |-> "checked"]
    BY <1>2 DEF NewCall, CallsFor
  <2>3. devtools' \in PageCalls /\ devtools'.step # "calling"
    BY <2>2 DEF PageCalls
  <2> QED BY <1>0, <2>1, <2>3, AloneApart
<1>3. CASE StepCall
  <2>1. UNCHANGED <<op, route, closing, strained, app, seen, port>>
    BY <1>3 DEF StepCall
  <2>2. \/ devtools' = [devtools EXCEPT !.step = "counted"]
        \/ devtools' = [devtools EXCEPT !.step = "calling"] /\ ~closing
        \/ devtools' = NoDevTools
    BY <1>3 DEF StepCall, Confirmed
  <2>3. devtools' \in PageCalls /\ (devtools'.step = "calling" => ~closing)
    BY <1>0, <2>2, Idling DEF PageCalls
  <2> QED BY <1>0, <2>1, <2>3, AloneApart
<1>4. CASE Helper
  <2>1. UNCHANGED <<op, route, closing, strained, app, seen, devtools>>
    BY <1>4 DEF Helper
  <2>2. port' \in {"free", "main", "helper"} /\ (port = "main" => port' = "main")
    BY <1>0, <1>4 DEF Helper, Serves
  <2> QED BY <1>0, <2>1, <2>2, AloneApart
<1> QED BY <1>1, <1>2, <1>3, <1>4, <1>5

\* The process ends and starts.
LEMMA ProcessSteps == ASSUME BridgeInv, ExitRequested \/ Ends \/ Startup PROVE BridgeInv'
<1> USE DEF world, flags, calls
<1>1. CASE ExitRequested
  <2>1. /\ UNCHANGED <<op, closing, strained, devtools, port, seen>> /\ app' = "leaving"
        /\ route' \in BOOLEAN /\ (route' => route)
    BY <1>1 DEF ExitRequested, BridgeInv, BridgeTypes
  <2> QED BY <2>1 DEF BridgeInv, BridgeTypes, Alone, Marked, PutBack, Bound, Quieted, Held
<1>2. CASE Ends
  <2>1. /\ op' = [o \in Op |-> NoOp] /\ ~closing' /\ devtools' = NoDevTools /\ app' = "down"
        /\ UNCHANGED <<strained, route>>
    BY <1>2 DEF Ends, Forget
  <2>2. closing' \in BOOLEAN /\ seen' \in BOOLEAN /\ port' \in {"free", "main", "helper"}
    BY <1>2 DEF Ends, Forget, StopProxy, BridgeInv, BridgeTypes
  <2>3. BridgeTypes'
    BY <2>1, <2>2, Idling DEF BridgeInv, BridgeTypes
  <2>4. \A o \in Op : op'[o] = NoOp
    BY <2>1
  <2> QED BY <2>1, <2>3, <2>4, Idling DEF BridgeInv, Alone, Marked, PutBack, Bound, Quieted, Held,
             Closing, RouteRestored
<1>3. CASE Startup
  <2>1. /\ UNCHANGED <<op, closing, devtools, port, seen>>
        /\ \/ ~route' /\ route' \in BOOLEAN /\ UNCHANGED strained
           \/ strained' /\ strained' \in BOOLEAN /\ UNCHANGED route
    BY <1>3 DEF Startup
  <2> QED BY <2>1 DEF BridgeInv, BridgeTypes, Alone, Marked, PutBack, Bound, Quieted, Held
<1> QED BY <1>1, <1>2, <1>3

LEMMA BridgeStepHolds == ASSUME BridgeInv, Serves, [WebNext]_wvars PROVE BridgeInv'
<1>1. CASE UNCHANGED wvars
  BY <1>1 DEF wvars, BridgeInv, BridgeTypes, Alone, Marked, PutBack, Bound, Quieted, Held
<1>2. ASSUME NEW o \in Op, Connect(o) PROVE BridgeInv'
  BY <1>2, EnterHolds DEF Connect, world, flags, calls
<1>3. ASSUME NEW o \in Op, Disconnect(o) PROVE BridgeInv'
  BY <1>3, EnterHolds DEF Disconnect, world, flags, calls
<1> QED BY <1>1, <1>2, <1>3, ConnectSteps, DisconnectSteps, RequestSteps, ProcessSteps DEF WebNext

LEMMA BridgeInvariance == WebSpec => []BridgeInv
<1>1. WebInit => BridgeInv
  BY BridgeInitHolds
<1>2. BridgeInv /\ Serves /\ [WebNext]_wvars => BridgeInv'
  BY BridgeStepHolds
<1> QED BY <1>1, <1>2, Serving, PTL DEF WebSpec

-----------------------------------------------------------------------------
\* Codex is not left configured for a port nobody holds, at whichever step a
\* connect or a disconnect failed and whenever the process crashed.
THEOREM CodexIsServed == WebSpec => []RouteServed
<1>1. BridgeInv => RouteServed
  BY Idling DEF BridgeInv, Held, RouteServed, NoOperation
<1> QED BY <1>1, BridgeInvariance, PTL

\* While a disconnect destroys the window no call that holds its guard works in
\* it, however the count of the calls and the closing mark were read in between.
THEOREM WindowIsQuiet == WebSpec => []DestroyIsQuiet
<1>1. BridgeInv => DestroyIsQuiet
  BY DEF BridgeInv, Quieted, DestroyIsQuiet, Working
<1> QED BY <1>1, BridgeInvariance, PTL

-----------------------------------------------------------------------------
(* After a disconnect.                                                     *)

\* A process that is down holds nothing.
Down == app = "down" => port # "main" /\ NoOperation

\* Since the last disconnect no connect came as far as the port.
Unbound == \A o \in Op : op[o].pc = "install" => ~disconnected
Drained == app = "up" /\ disconnected => ~route /\ (port = "main" => mode = "drain")

Afterwards == disconnected \in BOOLEAN /\ Down /\ (strained \/ (Unbound /\ Drained))

LEMMA AfterInit == WebInit => Afterwards
BY Idling DEF WebInit, Afterwards, Down, NoOperation, Unbound, Drained

\* A step that binds no port and changes no mode.
LEMMA AfterApart ==
    ASSUME BridgeInv, Afterwards, strained => strained', disconnected' \in BOOLEAN, app # "down",
           disconnected' => disconnected, app' = "up" => app = "up", app' # "down",
           route' => route, UNCHANGED mode, port' # "main" \/ port = "main",
           \A o \in Op : op'[o].pc = "install" => op[o].pc = "install" \/ ~disconnected'
    PROVE  Afterwards'
<1>1. strained' \/ ~strained
  BY DEF BridgeInv, BridgeTypes
<1> QED BY <1>1 DEF Afterwards, Down, Unbound, Drained

LEMMA AfterConnect == ASSUME BridgeInv, Afterwards, NEW o \in Op PROVE
    /\ Connect(o) \/ EnsureWindow(o) \/ Recreate(o) \/ SignIn(o) \/ Retire(o) => Afterwards'
    /\ Bind(o) => Afterwards'
    /\ Install(o) => Afterwards'
<1> DEFINE Ended == op' = [op EXCEPT ![o] = NoOp]
<1>0. /\ BridgeTypes /\ op \in [Op -> BridgeOps] /\ disconnected \in BOOLEAN
      /\ \A pc \in Places : Go(o, pc) => /\ op' \in [Op -> BridgeOps] /\ op'[o].pc = pc
                                         /\ \A p \in Op : p # o => op'[p] = op[p]
      /\ Ended => /\ op' \in [Op -> BridgeOps] /\ op'[o] = NoOp /\ op'[o].pc = "idle"
                  /\ \A p \in Op : p # o => op'[p] = op[p]
  BY Goes, Stops, Idling DEF BridgeInv, BridgeTypes, Afterwards
<1> USE DEF Places, OpAt, ConnectEnds, world, flags, calls
<1>1. ASSUME Connect(o) \/ EnsureWindow(o) \/ Recreate(o) \/ SignIn(o) \/ Retire(o)
      PROVE  Afterwards'
  <2>1. /\ UNCHANGED <<app, mode, route, disconnected>> /\ app # "down"
        /\ strained => strained'
        /\ port' # "main" \/ port = "main"
    BY <1>0, <1>1 DEF Connect, Enter, EnsureWindow, Recreate, SignIn, Retire, BridgeTypes
  <2>2. UNCHANGED op \/ Ended \/ Go(o, "window") \/ Go(o, "page") \/ Go(o, "retire") \/ Go(o, "bind")
    BY <1>1 DEF Connect, Enter, EnsureWindow, Recreate, SignIn, Retire
  <2>3. \A p \in Op : op'[p].pc = "install" => op[p].pc = "install"
    BY <1>0, <2>2
  <2> QED BY <1>0, <2>1, <2>3, AfterApart
<1>2. ASSUME Bind(o) PROVE Afterwards'
  BY <1>0, <1>2 DEF Bind, Afterwards, Down, Unbound, Drained
<1>3. ASSUME Install(o) PROVE Afterwards'
  <2>1. /\ UNCHANGED <<app, mode, disconnected, strained, port>> /\ app # "down" /\ Ended
        /\ op[o].pc = "install"
    BY <1>3 DEF Install
  <2>2. \A p \in Op : op'[p].pc = "install" => op[p].pc = "install"
    BY <1>0, <2>1
  <2>3. strained \/ ~disconnected
    BY <2>1 DEF Afterwards, Unbound
  <2> QED BY <1>0, <2>1, <2>2, <2>3 DEF Afterwards, Down, Unbound, Drained
<1> QED BY <1>1, <1>2, <1>3

LEMMA AfterDisconnect == ASSUME BridgeInv, Afterwards, NEW o \in Op PROVE
    /\ Disconnect(o) \/ Restore(o) \/ Quiet(o) \/ Destroy(o) => Afterwards'
    /\ Drain(o) \/ Handoff(o) => Afterwards'
    /\ RestoreFails(o) => Afterwards'
    /\ Release(o) => Afterwards'
    /\ AwaitHelper(o) => Afterwards'
<1> DEFINE Ended == op' = [op EXCEPT ![o] = NoOp]
           Same == \A p \in Op : op'[p].pc = "install" => op[p].pc = "install"
<1>0. /\ BridgeTypes /\ op \in [Op -> BridgeOps] /\ disconnected \in BOOLEAN
      /\ \A pc \in Places : Go(o, pc) => /\ op' \in [Op -> BridgeOps] /\ op'[o].pc = pc
                                         /\ \A p \in Op : p # o => op'[p] = op[p]
      /\ Ended => /\ op' \in [Op -> BridgeOps] /\ op'[o] = NoOp /\ op'[o].pc = "idle"
                  /\ \A p \in Op : p # o => op'[p] = op[p]
  BY Goes, Stops, Idling DEF BridgeInv, BridgeTypes, Afterwards
<1> USE DEF Places, OpAt, DisconnectEnds, world, flags, calls
<1>1. ASSUME Disconnect(o) \/ Restore(o) \/ Quiet(o) \/ Destroy(o) PROVE Afterwards'
  <2>1. /\ UNCHANGED <<app, mode, port, disconnected>> /\ app # "down"
        /\ strained => strained'
        /\ route' => route
    BY <1>0, <1>1 DEF Disconnect, Enter, Restore, Quiet, Destroy, BridgeTypes
  <2>2. Ended \/ Go(o, "drain") \/ Go(o, "quiet") \/ Go(o, "destroy") \/ Go(o, "release")
    BY <1>1 DEF Disconnect, Enter, Restore, Quiet, Destroy
  <2>3. Same
    BY <1>0, <2>2
  <2> QED BY <1>0, <2>1, <2>3, AfterApart
<1>2. ASSUME Drain(o) PROVE Afterwards'
  <2>1. /\ UNCHANGED <<app, port, disconnected, strained, route>> /\ app # "down"
        /\ op' = [op EXCEPT ![o] = [pc |-> "restore", was |-> seen]] /\ mode' = "drain"
    BY <1>2 DEF Drain
  <2>2. Same
    BY <1>0, <2>1
  <2> QED BY <1>0, <2>1, <2>2 DEF Afterwards, Down, Unbound, Drained
<1>3. ASSUME Handoff(o) PROVE Afterwards'
  <2>1. /\ UNCHANGED <<app, disconnected, strained, route>> /\ app # "down" /\ mode' = "drain"
    BY <1>3 DEF Handoff
  <2>2. Go(o, "helper") \/ Ended
    BY <1>3 DEF Handoff
  <2>3. Same
    BY <1>0, <2>2
  <2> QED BY <1>0, <2>1, <2>3 DEF Afterwards, Down, Unbound, Drained
<1>4. ASSUME RestoreFails(o) PROVE Afterwards'
  <2>1. /\ UNCHANGED <<app, disconnected, strained, port>> /\ app # "down" /\ Ended
        /\ (route' = route \/ route' = FALSE) /\ (mode' = mode \/ route)
    BY <1>4 DEF RestoreFails, RefusedRestore
  <2>2. Same
    BY <1>0, <2>1
  <2> QED BY <1>0, <2>1, <2>2 DEF Afterwards, Down, Unbound, Drained
<1>5. ASSUME op[o].pc \in {"release", "helper"} PROVE ~strained => ~route
  BY <1>5, <1>0, Busy, Standing DEF RouteRestored
<1>6. ASSUME Release(o) PROVE Afterwards'
  <2>1. /\ UNCHANGED <<app, strained, route, mode>> /\ app # "down" /\ op[o].pc = "release"
        /\ disconnected' \in BOOLEAN
        /\ \/ UNCHANGED <<port, disconnected>>
           \/ port' # "main" /\ disconnected'
    BY <1>0, <1>6 DEF Release, StopProxy
  <2>2. Go(o, "handoff") \/ Ended
    BY <1>6 DEF Release
  <2>3. op'[o].pc # "install" /\ Same
    BY <1>0, <2>2
  <2>4. ~strained => \A p \in Op : op'[p].pc # "install"
    BY <1>0, <2>1, <2>2, <2>3, Busy, Idling DEF BridgeInv, Alone
  <2> QED BY <1>0, <1>5, <2>1, <2>4 DEF Afterwards, Down, Unbound, Drained
<1>7. ASSUME AwaitHelper(o) PROVE Afterwards'
  <2>1. /\ UNCHANGED <<app, strained, route>> /\ app # "down" /\ op[o].pc = "helper" /\ Ended
        /\ disconnected' \in BOOLEAN
        /\ \/ port' # "main"
           \/ mode' = "drain"
    BY <1>0, <1>7 DEF AwaitHelper, FallbackMode
  <2>2. op'[o].pc # "install" /\ Same
    BY <1>0, <2>1
  <2>3. ~strained => \A p \in Op : op'[p].pc # "install"
    BY <1>0, <2>1, <2>2, Busy, Idling DEF BridgeInv, Alone
  <2> QED BY <1>0, <1>5, <2>1, <2>3 DEF Afterwards, Down, Unbound, Drained
<1> QED BY <1>1, <1>2, <1>3, <1>4, <1>6, <1>7

LEMMA AfterOthers ==
    ASSUME BridgeInv, Afterwards,
           \/ Admit \/ NoteSeen \/ BeginTurn \/ EndTurn \/ NewCall \/ StepCall
           \/ CallTimesOut \/ StrayEnds \/ ExitRequested \/ Ends \/ Startup \/ Helper \/ Codex
    PROVE  Afterwards'
<1> USE DEF world, flags, calls
<1>1. CASE \/ Admit \/ NoteSeen \/ BeginTurn \/ EndTurn \/ NewCall \/ StepCall
           \/ CallTimesOut \/ StrayEnds \/ Codex \/ Helper
  <2>1. UNCHANGED <<op, route, strained, app, mode, disconnected>>
    BY <1>1 DEF Admit, NoteSeen, BeginTurn, EndTurn, NewCall, StepCall, CallTimesOut, StrayEnds,
                Codex, Helper
  <2>2. port' = port \/ port' # "main"
    BY <1>1 DEF Admit, NoteSeen, BeginTurn, EndTurn, NewCall, StepCall, CallTimesOut, StrayEnds,
                Codex, Helper
  <2> QED BY <2>1, <2>2 DEF Afterwards, Down, NoOperation, Unbound, Drained
<1>2. CASE ExitRequested
  BY <1>2 DEF ExitRequested, Afterwards, Down, Unbound, Drained
<1>3. CASE Ends
  <2>1. /\ op' = [o \in Op |-> NoOp] /\ port' # "main" /\ app' = "down"
        /\ UNCHANGED <<disconnected, strained>>
    BY <1>3 DEF Ends, Forget, StopProxy
  <2>2. \A o \in Op : op'[o] = NoOp
    BY <2>1
  <2> QED BY <2>1, <2>2, Idling DEF Afterwards, Down, NoOperation, Unbound, Drained
<1>4. CASE Startup
  <2>1. /\ UNCHANGED <<op, port>> /\ app = "down" /\ app' = "up" /\ disconnected'
        /\ disconnected' \in BOOLEAN /\ (~route' \/ strained')
    BY <1>4 DEF Startup
  <2> QED BY <2>1, Idling DEF Afterwards, Down, NoOperation, Unbound, Drained
<1> QED BY <1>1, <1>2, <1>3, <1>4

LEMMA AfterStep == ASSUME BridgeInv, Afterwards, [WebNext]_wvars PROVE Afterwards'
<1>1. ASSUME UNCHANGED wvars PROVE Afterwards'
  BY <1>1 DEF wvars, Afterwards, Down, NoOperation, Unbound, Drained
<1> QED BY <1>1, AfterConnect, AfterDisconnect, AfterOthers DEF WebNext

\* After a disconnect the endpoint, if this process still holds it, passes on
\* what a thread that used the bridge sends.
THEOREM StaleThreadIsNative == WebSpec => []DisconnectedIsNative
<1>1. WebInit => Afterwards
  BY AfterInit
<1>2. BridgeInv /\ Afterwards /\ [WebNext]_wvars => Afterwards'
  BY AfterStep
<1>3. Afterwards => DisconnectedIsNative
  BY DEF Afterwards, Drained, DisconnectedIsNative
<1> QED BY <1>1, <1>2, <1>3, BridgeInvariance, PTL DEF WebSpec

\* Whom Codex and its threads reach at the endpoint is right after every
\* connect and disconnect, finished, failed or cut short by a crash.
THEOREM EndpointStaysRight == WebSpec => []EndpointIsRight
<1>1. RouteServed /\ DisconnectedIsNative => EndpointIsRight
  BY DEF EndpointIsRight
<1> QED BY <1>1, CodexIsServed, StaleThreadIsNative, PTL

-----------------------------------------------------------------------------
\* The rest of the state of the web bridge: the helper has the port while it
\* serves only, and a process that is down has no turn and calls nothing.
WebTypes ==
    /\ app \in {"up", "leaving", "down"} /\ mode \in {"browser", "drain"}
    /\ busy \in BOOLEAN /\ window \in BOOLEAN /\ codex \in BOOLEAN /\ stray \in BOOLEAN
    /\ helper \in {"none", "binding", "serving"}
    /\ thread \in {"none", "bridge", "web", "lost"}
    /\ turn \in {"idle", "admitted", "queued", "running"}
    /\ port = "helper" => helper = "serving"
    /\ app = "down" => turn = "idle" /\ devtools = NoDevTools

LEMMA WebTypesHold ==
    ASSUME BridgeTypes, Serves, WebTypes, [WebNext]_wvars
    PROVE  WebTypes'
<1> USE DEF WebTypes, world, flags, calls
<1>1. CASE UNCHANGED wvars
  BY <1>1 DEF wvars
<1>2. ASSUME NEW o \in Op, Connect(o) \/ Disconnect(o) PROVE WebTypes'
  BY <1>2 DEF Connect, Disconnect, Enter
<1>3. ASSUME NEW o \in Op, EnsureWindow(o) \/ Recreate(o) \/ SignIn(o) PROVE WebTypes'
  BY <1>3 DEF EnsureWindow, Recreate, SignIn, OpAt, ConnectEnds
<1>4. ASSUME NEW o \in Op, Retire(o) PROVE WebTypes'
  BY <1>4 DEF Retire, OpAt, ConnectEnds
<1>5. ASSUME NEW o \in Op, Bind(o) \/ Install(o) PROVE WebTypes'
  BY <1>5 DEF Bind, Install, OpAt, ConnectEnds
<1>6. ASSUME NEW o \in Op, Drain(o) \/ Restore(o) \/ RestoreFails(o) PROVE WebTypes'
  BY <1>6 DEF Drain, Restore, RestoreFails, RefusedRestore, OpAt, DisconnectEnds
<1>7. ASSUME NEW o \in Op, Quiet(o) \/ Destroy(o) PROVE WebTypes'
  BY <1>7 DEF Quiet, Destroy, OpAt, DisconnectEnds
<1>8. ASSUME NEW o \in Op, Release(o) \/ Handoff(o) PROVE WebTypes'
  BY <1>8 DEF Release, Handoff, StopProxy, OpAt, DisconnectEnds
<1>9. ASSUME NEW o \in Op, AwaitHelper(o) PROVE WebTypes'
  BY <1>9 DEF AwaitHelper, FallbackMode, OpAt, DisconnectEnds
<1>10. CASE Admit \/ NoteSeen \/ BeginTurn \/ NewCall
  BY <1>10 DEF Admit, NoteSeen, BeginTurn, NewCall
<1>11. CASE EndTurn \/ StepCall \/ CallTimesOut \/ StrayEnds
  BY <1>11 DEF EndTurn, StepCall, CallTimesOut, StrayEnds, DropGuard
<1>12. CASE ExitRequested \/ Ends \/ Startup
  BY <1>12 DEF ExitRequested, Ends, Startup, Forget, StopProxy
<1>13. CASE Helper \/ Codex
  BY <1>13 DEF Helper, Codex, Serves
<1> QED BY <1>1, <1>2, <1>3, <1>4, <1>5, <1>6, <1>7, <1>8, <1>9, <1>10, <1>11, <1>12, <1>13
           DEF WebNext

LEMMA WebTyped == BridgeInv /\ Serves /\ Afterwards /\ WebTypes => WebTypeOK
<1> SUFFICES ASSUME BridgeInv, Serves, Afterwards, WebTypes PROVE WebTypeOK
  OBVIOUS
<1>1. (port = "helper") = (helper = "serving")
  BY DEF Serves, WebTypes
<1>2. app = "down" => NoOperation /\ turn = "idle" /\ devtools = NoDevTools /\ port # "main"
  BY DEF WebTypes, Afterwards, Down
<1> QED BY <1>1, <1>2, Zenon DEF WebTypeOK, WebTypes, BridgeInv, BridgeTypes, Afterwards

-----------------------------------------------------------------------------
(* The Codex configuration                                                 *)

Configs == [url : UserUrls \cup {"bridge"}, catalog : UserCatalogs \cup {"bridge"},
            legacy : BOOLEAN]
ConfigFiles == Journals \cup {NoJournal}
Steps == {"idle", "recovery", "config", "primary", "back", "unlink"}
Works == [pc : Steps, config : Configs, journal : ConfigFiles]

RouteTypes == /\ config \in Configs /\ mine \in [url : UserUrls, catalog : UserCatalogs]
         /\ primary \in ConfigFiles /\ recovery \in ConfigFiles /\ work \in Works

\* The user's lines can be told from the configuration c and the journal j.
Keeps(c, j) == \A key \in {"url", "catalog"} : \/ c[key] = mine[key]
                                               \/ c[key] = "bridge" /\ j[key] = mine[key]
Back(c) == c.url = mine.url /\ c.catalog = mine.catalog

\* The journal that will be read once the recovery file is j.
JournalRead(j) == IF primary # NoJournal THEN primary ELSE j

\* What the rest of an install, or of a restore, still writes keeps them too.
WorkKeeps ==
    /\ work.pc = "recovery" => Keeps(config, JournalRead(work.journal))
    /\ work.pc \in {"recovery", "config"} =>
         /\ Keeps(work.config, JournalRead(work.journal)) /\ Keeps(work.config, work.journal)
         /\ work.journal # NoJournal /\ work.journal.catalog = "none"
    /\ work.pc = "config" => recovery = work.journal
    /\ work.pc = "primary" => Keeps(config, work.journal) /\ work.journal # NoJournal
    /\ work.pc = "back" => Back(work.config)
    /\ work.pc = "unlink" => Back(config)

\* A recovery file that is alone and in use says nothing of the catalogue: an
\* installation without one wrote it.
RecoveryAlone == primary = NoJournal /\ recovery # NoJournal /\ config.url = "bridge"
                     => recovery.catalog = "none"

RouteInv == RouteTypes /\ UserValueKept /\ WorkKeeps /\ RecoveryAlone

-----------------------------------------------------------------------------
LEMMA KeptIs == UserValueKept <=> Keeps(config, Current)
BY DEF UserValueKept, Keeps, Owned

LEMMA RouteInitHolds == ASSUME RouteInit PROVE RouteInv
<1>1. work.pc = "idle"
  BY DEF RouteInit, NoWork
<1>2. RouteTypes
  BY DEF RouteInit, RouteTypes, Configs, ConfigFiles, Works, Steps, NoWork, Journals, NoJournal, UserUrls,
         UserCatalogs
<1>3. UserValueKept /\ RecoveryAlone
  BY DEF RouteInit, UserValueKept, Owned, Current, NoJournal, RecoveryAlone, UserUrls, UserCatalogs
<1> QED BY <1>1, <1>2, <1>3 DEF RouteInv, WorkKeeps

\* With a journal that can be restored, the user's lines can be read off it.
LEMMA Restoring == ASSUME RouteInv, Current # NoJournal, CanRestore(Current)
                   PROVE  LET j == Current IN
                          /\ config.url = "bridge" /\ j.url = mine.url
                          /\ Migrated(j).url = "bridge" /\ Migrated(j).catalog = mine.catalog
                          /\ Migrated(j) \in Configs /\ RestoreConfig(j) \in Configs
                          /\ RestoreConfig(j).url = mine.url
                          /\ RestoreConfig(j).catalog = mine.catalog
<1> DEFINE j == Current
<1>1. j \in Journals
  BY DEF RouteInv, RouteTypes, ConfigFiles, Current
<1>2. config.url = "bridge" /\ j.url = mine.url
  BY KeptIs DEF RouteInv, RouteTypes, Keeps, CanRestore, Owned, UserUrls
<1>3. (IF j.catalog = "none" THEN config.catalog ELSE j.catalog) = mine.catalog
  BY KeptIs DEF RouteInv, RouteTypes, Keeps, CanRestore, Owned, UserCatalogs
<1> QED BY <1>1, <1>2, <1>3 DEF RouteInv, RouteTypes, Migrated, RestoreConfig, Configs

LEMMA InstallHolds == ASSUME RouteInv, InstallRoute PROVE RouteInv'
<1> DEFINE j == [url |-> config.url, catalog |-> "none"]
           c == [url |-> "bridge", catalog |-> config.catalog, legacy |-> FALSE]
<1>1. /\ work' = [pc |-> "recovery", config |-> c, journal |-> j]
      /\ UNCHANGED <<config, primary, recovery, mine>>
  BY DEF InstallRoute, FirstStep, onDisk
<1>2. primary = NoJournal /\ recovery = NoJournal
  BY DEF InstallRoute, Current
<1>3. config.url = mine.url /\ config.catalog = mine.catalog
  BY <1>2 DEF RouteInv, RouteTypes, UserValueKept, Owned, Current, NoJournal, UserUrls, UserCatalogs
<1>4. j \in Journals /\ c \in Configs /\ j # NoJournal
  BY <1>3 DEF RouteInv, RouteTypes, Journals, Configs, NoJournal, UserUrls
<1>5. RouteTypes'
  BY <1>1, <1>4 DEF RouteInv, RouteTypes, Works, Steps, ConfigFiles
<1>6. Keeps(config, j) /\ Keeps(c, j)
  BY <1>3 DEF Keeps
<1>7. WorkKeeps'
  BY <1>1, <1>2, <1>4, <1>6 DEF WorkKeeps, Keeps, JournalRead
<1>8. (UserValueKept /\ RecoveryAlone)'
  BY <1>1 DEF RouteInv, UserValueKept, RecoveryAlone, Owned, Current
<1> QED BY <1>5, <1>7, <1>8 DEF RouteInv

LEMMA InstallAgainHolds == ASSUME RouteInv, InstallAgain PROVE RouteInv'
<1> DEFINE j == [Current EXCEPT !.catalog = "none"]
           c == Migrated(Current)
<1>1. /\ work' = [pc |-> "recovery", config |-> c, journal |-> j]
      /\ UNCHANGED <<config, primary, recovery, mine>>
      /\ Current # NoJournal /\ CanRestore(Current)
  BY DEF InstallAgain, FirstStep, onDisk
<1>2. Current \in Journals
  BY <1>1 DEF RouteInv, RouteTypes, ConfigFiles, Current
<1>3. /\ config.url = "bridge" /\ Current.url = mine.url
      /\ c.url = "bridge" /\ c.catalog = mine.catalog /\ c \in Configs
  BY <1>1, Restoring
<1>4. j \in Journals /\ j.url = mine.url /\ j.catalog = "none" /\ j # NoJournal
  BY <1>2, <1>3 DEF Journals, NoJournal, UserUrls
<1> HIDE DEF c, j
<1>5. RouteTypes'
  BY <1>1, <1>3, <1>4 DEF RouteInv, RouteTypes, Works, Steps, ConfigFiles
<1>6. Keeps(c, j)
  BY <1>3, <1>4 DEF Keeps
<1>7. Keeps(config, JournalRead(j)) /\ Keeps(c, JournalRead(j))
  <2>1. CASE primary # NoJournal
    BY <2>1, <1>3, KeptIs DEF RouteInv, JournalRead, Current, Keeps
  <2>2. CASE primary = NoJournal
    <3>1. Current = recovery /\ recovery.catalog = "none"
      BY <2>2, <1>1, <1>3 DEF RouteInv, RecoveryAlone, Current
    <3>2. config.catalog = mine.catalog
      BY <3>1, KeptIs DEF RouteInv, RouteTypes, Keeps, UserCatalogs
    <3> QED BY <2>2, <3>2, <1>3, <1>4, <1>6 DEF JournalRead, Keeps
  <2> QED BY <2>1, <2>2
<1>8. WorkKeeps'
  BY <1>1, <1>4, <1>6, <1>7 DEF WorkKeeps, Keeps, JournalRead
<1>9. (UserValueKept /\ RecoveryAlone)'
  BY <1>1 DEF RouteInv, UserValueKept, RecoveryAlone, Owned, Current
<1> QED BY <1>5, <1>8, <1>9 DEF RouteInv

LEMMA RestoreHolds == ASSUME RouteInv, RestoreRoute PROVE RouteInv'
<1>1. /\ work' = [pc |-> "back", config |-> RestoreConfig(Current), journal |-> NoJournal]
      /\ UNCHANGED <<config, primary, recovery, mine>>
      /\ Current # NoJournal /\ CanRestore(Current)
  BY DEF RestoreRoute, onDisk
<1>2. Back(RestoreConfig(Current)) /\ RestoreConfig(Current) \in Configs
  BY <1>1, Restoring DEF Back
<1>3. RouteTypes'
  BY <1>1, <1>2 DEF RouteInv, RouteTypes, Works, Steps, ConfigFiles
<1>4. WorkKeeps'
  BY <1>1, <1>2 DEF WorkKeeps, Back
<1>5. (UserValueKept /\ RecoveryAlone)'
  BY <1>1 DEF RouteInv, UserValueKept, RecoveryAlone, Owned, Current
<1> QED BY <1>3, <1>4, <1>5 DEF RouteInv

\* What the steps that only move on make of `work`.
LEMMA Steady == ASSUME RouteTypes, NEW pc \in Steps
                PROVE  LET w == [work EXCEPT !.pc = pc] IN
                       w \in Works /\ w.pc = pc /\ w.config = work.config
                       /\ w.journal = work.journal
BY DEF RouteTypes, Works

LEMMA IdleWorks == ASSUME RouteTypes PROVE NoWork \in Works /\ NoWork.pc = "idle"
BY DEF RouteTypes, NoWork, Works, Steps, ConfigFiles

\* When nothing is at work only the files have to keep the lines.
LEMMA IdleHolds == ASSUME RouteTypes', work'.pc = "idle", UserValueKept', RecoveryAlone'
                   PROVE  RouteInv'
BY DEF RouteInv, WorkKeeps

LEMMA WritesHold == ASSUME RouteInv, WriteRecovery \/ WriteConfig \/ WritePrimary PROVE RouteInv'
<1>0. RouteTypes /\ work.journal \in ConfigFiles /\ work.config \in Configs
  BY DEF RouteInv, RouteTypes, Works
<1>1. CASE WriteRecovery
  <2>1. /\ work.pc = "recovery" /\ recovery' = work.journal
        /\ work'.pc = "config" /\ work'.config = work.config /\ work'.journal = work.journal
        /\ work' \in Works /\ UNCHANGED <<config, primary, mine>>
    BY <1>0, <1>1, Steady DEF WriteRecovery, Steps
  <2>2. RouteTypes'
    BY <1>0, <2>1 DEF RouteTypes
  <2>3. UserValueKept'
    BY <2>1 DEF RouteInv, WorkKeeps, UserValueKept, Keeps, JournalRead, Owned, Current
  <2>4. WorkKeeps' /\ RecoveryAlone'
    BY <2>1 DEF RouteInv, WorkKeeps, RecoveryAlone, Keeps, JournalRead
  <2> QED BY <2>2, <2>3, <2>4 DEF RouteInv
<1>2. CASE WriteConfig /\ work.pc = "config"
  <2>1. /\ config' = work.config /\ work'.pc = "primary" /\ work'.journal = work.journal
        /\ work' \in Works /\ UNCHANGED <<primary, recovery, mine>>
    BY <1>0, <1>2, Steady DEF WriteConfig, Steps
  <2>2. RouteTypes'
    BY <1>0, <2>1 DEF RouteTypes
  <2>3. UserValueKept'
    BY <1>2, <2>1 DEF RouteInv, WorkKeeps, UserValueKept, Keeps, JournalRead, Owned, Current
  <2>4. WorkKeeps' /\ RecoveryAlone'
    BY <1>2, <2>1 DEF RouteInv, WorkKeeps, RecoveryAlone, Keeps, JournalRead
  <2> QED BY <2>2, <2>3, <2>4 DEF RouteInv
<1>3. CASE WriteConfig /\ work.pc = "back"
  <2>1. /\ config' = work.config /\ work'.pc = "unlink"
        /\ work' \in Works /\ UNCHANGED <<primary, recovery, mine>>
    BY <1>0, <1>3, Steady DEF WriteConfig, Steps
  <2>2. RouteTypes'
    BY <1>0, <2>1 DEF RouteTypes
  <2>3. config'.url = mine.url /\ config'.catalog = mine.catalog
    BY <1>3, <2>1 DEF RouteInv, WorkKeeps, Back
  <2>4. UserValueKept' /\ WorkKeeps'
    BY <2>1, <2>3 DEF UserValueKept, WorkKeeps, Back
  <2>5. RecoveryAlone'
    BY <1>0, <2>3 DEF RecoveryAlone, RouteTypes, UserUrls
  <2> QED BY <2>2, <2>4, <2>5 DEF RouteInv
<1>4. CASE WritePrimary
  <2>1. /\ work.pc = "primary" /\ primary' = work.journal /\ work' = NoWork
        /\ UNCHANGED <<config, recovery, mine>>
    BY <1>4 DEF WritePrimary
  <2>2. RouteTypes' /\ work'.pc = "idle"
    BY <1>0, <2>1, IdleWorks DEF RouteTypes
  <2>3. Keeps(config, work.journal) /\ work.journal # NoJournal
    BY <2>1 DEF RouteInv, WorkKeeps
  <2>4. UserValueKept' /\ RecoveryAlone'
    BY <2>1, <2>3 DEF UserValueKept, RecoveryAlone, Keeps, Owned, Current
  <2> QED BY <2>2, <2>4, IdleHolds
<1> QED BY <1>1, <1>2, <1>3, <1>4 DEF WriteConfig

\* The journals go one after the other; until both are gone the configuration
\* is the user's.
LEMMA UnlinkHolds == ASSUME RouteInv, Unlink PROVE RouteInv'
<1>0. RouteTypes
  BY DEF RouteInv
<1>1. /\ config.url = mine.url /\ config.catalog = mine.catalog /\ work.pc = "unlink"
      /\ UNCHANGED <<config, mine>>
  BY DEF Unlink, RouteInv, WorkKeeps, Back
<1>2. work' = work \/ work' = NoWork
  BY DEF Unlink
<1>3. RouteTypes'
  BY <1>0, <1>1, <1>2, IdleWorks DEF RouteTypes, ConfigFiles, Unlink
<1>4. UserValueKept'
  BY <1>1 DEF UserValueKept
<1>5. RecoveryAlone'
  BY <1>0, <1>1 DEF RecoveryAlone, RouteTypes, UserUrls
<1>6. WorkKeeps'
  BY <1>0, <1>1, <1>2, IdleWorks DEF WorkKeeps, Back
<1> QED BY <1>3, <1>4, <1>5, <1>6 DEF RouteInv

LEMMA InterruptHolds == ASSUME RouteInv, Interrupt PROVE RouteInv'
<1>1. work' = NoWork /\ UNCHANGED <<config, primary, recovery, mine>>
  BY DEF Interrupt, onDisk
<1>2. RouteTypes' /\ work'.pc = "idle"
  BY <1>1, IdleWorks DEF RouteInv, RouteTypes
<1>3. UserValueKept' /\ RecoveryAlone'
  BY <1>1 DEF RouteInv, UserValueKept, RecoveryAlone, Owned, Current
<1> QED BY <1>2, <1>3, IdleHolds

LEMMA EditHolds == ASSUME RouteInv, Edit PROVE RouteInv'
<1>1. PICK u \in UserUrls : config' = [config EXCEPT !.url = u] /\ mine' = [mine EXCEPT !.url = u]
  BY DEF Edit
<1>2. work.pc = "idle" /\ UNCHANGED <<primary, recovery, work>>
  BY DEF Edit
<1>3. /\ config'.url = u /\ config'.catalog = config.catalog /\ config' \in Configs
      /\ mine'.url = u /\ mine'.catalog = mine.catalog
      /\ mine' \in [url : UserUrls, catalog : UserCatalogs]
  BY <1>1 DEF RouteInv, RouteTypes, Configs
<1>4. RouteTypes'
  BY <1>2, <1>3 DEF RouteInv, RouteTypes
<1>5. UserValueKept'
  BY <1>2, <1>3 DEF RouteInv, UserValueKept, Owned, Current
<1>6. RecoveryAlone'
  BY <1>3 DEF RecoveryAlone, UserUrls
<1> QED BY <1>2, <1>4, <1>5, <1>6, IdleHolds

LEMMA RouteStepHolds == ASSUME RouteInv, [RouteNext]_rvars PROVE RouteInv'
<1>1. CASE UNCHANGED rvars
  BY <1>1 DEF rvars, RouteInv, RouteTypes, UserValueKept, Owned, Current, WorkKeeps, Keeps, JournalRead, Back,
              RecoveryAlone
<1> QED BY <1>1, InstallHolds, InstallAgainHolds, RestoreHolds, WritesHold, UnlinkHolds,
           InterruptHolds, EditHolds DEF RouteNext

LEMMA RouteTyped == RouteInv => RouteTypeOK
BY DEF RouteInv, RouteTypes, RouteTypeOK, Configs, ConfigFiles, Works, Steps

\* What the user wrote into the configuration of Codex can always be read off
\* it or off the journal, at every interruption of an install or a restore and
\* through any number of edits.
THEOREM UserNeverLoses == RouteSpec => []UserValueKept
<1>1. RouteInit => RouteInv
  BY RouteInitHolds
<1>2. RouteInv /\ [RouteNext]_rvars => RouteInv'
  BY RouteStepHolds
<1>3. RouteInv => UserValueKept
  BY DEF RouteInv
<1> QED BY <1>1, <1>2, <1>3, PTL DEF RouteSpec

-----------------------------------------------------------------------------
(* TurnStream: texts                                                       *)

\* Of bounded numbers there is a highest one.
LEMMA HighestOf ==
    ASSUME NEW b \in Nat, NEW S \in SUBSET (0 .. b), S # {}
    PROVE  Max(S) \in S /\ \A n \in S : n <= Max(S)
<1> DEFINE U == {b - n : n \in S}
<1>1. U \in SUBSET Nat /\ U # {}
  <2>1. \A n \in S : n \in Int /\ n <= b
    OBVIOUS
  <2>2. \A n \in S : b - n \in Nat
    BY <2>1
  <2> QED BY <2>2
<1>2. PICK u \in U : \A v \in U : u <= v
  BY <1>1, LowestPort
<1>3. PICK m \in S : u = b - m
  BY <1>2
<1>4. \A n \in S : n <= m
  <2> TAKE n \in S
  <2>1. b - m <= b - n
    BY <1>2, <1>3
  <2> QED BY <2>1
<1>5. \E x \in S : \A y \in S : x >= y
  BY <1>4
<1>6. Max(S) \in S /\ \A y \in S : Max(S) >= y
  BY <1>5 DEF Max
<1> QED BY <1>6

LEMMA LowestOf ==
    ASSUME NEW S \in SUBSET Nat, S # {}
    PROVE  Min(S) \in S /\ \A n \in S : Min(S) <= n
BY LowestPort DEF Min

LEMMA TextsAre == \A t : t \in Texts <=> t \in Seq(Symbol) /\ Len(t) <= MaxLen
<1>1. MaxLen \in Nat
  BY TurnAssumption
<1>2. ASSUME NEW t \in Texts PROVE t \in Seq(Symbol) /\ Len(t) <= MaxLen
  <2>1. PICK m \in 0 .. MaxLen : t \in [1 .. m -> Symbol]
    BY DEF Texts, SeqOf
  <2> QED BY <1>1, <2>1, SeqDef, LenProperties
<1>3. ASSUME NEW t \in Seq(Symbol), Len(t) <= MaxLen PROVE t \in Texts
  <2>1. t \in [1 .. Len(t) -> Symbol] /\ Len(t) \in 0 .. MaxLen
    BY <1>1, <1>3
  <2> QED BY <2>1 DEF Texts, SeqOf
<1> QED BY <1>2, <1>3

\* A text is its first symbols and the rest.
LEMMA PrefixIs ==
    ASSUME NEW S, NEW s \in Seq(S), NEW n \in 0 .. Len(s)
    PROVE  /\ Prefix(s, n) \in Seq(S) /\ Len(Prefix(s, n)) = n
           /\ \A i \in 1 .. n : Prefix(s, n)[i] = s[i]
           /\ Rest(s, n) \in Seq(S) /\ Len(Rest(s, n)) = Len(s) - n
           /\ Prefix(s, n) \o Rest(s, n) = s
           /\ IsPrefix(Prefix(s, n), s)
           /\ Prefix(s, n) = [i \in 1 .. n |-> s[i]]
<1>1. Prefix(s, n) \in Seq(S) /\ Len(Prefix(s, n)) = n /\ \A i \in 1 .. n : Prefix(s, n)[i] = s[i]
  BY DEF Prefix
<1>2. Rest(s, n) \in Seq(S) /\ Len(Rest(s, n)) = Len(s) - n
      /\ \A i \in 1 .. Len(s) - n : Rest(s, n)[i] = s[n + i]
  BY DEF Rest
<1>3. Prefix(s, n) \o Rest(s, n) = s
  <2> DEFINE p == Prefix(s, n)
             r == Rest(s, n)
  <2> HIDE DEF p, r
  <2>1. p \in Seq(S) /\ Len(p) = n /\ \A i \in 1 .. n : p[i] = s[i]
    BY <1>1 DEF p
  <2>2. r \in Seq(S) /\ Len(r) = Len(s) - n /\ \A i \in 1 .. Len(s) - n : r[i] = s[n + i]
    BY <1>2 DEF r
  <2>3. Len(p \o r) = Len(s) /\ p \o r \in Seq(S)
    BY <2>1, <2>2
  <2>4. \A i \in 1 .. Len(s) : (p \o r)[i] = s[i]
    <3> TAKE i \in 1 .. Len(s)
    <3>1. CASE i <= n
      BY <2>1, <2>2, <3>1
    <3>2. CASE i > n
      <4>1. (p \o r)[i] = r[i - n] /\ i - n \in 1 .. Len(s) - n /\ n + (i - n) = i
        BY <2>1, <2>2, <3>2
      <4> QED BY <2>2, <4>1
    <3>3. i <= n \/ i > n
      OBVIOUS
    <3> QED BY <3>1, <3>2, <3>3
  <2>5. p \o r = s
    BY <2>3, <2>4, SeqEqual
  <2> QED BY <2>5 DEF p, r
<1>4. IsPrefix(Prefix(s, n), s)
  <2>1. SubSeq(Prefix(s, n), 1, n) = Prefix(s, n)
    BY <1>1
  <2> QED BY <1>1, <2>1 DEF IsPrefix, Prefix
<1>5. Prefix(s, n) = [i \in 1 .. n |-> s[i]]
  BY DEF Prefix
<1> QED BY <1>1, <1>2, <1>3, <1>4, <1>5

LEMMA PrefixMeans ==
    ASSUME NEW S, NEW s \in Seq(S), NEW t \in Seq(S)
    PROVE  IsPrefix(s, t) <=> Len(s) <= Len(t) /\ \A i \in 1 .. Len(s) : s[i] = t[i]
<1>1. SubSeq(s, 1, Len(s)) = s
  OBVIOUS
<1>2. ASSUME Len(s) <= Len(t)
      PROVE  SubSeq(t, 1, Len(s)) = s <=> \A i \in 1 .. Len(s) : s[i] = t[i]
  <2>1. SubSeq(t, 1, Len(s)) \in Seq(S) /\ Len(SubSeq(t, 1, Len(s))) = Len(s)
        /\ \A i \in 1 .. Len(s) : SubSeq(t, 1, Len(s))[i] = t[i]
    BY <1>2
  <2>2. ASSUME \A i \in 1 .. Len(s) : s[i] = t[i] PROVE SubSeq(t, 1, Len(s)) = s
    <3> DEFINE u == SubSeq(t, 1, Len(s))
    <3> HIDE DEF u
    <3>1. u \in Seq(S) /\ Len(u) = Len(s) /\ \A i \in 1 .. Len(s) : u[i] = s[i]
      BY <2>1, <2>2 DEF u
    <3>2. u = s
      BY <3>1, SeqEqual
    <3> QED BY <3>2 DEF u
  <2> QED BY <2>1, <2>2
<1> QED BY <1>1, <1>2 DEF IsPrefix

LEMMA PrefixesChain ==
    ASSUME NEW S, NEW r \in Seq(S), NEW s \in Seq(S), NEW t \in Seq(S)
    PROVE  /\ IsPrefix(r, r)
           /\ IsPrefix(r, s) /\ IsPrefix(s, t) => IsPrefix(r, t)
           /\ IsPrefix(r, t) /\ IsPrefix(s, t) => IsPrefix(r, s) \/ IsPrefix(s, r)
           /\ IsPrefix(r, r \o s)
           /\ IsPrefix(r, <<>>) => r = <<>>
<1> DEFINE rs == r \o s
<1>1. rs \in Seq(S) /\ Len(rs) = Len(r) + Len(s) /\ \A i \in 1 .. Len(r) : rs[i] = r[i]
  OBVIOUS
<1> HIDE DEF rs
<1>2. IsPrefix(r, rs)
  BY <1>1, PrefixMeans
<1>3. /\ IsPrefix(r, r)
      /\ IsPrefix(r, s) /\ IsPrefix(s, t) => IsPrefix(r, t)
      /\ IsPrefix(r, t) /\ IsPrefix(s, t) => IsPrefix(r, s) \/ IsPrefix(s, r)
  BY PrefixMeans
<1>4. IsPrefix(r, <<>>) => r = <<>>
  BY DEF IsPrefix
<1> QED BY <1>2, <1>3, <1>4 DEF rs

\* A prefix with what it lacks is the text.
LEMMA PrefixGrows ==
    ASSUME NEW S, NEW s \in Seq(S), NEW t \in Seq(S), IsPrefix(s, t)
    PROVE  Len(s) \in 0 .. Len(t) /\ s = Prefix(t, Len(s)) /\ s \o Rest(t, Len(s)) = t
           /\ Rest(t, Len(s)) \in Seq(S)
<1>1. Len(s) \in 0 .. Len(t)
  BY DEF IsPrefix
<1>2. s = Prefix(t, Len(s))
  <2>1. SubSeq(s, 1, Len(s)) = s
    OBVIOUS
  <2> QED BY <2>1 DEF IsPrefix, Prefix
<1> QED BY <1>1, <1>2, PrefixIs

-----------------------------------------------------------------------------
(* The gate and the channel                                                *)

Gates == [mode : {"undecided", "message", "tool"}, pending : Texts]

\* Of the text emitted, the gate g has let s through.
GateHolds(g, emit, s) ==
    \/ g.mode = "undecided" /\ g.pending = emit /\ s = <<>> /\ IsPrefix(emit, Marker)
    \/ g.mode = "tool" /\ s = <<>> /\ IsPrefix(Marker, emit)
    \/ g.mode = "message" /\ s = emit /\ ~IsPrefix(Marker, emit) /\ ~IsPrefix(emit, Marker)

LEMMA ForwardHolds ==
    ASSUME NEW g \in Gates, NEW emit \in Seq(Symbol), NEW s \in Seq(Symbol), GateHolds(g, emit, s),
           NEW d \in Seq(Symbol), emit \o d \in Texts
    PROVE  /\ Forward(g, d).gate \in Gates
           /\ \/ Forward(g, d).out = <<>> /\ GateHolds(Forward(g, d).gate, emit \o d, s)
              \/ \E x \in Seq(Symbol) : /\ x # <<>> /\ Forward(g, d).out = <<x>>
                                        /\ GateHolds(Forward(g, d).gate, emit \o d, s \o x)
<1> DEFINE all == emit \o d
           cand == g.pending \o d
<1>1. all \in Seq(Symbol) /\ Marker \in Seq(Symbol) /\ IsPrefix(emit, all) /\ all \in Texts
      /\ (d # <<>> => all # <<>>)
  <2>1. Marker \in Seq(Symbol)
    BY TurnAssumption
  <2> QED BY <2>1, PrefixesChain
<1>2. <<>> \o emit = emit /\ <<>> \o all = all /\ (d = <<>> => all = emit)
  BY <1>1
<1>3. <<>> \in Seq(Symbol) /\ Len(<<>>) = 0 /\ <<>> \in Texts
  <2>1. <<>> \in Seq(Symbol) /\ Len(<<>>) = 0 /\ MaxLen \in Nat
    BY TurnAssumption
  <2>2. Len(<<>>) <= MaxLen
    BY <2>1
  <2> QED BY <2>1, <2>2, TextsAre
<1>4. CASE d = <<>>
  <2>1. Forward(g, d) = [gate |-> g, out |-> <<>>]
    BY <1>4 DEF Forward
  <2> QED BY <1>2, <1>4, <2>1
<1>5. CASE d # <<>> /\ g.mode = "message"
  <2>1. Forward(g, d) = [gate |-> g, out |-> <<d>>]
    BY <1>5 DEF Forward
  <2>2. s = emit /\ ~IsPrefix(Marker, emit) /\ ~IsPrefix(emit, Marker)
    BY <1>5 DEF GateHolds
  <2>3. ~IsPrefix(Marker, all) /\ ~IsPrefix(all, Marker)
    <3> HIDE DEF all
    <3> QED BY <1>1, <2>2, PrefixesChain
  <2>4. GateHolds(g, all, all)
    BY <1>5, <2>3 DEF GateHolds
  <2> QED BY <1>5, <2>1, <2>2, <2>4
<1>6. CASE d # <<>> /\ g.mode = "tool"
  <2>1. Forward(g, d) = [gate |-> g, out |-> <<>>]
    BY <1>6 DEF Forward
  <2>2. s = <<>> /\ IsPrefix(Marker, emit)
    BY <1>6 DEF GateHolds
  <2>3. IsPrefix(Marker, all)
    <3> HIDE DEF all
    <3> QED BY <1>1, <2>2, PrefixesChain
  <2>4. GateHolds(g, all, s)
    BY <1>6, <2>2, <2>3 DEF GateHolds
  <2> QED BY <2>1, <2>4
<1>7. CASE d # <<>> /\ g.mode \notin {"message", "tool"}
  <2>1. g.mode = "undecided" /\ g.pending = emit /\ s = <<>>
    BY <1>7 DEF GateHolds
  <2>2. cand = all
    BY <2>1
  <2> HIDE DEF all, cand
  <2>3. CASE IsPrefix(all, Marker)
    <3>1. Forward(g, d) = [gate |-> [g EXCEPT !.pending = all], out |-> <<>>]
      BY <1>7, <2>2, <2>3 DEF Forward, cand
    <3>2. [g EXCEPT !.pending = all] \in Gates
      BY <1>1 DEF Gates
    <3>3. GateHolds([g EXCEPT !.pending = all], all, s)
      BY <2>1, <2>3 DEF GateHolds, Gates
    <3> QED BY <3>1, <3>2, <3>3 DEF all
  <2>4. CASE ~IsPrefix(all, Marker) /\ IsPrefix(Marker, all)
    <3> DEFINE h == [mode |-> "tool", pending |-> all]
    <3>1. Forward(g, d) = [gate |-> h, out |-> <<>>]
      BY <1>7, <2>2, <2>4 DEF Forward, cand
    <3>2. h \in Gates
      BY <1>1 DEF Gates
    <3>3. GateHolds(h, all, s)
      BY <2>1, <2>4 DEF GateHolds
    <3> QED BY <3>1, <3>2, <3>3 DEF all
  <2>5. CASE ~IsPrefix(all, Marker) /\ ~IsPrefix(Marker, all)
    <3> DEFINE h == [mode |-> "message", pending |-> <<>>]
    <3>1. Forward(g, d) = [gate |-> h, out |-> <<all>>]
      BY <1>7, <2>2, <2>5 DEF Forward, cand
    <3>2. h \in Gates
      BY <1>3 DEF Gates
    <3>3. s \o all = all
      BY <1>2, <2>1
    <3>4. GateHolds(h, all, s \o all)
      BY <2>5, <3>3 DEF GateHolds
    <3>5. all \in Seq(Symbol) /\ all # <<>>
      BY <1>1, <1>7 DEF all
    <3>6. Forward(g, d).gate = h /\ Forward(g, d).out = <<all>>
      BY <3>1
    <3> HIDE DEF h
    <3>7. \E x \in Seq(Symbol) : /\ x # <<>> /\ Forward(g, d).out = <<x>>
                                 /\ GateHolds(Forward(g, d).gate, all, s \o x)
      BY <3>4, <3>5, <3>6, Zenon
    <3> QED BY <3>2, <3>6, <3>7 DEF all
  <2> QED BY <2>3, <2>4, <2>5
<1> QED
  BY <1>4, <1>5, <1>6, <1>7

\* The text all is what was received and, piece by piece, what is in the channel.
Divided(got, q, all) ==
    \E ends \in [0 .. Len(q) -> 0 .. Len(all)] :
      /\ ends[0] = Len(got) /\ ends[Len(q)] = Len(all) /\ got = Prefix(all, ends[0])
      /\ \A i \in 1 .. Len(q) : /\ ends[i - 1] < ends[i]
                                /\ q[i] = SubSeq(all, ends[i - 1] + 1, ends[i])

LEMMA Pieces ==
    ASSUME NEW S, NEW s \in Seq(S), NEW a \in 0 .. Len(s), NEW b \in 0 .. Len(s), a <= b
    PROVE  /\ Prefix(s, a) \o SubSeq(s, a + 1, b) = Prefix(s, b)
           /\ SubSeq(s, a + 1, b) \in Seq(S) /\ Len(SubSeq(s, a + 1, b)) = b - a
           /\ \A i \in 1 .. b - a : SubSeq(s, a + 1, b)[i] = s[a + i]
<1> DEFINE p == Prefix(s, a)
           r == SubSeq(s, a + 1, b)
           t == Prefix(s, b)
<1>1. r \in Seq(S) /\ Len(r) = b - a /\ \A i \in 1 .. b - a : r[i] = s[a + i]
  OBVIOUS
<1>2. /\ p \in Seq(S) /\ Len(p) = a /\ \A i \in 1 .. a : p[i] = s[i]
      /\ t \in Seq(S) /\ Len(t) = b /\ \A i \in 1 .. b : t[i] = s[i]
  BY PrefixIs
<1> HIDE DEF p, r, t
<1>3. p \o r \in Seq(S) /\ Len(p \o r) = b
  <2>1. p \in Seq(S) /\ r \in Seq(S)
    BY <1>1, <1>2
  <2>2. p \o r \in Seq(S) /\ Len(p \o r) = Len(p) + Len(r)
    BY <2>1
  <2>3. Len(p) + Len(r) = b
    BY <1>1, <1>2
  <2> QED BY <2>2, <2>3
<1>4. \A i \in 1 .. b : (p \o r)[i] = t[i]
  <2> TAKE i \in 1 .. b
  <2>1. CASE i <= a
    BY <1>1, <1>2, <2>1
  <2>2. CASE i > a
    <3>1. (p \o r)[i] = r[i - a] /\ i - a \in 1 .. b - a /\ a + (i - a) = i
      BY <1>1, <1>2, <2>2
    <3> QED BY <1>1, <1>2, <3>1
  <2>3. i <= a \/ i > a
    OBVIOUS
  <2> QED BY <2>1, <2>2, <2>3
<1>5. p \o r = t
  BY <1>2, <1>3, <1>4, SeqEqual
<1> QED BY <1>1, <1>5 DEF p, r, t

\* What a text shares with a longer one.
LEMMA PiecesStay ==
    ASSUME NEW S, NEW s \in Seq(S), NEW x \in Seq(S)
    PROVE  /\ \A b \in 0 .. Len(s) : Prefix(s \o x, b) = Prefix(s, b)
           /\ \A a, b \in 0 .. Len(s) : a <= b => SubSeq(s \o x, a + 1, b) = SubSeq(s, a + 1, b)
           /\ SubSeq(s \o x, Len(s) + 1, Len(s) + Len(x)) = x
<1> DEFINE t == s \o x
<1>1. /\ t \in Seq(S) /\ Len(t) = Len(s) + Len(x)
      /\ \A i \in 1 .. Len(s) : t[i] = s[i]
      /\ \A i \in 1 .. Len(x) : t[Len(s) + i] = x[i]
  OBVIOUS
<1> HIDE DEF t
<1>2. ASSUME NEW a \in 0 .. Len(s), NEW b \in 0 .. Len(s), a <= b
      PROVE  SubSeq(t, a + 1, b) = SubSeq(s, a + 1, b)
  <2>1. a \in 0 .. Len(t) /\ b \in 0 .. Len(t)
    BY <1>1
  <2> DEFINE u == SubSeq(t, a + 1, b)
             v == SubSeq(s, a + 1, b)
  <2>2. u \in Seq(S) /\ Len(u) = b - a /\ \A i \in 1 .. b - a : u[i] = t[a + i]
    BY <1>1, <1>2, <2>1, Pieces
  <2>3. v \in Seq(S) /\ Len(v) = b - a /\ \A i \in 1 .. b - a : v[i] = s[a + i]
    BY <1>2, Pieces
  <2> HIDE DEF u, v
  <2>4. ASSUME NEW i \in 1 .. b - a PROVE u[i] = v[i]
    <3>1. a + i \in 1 .. Len(s)
      BY <1>2
    <3> QED BY <1>1, <2>2, <2>3, <3>1
  <2>5. u = v
    BY <2>2, <2>3, <2>4, SeqEqual
  <2> QED BY <2>5 DEF u, v
<1>3. ASSUME NEW b \in 0 .. Len(s) PROVE Prefix(t, b) = Prefix(s, b)
  <2>1. 0 \in 0 .. Len(s) /\ 0 <= b /\ 0 + 1 = 1
    OBVIOUS
  <2>2. SubSeq(t, 0 + 1, b) = SubSeq(s, 0 + 1, b)
    BY <1>2, <2>1
  <2> QED BY <2>1, <2>2 DEF Prefix
<1>4. SubSeq(t, Len(s) + 1, Len(s) + Len(x)) = x
  <2> DEFINE u == SubSeq(t, Len(s) + 1, Len(s) + Len(x))
  <2>0. Len(s) \in 0 .. Len(t) /\ Len(s) + Len(x) \in 0 .. Len(t) /\ Len(s) <= Len(s) + Len(x)
        /\ (Len(s) + Len(x)) - Len(s) = Len(x)
    BY <1>1
  <2>1. u \in Seq(S) /\ Len(u) = Len(x) /\ \A i \in 1 .. Len(x) : u[i] = t[Len(s) + i]
    BY <1>1, <2>0, Pieces
  <2> HIDE DEF u
  <2>2. u = x
    BY <1>1, <2>1, SeqEqual
  <2> QED BY <2>2 DEF u
<1> QED BY <1>2, <1>3, <1>4 DEF t

LEMMA PushDivides ==
    ASSUME NEW got \in Seq(Symbol), NEW q \in Seq(Seq(Symbol)), NEW all \in Seq(Symbol),
           NEW x \in Seq(Symbol), x # <<>>, Divided(got, q, all)
    PROVE  Divided(got, q \o <<x>>, all \o x)
<1> DEFINE N == Len(q)
           L == Len(all)
           more == all \o x
           r == q \o <<x>>
<1>1. PICK ends \in [0 .. N -> 0 .. L] :
        /\ ends[0] = Len(got) /\ ends[N] = L /\ got = Prefix(all, ends[0])
        /\ \A i \in 1 .. N : ends[i - 1] < ends[i] /\ q[i] = SubSeq(all, ends[i - 1] + 1, ends[i])
  BY DEF Divided
<1>2. N \in Nat /\ L \in Nat /\ Len(x) \in Nat /\ Len(x) > 0 /\ Len(more) = L + Len(x)
  OBVIOUS
<1>3. Len(r) = N + 1 /\ (\A i \in 1 .. N : r[i] = q[i]) /\ r[N + 1] = x
  OBVIOUS
<1>4. /\ \A b \in 0 .. L : Prefix(more, b) = Prefix(all, b)
      /\ \A a, b \in 0 .. L : a <= b => SubSeq(more, a + 1, b) = SubSeq(all, a + 1, b)
      /\ SubSeq(more, L + 1, L + Len(x)) = x
  BY PiecesStay
<1> DEFINE en == [i \in 0 .. N + 1 |-> IF i <= N THEN ends[i] ELSE L + Len(x)]
<1> HIDE DEF N, L, more, r
<1>5. \A i \in 0 .. N : ends[i] \in 0 .. L
  BY <1>1
<1>6. en \in [0 .. N + 1 -> 0 .. L + Len(x)]
  <2>1. \A i \in 0 .. N + 1 : (IF i <= N THEN ends[i] ELSE L + Len(x)) \in 0 .. L + Len(x)
    <3> TAKE i \in 0 .. N + 1
    <3>1. CASE i <= N
      <4>1. ends[i] \in 0 .. L
        BY <1>2, <1>5, <3>1
      <4> QED BY <1>2, <3>1, <4>1
    <3>2. CASE ~(i <= N)
      BY <1>2, <3>2
    <3> QED BY <3>1, <3>2
  <2> QED BY <2>1
<1>7. (\A i \in 0 .. N : en[i] = ends[i]) /\ en[N + 1] = L + Len(x)
  BY <1>2
<1> HIDE DEF en
<1>8. en[0] = Len(got) /\ got = Prefix(more, en[0])
  BY <1>1, <1>2, <1>4, <1>5, <1>7
<1>9. ASSUME NEW i \in 1 .. N + 1
      PROVE  en[i - 1] < en[i] /\ r[i] = SubSeq(more, en[i - 1] + 1, en[i])
  <2>1. CASE i <= N
    <3>1. i - 1 \in 0 .. N /\ i \in 0 .. N /\ i \in 1 .. N
      BY <1>2, <2>1
    <3>2. en[i - 1] = ends[i - 1] /\ en[i] = ends[i] /\ ends[i - 1] < ends[i]
          /\ r[i] = SubSeq(all, ends[i - 1] + 1, ends[i])
      BY <1>1, <1>3, <1>7, <3>1
    <3>3. ends[i - 1] \in 0 .. L /\ ends[i] \in 0 .. L /\ ends[i - 1] <= ends[i]
      BY <1>5, <3>1, <3>2
    <3> QED BY <1>4, <3>2, <3>3
  <2>2. CASE i = N + 1
    <3>1. en[i - 1] = L /\ en[i] = L + Len(x)
      BY <1>1, <1>2, <1>7, <2>2
    <3>2. en[i - 1] < en[i]
      BY <1>2, <3>1
    <3>3. SubSeq(more, en[i - 1] + 1, en[i]) = x
      BY <1>4, <3>1
    <3> QED BY <1>3, <2>2, <3>2, <3>3
  <2> QED BY <1>2, <2>1, <2>2
<1>10. Divided(got, r, more)
  BY <1>2, <1>3, <1>6, <1>7, <1>8, <1>9 DEF Divided, more
<1> QED BY <1>10 DEF r, more

LEMMA TakeDivides ==
    ASSUME NEW got \in Seq(Symbol), NEW q \in Seq(Seq(Symbol)), NEW all \in Seq(Symbol),
           q # <<>>, Divided(got, q, all)
    PROVE  Divided(got \o Head(q), Tail(q), all)
<1> DEFINE N == Len(q)
           L == Len(all)
           r == Tail(q)
           have == got \o Head(q)
<1>1. PICK ends \in [0 .. N -> 0 .. L] :
        /\ ends[0] = Len(got) /\ ends[N] = L /\ got = Prefix(all, ends[0])
        /\ \A i \in 1 .. N : ends[i - 1] < ends[i] /\ q[i] = SubSeq(all, ends[i - 1] + 1, ends[i])
  BY DEF Divided
<1>2. N \in Nat /\ N >= 1 /\ L \in Nat /\ Len(r) = N - 1 /\ Head(q) = q[1]
      /\ \A i \in 1 .. N - 1 : r[i] = q[i + 1]
  OBVIOUS
<1> DEFINE en == [i \in 0 .. N - 1 |-> ends[i + 1]]
<1>3. ends[0] \in 0 .. L /\ ends[1] \in 0 .. L /\ ends[0] < ends[1] /\ q[1] = SubSeq(all, ends[0] + 1, ends[1])
  <2>1. 1 \in 1 .. N /\ 0 \in 0 .. N /\ 1 \in 0 .. N /\ 1 - 1 = 0
    BY <1>2
  <2> QED BY <1>1, <2>1
<1>4. have = Prefix(all, ends[1])
  <2>1. have = got \o q[1]
    BY <1>2
  <2>2. ends[0] \in 0 .. Len(all) /\ ends[1] \in 0 .. Len(all) /\ ends[0] <= ends[1]
    BY <1>3
  <2>3. Prefix(all, ends[0]) \o SubSeq(all, ends[0] + 1, ends[1]) = Prefix(all, ends[1])
    BY <2>2, Pieces
  <2> QED BY <1>1, <1>3, <2>1, <2>3
<1>5. Len(have) = ends[1]
  <2>1. ends[1] \in 0 .. Len(all)
    BY <1>3
  <2> HIDE DEF have
  <2>2. Len(Prefix(all, ends[1])) = ends[1]
    BY <2>1, PrefixIs
  <2> QED BY <1>4, <2>2
<1> HIDE DEF N, L, r, have
<1>6. en \in [0 .. N - 1 -> 0 .. L] /\ \A i \in 0 .. N - 1 : en[i] = ends[i + 1]
  <2>1. \A i \in 0 .. N - 1 : i + 1 \in 0 .. N
    BY <1>2
  <2> QED BY <1>1, <2>1
<1> HIDE DEF en
<1>7. en[0] = ends[1] /\ en[N - 1] = L
  <2>1. 0 \in 0 .. N - 1 /\ N - 1 \in 0 .. N - 1 /\ (N - 1) + 1 = N /\ 0 + 1 = 1
    BY <1>2
  <2> QED BY <1>1, <1>6, <2>1
<1>8. ASSUME NEW i \in 1 .. N - 1
      PROVE  en[i - 1] < en[i] /\ r[i] = SubSeq(all, en[i - 1] + 1, en[i])
  <2>1. i - 1 \in 0 .. N - 1 /\ i \in 0 .. N - 1 /\ i + 1 \in 1 .. N /\ (i - 1) + 1 = i /\ (i + 1) - 1 = i
    BY <1>2
  <2>2. en[i - 1] = ends[i] /\ en[i] = ends[i + 1]
    BY <1>6, <2>1
  <2> QED BY <1>1, <1>2, <2>1, <2>2
<1>9. Divided(have, r, all)
  BY <1>2, <1>4, <1>5, <1>6, <1>7, <1>8 DEF Divided, L
<1> QED BY <1>9 DEF have, r

\* An empty channel has been read, and nothing comes of nothing.
LEMMA DividedEnds ==
    ASSUME NEW got \in Seq(Symbol), NEW q \in Seq(Seq(Symbol)), NEW all \in Seq(Symbol),
           Divided(got, q, all)
    PROVE  (q = <<>> => got = all) /\ (all = <<>> => got = <<>> /\ q = <<>>)
<1>1. PICK ends \in [0 .. Len(q) -> 0 .. Len(all)] :
        /\ ends[0] = Len(got) /\ ends[Len(q)] = Len(all) /\ got = Prefix(all, ends[0])
        /\ \A i \in 1 .. Len(q) : ends[i - 1] < ends[i]
  BY DEF Divided
<1>2. q = <<>> => got = all
  <2>1. q = <<>> => got = Prefix(all, Len(all))
    BY <1>1
  <2>2. Prefix(all, Len(all)) = all
    BY DEF Prefix
  <2> QED BY <2>1, <2>2
<1>3. ASSUME all = <<>> PROVE got = <<>> /\ q = <<>>
  <2>1. \A i \in 0 .. Len(q) : ends[i] = 0
    <3>1. Len(all) = 0
      BY <1>3
    <3>2. \A i \in 0 .. Len(q) : ends[i] \in 0 .. 0
      BY <1>1, <3>1
    <3> QED BY <3>2
  <2>2. Len(q) = 0
    <3>1. Len(q) \in Nat /\ (Len(q) >= 1 => 1 \in 1 .. Len(q) /\ 0 \in 0 .. Len(q) /\ 1 \in 0 .. Len(q))
      OBVIOUS
    <3>2. Len(q) >= 1 => ends[1 - 1] < ends[1] /\ ends[0] = 0 /\ ends[1] = 0 /\ 1 - 1 = 0
      BY <1>1, <2>1, <3>1
    <3>3. ~(Len(q) >= 1)
      <4> SUFFICES ASSUME Len(q) >= 1 PROVE FALSE
        OBVIOUS
      <4>1. ends[0] < ends[1] /\ ends[0] = 0 /\ ends[1] = 0
        BY <3>2
      <4>2. 0 < 0
        BY <4>1
      <4> QED BY <4>2
    <3> QED BY <3>1, <3>3
  <2>3. Len(got) = 0
    <3>1. 0 \in 0 .. Len(q)
      OBVIOUS
    <3> QED BY <1>1, <2>1, <3>1
  <2> QED BY <2>2, <2>3
<1> QED BY <1>2, <1>3

LEMMA FirstDivided == Divided(<<>>, <<>>, <<>>)
<1> DEFINE en == [i \in 0 .. 0 |-> 0]
<1>1. Len(<<>>) = 0 /\ en \in [0 .. 0 -> 0 .. 0] /\ en[0] = 0 /\ Prefix(<<>>, 0) = <<>> /\ 1 .. 0 = {}
  BY DEF Prefix
<1> HIDE DEF en
<1> QED BY <1>1 DEF Divided

-----------------------------------------------------------------------------
(* TurnStream: a turn                                                      *)

Phases == {"idle", "navigate", "refresh", "effort", "last effort", "attach", "submit", "waiting",
           "stream", "ended"}
Fresh == {"refresh", "effort", "last effort", "attach", "submit"}

TurnTypes ==
    /\ chat \in [turns : Nat, coming : Nat] /\ phase \in Phases /\ turns \in 0 .. MaxTurn
    /\ late \in BOOLEAN /\ blank \in BOOLEAN /\ rewritten \in BOOLEAN
    /\ last \in Texts /\ committed \in Texts /\ emitted \in Texts
    /\ streamed \in Seq(Symbol) /\ text \in Seq(Symbol)
    /\ gate \in Gates /\ queue \in Seq(Seq(Symbol)) /\ Len(queue) <= MaxQueue
    /\ outcome \in {"none", "failed", "message", "tools", "diverged", "mixed"}

\* A turn clicks once, on a page that shows nothing, unless a turn that was
\* given up left a message to come.
PageIsOwn ==
    /\ chat.turns + chat.coming <= turns
    /\ phase \in Fresh \cup {"navigate"} => chat.turns + chat.coming < turns
    /\ ~late =>
         /\ phase \in {"idle", "navigate", "ended"} => chat.coming = 0
         /\ phase \in Fresh => chat.turns = 0 /\ chat.coming = 0
         /\ phase = "waiting" => chat.turns + chat.coming = 1
         /\ phase = "stream" => chat.turns = 1 /\ chat.coming = 0

\* What was received and what is in the channel is what the gate has let
\* through, and the answer begins with what was emitted.
Streams == \E s \in Seq(Symbol) : GateHolds(gate, emitted, s) /\ Divided(streamed, queue, s)
InTurn == /\ outcome = "none" /\ Streams
          /\ ~rewritten => IsPrefix(emitted, last)
          /\ phase = "ended" => IsPrefix(emitted, text) /\ (~rewritten => text = last)

TurnInv == TurnTypes /\ PageIsOwn /\ (phase # "idle" => InTurn) /\ NeverContradicts /\ TextIsWhole

LEMMA NoTextIs == <<>> \in Texts /\ <<>> \in Seq(Symbol) /\ Len(<<>>) = 0 /\ <<>> \in Seq(Seq(Symbol))
                  /\ Undecided \in Gates /\ Marker \in Seq(Symbol)
                  /\ \A t \in Seq(Symbol) : IsPrefix(<<>>, t)
<1>1. <<>> \in Seq(Symbol) /\ Len(<<>>) = 0 /\ <<>> \in Seq(Seq(Symbol))
  OBVIOUS
<1>2. MaxLen \in Nat /\ Marker \in Seq(Symbol)
  BY TurnAssumption
<1>3. Len(<<>>) <= MaxLen
  BY <1>1, <1>2
<1>4. <<>> \in Texts
  BY <1>1, <1>3, TextsAre
<1>6. ASSUME NEW t \in Seq(Symbol) PROVE IsPrefix(<<>>, t)
  <2>1. SubSeq(<<>>, 1, 0) = <<>> /\ SubSeq(t, 1, 0) = <<>> /\ 0 <= Len(t)
    OBVIOUS
  <2> QED BY <1>1, <2>1 DEF IsPrefix
<1>7. Undecided \in Gates
  BY <1>4 DEF Undecided, Gates
<1> QED BY <1>1, <1>2, <1>4, <1>6, <1>7

\* A turn begins with nothing emitted.
LEMMA NothingEmitted ==
    ASSUME gate' = Undecided, emitted' = <<>>, streamed' = <<>>, queue' = <<>>
    PROVE  Streams'
<1>1. GateHolds(Undecided, <<>>, <<>>)
  BY NoTextIs DEF GateHolds, Undecided
<1>2. Divided(<<>>, <<>>, <<>>)
  BY FirstDivided
<1>3. GateHolds(gate', emitted', <<>>) /\ Divided(streamed', queue', <<>>) /\ <<>> \in Seq(Symbol)
  BY <1>1, <1>2, NoTextIs
<1>4. \E s \in Seq(Symbol) : GateHolds(gate', emitted', s) /\ Divided(streamed', queue', s)
  BY <1>3
<1>5. \A g, e, s : g = gate' /\ e = emitted' /\ GateHolds(g, e, s) => GateHolds(gate', emitted', s)
  OBVIOUS
<1> QED BY <1>4 DEF Streams

LEMMA TurnInitHolds == ASSUME TurnInit PROVE TurnInv
<1>1. MaxTurn \in Nat /\ MaxQueue \in Nat
  BY TurnAssumption
<1>2. TurnTypes
  <2>1. chat \in [turns : Nat, coming : Nat] /\ phase \in Phases /\ turns \in 0 .. MaxTurn
    BY <1>1 DEF TurnInit, Phases
  <2>2. gate \in Gates /\ queue \in Seq(Seq(Symbol)) /\ Len(queue) <= MaxQueue
    BY <1>1, NoTextIs DEF TurnInit
  <2> QED BY <2>1, <2>2, NoTextIs DEF TurnInit, TurnTypes
<1>3. PageIsOwn
  BY DEF TurnInit, PageIsOwn, Fresh
<1>4. NeverContradicts /\ TextIsWhole
  BY DEF TurnInit, NeverContradicts, TextIsWhole
<1> QED BY <1>2, <1>3, <1>4 DEF TurnInv, TurnInit

\* More is emitted: the gate keeps it or lets it through to the channel.
LEMMA Emits ==
    ASSUME NEW g \in Gates, NEW emit \in Seq(Symbol), NEW more \in Texts, IsPrefix(emit, more),
           NEW got \in Seq(Symbol), NEW q \in Seq(Seq(Symbol)),
           \E s \in Seq(Symbol) : GateHolds(g, emit, s) /\ Divided(got, q, s)
    PROVE  LET f == Forward(g, Rest(more, Len(emit))) IN
           /\ f.gate \in Gates /\ f.out \in Seq(Seq(Symbol))
           /\ \E s \in Seq(Symbol) : GateHolds(f.gate, more, s) /\ Divided(got, q \o f.out, s)
<1> DEFINE d == Rest(more, Len(emit))
           f == Forward(g, d)
<1>1. more \in Seq(Symbol)
  BY TextsAre
<1>2. d \in Seq(Symbol) /\ emit \o d = more
  BY <1>1, PrefixGrows
<1>3. PICK s \in Seq(Symbol) : GateHolds(g, emit, s) /\ Divided(got, q, s)
  OBVIOUS
<1> HIDE DEF d
<1>4. /\ f.gate \in Gates
      /\ \/ f.out = <<>> /\ GateHolds(f.gate, more, s)
         \/ \E x \in Seq(Symbol) : x # <<>> /\ f.out = <<x>> /\ GateHolds(f.gate, more, s \o x)
  BY <1>2, <1>3, ForwardHolds
<1> HIDE DEF f
<1>5. CASE f.out = <<>> /\ GateHolds(f.gate, more, s)
  <2>1. q \o f.out = q /\ f.out \in Seq(Seq(Symbol))
    BY <1>5
  <2>2. GateHolds(f.gate, more, s) /\ Divided(got, q \o f.out, s)
    BY <1>3, <1>5, <2>1
  <2> QED BY <1>4, <2>1, <2>2 DEF f, d
<1>6. CASE \E x \in Seq(Symbol) : x # <<>> /\ f.out = <<x>> /\ GateHolds(f.gate, more, s \o x)
  <2>1. PICK x \in Seq(Symbol) : x # <<>> /\ f.out = <<x>> /\ GateHolds(f.gate, more, s \o x)
    BY <1>6
  <2>2. Divided(got, q \o <<x>>, s \o x)
    BY <1>3, <2>1, PushDivides
  <2>3. s \o x \in Seq(Symbol) /\ f.out \in Seq(Seq(Symbol))
    BY <2>1
  <2>4. GateHolds(f.gate, more, s \o x) /\ Divided(got, q \o f.out, s \o x)
    BY <2>1, <2>2
  <2> QED BY <1>4, <2>3, <2>4 DEF f, d
<1> QED BY <1>4, <1>5, <1>6

\* Two renders agree on a number of symbols.
LEMMA StableEndIs ==
    ASSUME NEW r \in Seq(Symbol), NEW m \in Seq(Symbol)
    PROVE  StableEnd(CommonPrefix(r, m)) \in 0 .. Len(m)
<1> DEFINE b == Min({Len(r), Len(m)})
           S == {n \in 0 .. b : Prefix(r, n) = Prefix(m, n)}
<1>1. b \in Nat /\ b <= Len(m)
  <2>1. {Len(r), Len(m)} \in SUBSET Nat /\ {Len(r), Len(m)} # {}
    OBVIOUS
  <2>3. b \in {Len(r), Len(m)} /\ \A q \in {Len(r), Len(m)} : b <= q
    BY <2>1, LowestOf
  <2> HIDE DEF b
  <2> QED BY <2>1, <2>3
<1> HIDE DEF b
<1>2. 0 \in S
  BY <1>1 DEF Prefix
<1>3. S \in SUBSET (0 .. b) /\ S # {}
  BY <1>2
<1> HIDE DEF S
<1>4. Max(S) \in 0 .. b
  BY <1>1, <1>3, HighestOf
<1>5. CommonPrefix(r, m) \in 0 .. b
  BY <1>4 DEF CommonPrefix, S, b
<1>6. Hold \in Nat
  BY TurnAssumption
<1> QED BY <1>1, <1>5, <1>6 DEF StableEnd

\* The answer takes nothing back that was emitted.
LEMMA FinalExtends ==
    ASSUME TurnTypes, NEW m \in Texts
    PROVE  Final(m) \in Seq(Symbol) /\ IsPrefix(emitted, Final(m))
           /\ (IsPrefix(emitted, m) => Final(m) = m)
<1>1. m \in Seq(Symbol) /\ emitted \in Seq(Symbol) /\ committed \in Seq(Symbol)
  BY TextsAre DEF TurnTypes
<1>2. ASSUME NEW n \in Nat PROVE Rest(m, n) \in Seq(Symbol)
  BY <1>1 DEF Rest
<1>3. CASE IsPrefix(emitted, m)
  BY <1>1, <1>3 DEF Final
<1>4. CASE ~IsPrefix(emitted, m) /\ Anchors(m) # {}
  <2> DEFINE longest == Min({Len(emitted), MaxAnchor})
             n == Max(Anchors(m))
             occ == Occurrences(Ending(n), m)
  <2>1. longest \in Nat /\ longest <= Len(emitted)
    <3>1. {Len(emitted), MaxAnchor} \in SUBSET Nat /\ {Len(emitted), MaxAnchor} # {}
      BY <1>1, TurnAssumption
    <3>2. longest \in {Len(emitted), MaxAnchor} /\ longest <= Len(emitted)
      BY <3>1, LowestOf
    <3> QED BY <3>1, <3>2
  <2>2. Min({MinAnchor, longest}) \in Nat
    <3>1. {MinAnchor, longest} \in SUBSET Nat /\ {MinAnchor, longest} # {}
      BY <2>1, TurnAssumption
    <3> HIDE DEF longest
    <3>2. Min({MinAnchor, longest}) \in {MinAnchor, longest}
      BY <3>1, LowestOf
    <3> QED BY <3>1, <3>2
  <2>3. Anchors(m) = {i \in Min({MinAnchor, longest}) .. longest : i > 0 /\ Once(Ending(i), m)}
    BY DEF Anchors
  <2> HIDE DEF longest
  <2>4. Anchors(m) \in SUBSET (0 .. longest)
    BY <2>1, <2>2, <2>3
  <2>5. n \in Anchors(m)
    BY <1>4, <2>1, <2>4, HighestOf
  <2>6. n \in Nat /\ n <= Len(emitted) /\ Once(Ending(n), m)
    <3> HIDE DEF n
    <3> QED BY <1>1, <2>1, <2>2, <2>3, <2>5
  <2> HIDE DEF n
  <2>7. occ \in SUBSET Nat /\ occ # {}
    <3>1. Len(Ending(n)) \in Nat /\ Len(m) \in Nat
      <4>1. Len(emitted) - n \in 0 .. Len(emitted)
        BY <1>1, <2>6
      <4>2. Rest(emitted, Len(emitted) - n) \in Seq(Symbol)
        BY <1>1, <4>1, PrefixIs
      <4>3. Len(Rest(emitted, Len(emitted) - n)) \in Nat
        BY <4>2
      <4> QED BY <1>1, <4>3 DEF Ending
    <3>2. occ \in SUBSET (0 .. Len(m) - Len(Ending(n)))
      BY DEF Occurrences
    <3>3. occ # {}
      BY <2>6 DEF Once
    <3> HIDE DEF occ
    <3> QED BY <3>1, <3>2, <3>3
  <2>8. Min(occ) \in Nat
    BY <2>7, LowestOf
  <2>9. Rest(m, Min(occ) + n) \in Seq(Symbol)
    BY <1>2, <2>6, <2>8
  <2>10. Final(m) = emitted \o Rest(m, Min(occ) + n)
    BY <1>4 DEF Final, AfterAnchor, n
  <2> HIDE DEF occ
  <2> QED BY <1>1, <1>4, <2>9, <2>10, PrefixesChain
<1>5. CASE ~IsPrefix(emitted, m) /\ Anchors(m) = {}
  <2> DEFINE blocks == committed \o Rest(m, Len(committed))
  <2>1. blocks \in Seq(Symbol)
    BY <1>1, <1>2
  <2>2. Final(m) \in {blocks, emitted} /\ (Final(m) = blocks => IsPrefix(emitted, blocks) \/ blocks = emitted)
    BY <1>5 DEF Final
  <2> HIDE DEF blocks
  <2>3. IsPrefix(emitted, emitted)
    BY <1>1, PrefixesChain
  <2> QED BY <1>1, <1>5, <2>1, <2>2, <2>3
<1> QED BY <1>3, <1>4, <1>5

\* The stream's steps.
LEMMA RenderHolds == ASSUME TurnInv, Render PROVE TurnInv'
<1>0. PICK m \in Texts \ {<<>>} : \E k \in {0} \cup {n \in 1 .. Len(m) : Blocks(m, n)} :
          LET e == IF Blocks(m, k) THEN Prefix(m, k) ELSE emitted
              first == Forward(gate, Rest(e, Len(emitted)))
              second == Forward(first.gate, Rest(Settled(m, e), Len(e)))
          IN /\ Len(queue) + Len(first.out) + Len(second.out) <= MaxQueue
             /\ emitted' = Settled(m, e)
             /\ committed' = IF Blocks(m, k) THEN Prefix(m, k) ELSE committed
             /\ gate' = second.gate
             /\ queue' = queue \o first.out \o second.out
             /\ last' = m /\ blank' = FALSE
             /\ rewritten' = (rewritten \/ ~IsPrefix(last, m))
             /\ UNCHANGED <<chat, phase, turns, late, streamed, text, outcome>>
  BY DEF Render
<1>1. PICK k \in {0} \cup {n \in 1 .. Len(m) : Blocks(m, n)} :
        LET e == IF Blocks(m, k) THEN Prefix(m, k) ELSE emitted
            first == Forward(gate, Rest(e, Len(emitted)))
            second == Forward(first.gate, Rest(Settled(m, e), Len(e)))
        IN /\ Len(queue) + Len(first.out) + Len(second.out) <= MaxQueue
           /\ emitted' = Settled(m, e)
           /\ committed' = IF Blocks(m, k) THEN Prefix(m, k) ELSE committed
           /\ gate' = second.gate
           /\ queue' = queue \o first.out \o second.out
           /\ last' = m /\ blank' = FALSE
           /\ rewritten' = (rewritten \/ ~IsPrefix(last, m))
           /\ UNCHANGED <<chat, phase, turns, late, streamed, text, outcome>>
  BY <1>0
<1> DEFINE e == IF Blocks(m, k) THEN Prefix(m, k) ELSE emitted
           f == Settled(m, e)
           first == Forward(gate, Rest(e, Len(emitted)))
           second == Forward(first.gate, Rest(f, Len(e)))
<1>2. /\ m \in Seq(Symbol) /\ Len(m) <= MaxLen /\ MaxLen \in Nat
      /\ emitted \in Seq(Symbol) /\ last \in Seq(Symbol) /\ committed \in Seq(Symbol)
      /\ emitted \in Texts /\ committed \in Texts /\ last \in Texts
  BY TextsAre, TurnAssumption DEF TurnInv, TurnTypes
<1>3. phase = "stream" /\ InTurn
  BY DEF Render, TurnInv
<1>4. /\ e \in Texts /\ e \in Seq(Symbol) /\ IsPrefix(emitted, e)
      /\ (Blocks(m, k) => IsPrefix(e, m) /\ Prefix(m, k) \in Texts)
      /\ (~Blocks(m, k) => e = emitted)
  <2>1. CASE Blocks(m, k)
    <3>1. k \in 1 .. Len(m)
      <4>1. k > Len(committed)
        BY <2>1 DEF Blocks
      <4> QED BY <1>1, <1>2, <4>1
    <3>2. k \in 0 .. Len(m)
      BY <3>1
    <3>3. Prefix(m, k) \in Seq(Symbol) /\ Len(Prefix(m, k)) = k /\ IsPrefix(Prefix(m, k), m)
      BY <1>2, <3>2, PrefixIs
    <3>4. Len(Prefix(m, k)) <= MaxLen
      BY <1>2, <3>1, <3>3
    <3>5. IsPrefix(emitted, Prefix(m, k))
      BY <2>1 DEF Blocks, IsStrictPrefix
    <3>6. Prefix(m, k) \in Texts
      BY <3>3, <3>4, TextsAre
    <3> QED BY <2>1, <3>3, <3>5, <3>6
  <2>2. CASE ~Blocks(m, k)
    BY <1>2, <2>2, PrefixesChain
  <2> QED BY <2>1, <2>2
<1> HIDE DEF e
<1>5. f \in Texts /\ f \in Seq(Symbol) /\ IsPrefix(e, f) /\ (f = e \/ IsPrefix(f, m))
  <2> DEFINE end == StableEnd(CommonPrefix(last, m))
  <2>1. end \in 0 .. Len(m)
    BY <1>2, StableEndIs
  <2> HIDE DEF end
  <2>2. CASE f = Prefix(m, end) /\ IsPrefix(e, m) /\ end > Len(e)
    <3>1. Prefix(m, end) \in Seq(Symbol) /\ Len(Prefix(m, end)) = end /\ IsPrefix(Prefix(m, end), m)
      BY <1>2, <2>1, PrefixIs
    <3>2. Prefix(m, end) \in Texts
      BY <1>2, <2>1, <3>1, TextsAre
    <3>3. IsPrefix(e, Prefix(m, end))
      <4>1. IsPrefix(e, Prefix(m, end)) \/ IsPrefix(Prefix(m, end), e)
        BY <1>2, <1>4, <2>2, <3>1, PrefixesChain
      <4>2. ~IsPrefix(Prefix(m, end), e)
        BY <1>4, <2>1, <2>2, <3>1 DEF IsPrefix
      <4> QED BY <4>1, <4>2
    <3> QED BY <2>2, <3>1, <3>2, <3>3
  <2>3. CASE f = e
    BY <1>4, <2>3, PrefixesChain
  <2> QED BY <2>2, <2>3 DEF Settled, end
<1> HIDE DEF f
<1>6. /\ first.gate \in Gates /\ first.out \in Seq(Seq(Symbol))
      /\ \E s \in Seq(Symbol) : GateHolds(first.gate, e, s) /\ Divided(streamed, queue \o first.out, s)
  <2>1. \E s \in Seq(Symbol) : GateHolds(gate, emitted, s) /\ Divided(streamed, queue, s)
    BY <1>3 DEF InTurn, Streams
  <2>2. gate \in Gates /\ streamed \in Seq(Symbol) /\ queue \in Seq(Seq(Symbol))
    BY DEF TurnInv, TurnTypes
  <2> QED BY <1>2, <1>4, <2>1, <2>2, Emits
<1> HIDE DEF first
<1>7. /\ second.gate \in Gates /\ second.out \in Seq(Seq(Symbol))
      /\ \E s \in Seq(Symbol) : GateHolds(second.gate, f, s)
                                /\ Divided(streamed, (queue \o first.out) \o second.out, s)
  <2>1. streamed \in Seq(Symbol) /\ queue \o first.out \in Seq(Seq(Symbol))
    BY <1>6 DEF TurnInv, TurnTypes
  <2> QED BY <1>4, <1>5, <1>6, <2>1, Emits
<1> HIDE DEF second
<1>8. /\ Len(queue) + Len(first.out) + Len(second.out) <= MaxQueue
      /\ emitted' = f /\ committed' = (IF Blocks(m, k) THEN Prefix(m, k) ELSE committed)
      /\ gate' = second.gate /\ queue' = (queue \o first.out) \o second.out
      /\ last' = m /\ blank' = FALSE /\ rewritten' = (rewritten \/ ~IsPrefix(last, m))
      /\ UNCHANGED <<chat, phase, turns, late, streamed, text, outcome>>
  BY <1>1 DEF e, f, first, second
<1>9. TurnTypes'
  <2>1. queue' \in Seq(Seq(Symbol)) /\ Len(queue') <= MaxQueue
    <3>1. queue \in Seq(Seq(Symbol))
      BY DEF TurnInv, TurnTypes
    <3>2. queue' \in Seq(Seq(Symbol)) /\ Len(queue') = Len(queue) + Len(first.out) + Len(second.out)
      BY <1>6, <1>7, <1>8, <3>1
    <3> QED BY <1>8, <3>2
  <2>2. last' \in Texts /\ committed' \in Texts /\ emitted' \in Texts /\ gate' \in Gates
    BY <1>2, <1>4, <1>5, <1>7, <1>8
  <2>3. rewritten' \in BOOLEAN /\ blank' \in BOOLEAN
    BY <1>8
  <2> QED BY <1>8, <2>1, <2>2, <2>3 DEF TurnInv, TurnTypes
<1>10. PageIsOwn'
  BY <1>8 DEF TurnInv, PageIsOwn
<1>11. Streams'
  BY <1>7, <1>8 DEF Streams
<1>12. ~rewritten' => IsPrefix(emitted', last')
  <2> SUFFICES ASSUME ~rewritten' PROVE IsPrefix(f, m)
    BY <1>8
  <2>1. ~rewritten /\ IsPrefix(last, m) /\ IsPrefix(emitted, last)
    BY <1>3, <1>8 DEF InTurn
  <2>2. IsPrefix(emitted, m)
    BY <1>2, <2>1, PrefixesChain
  <2> QED BY <1>4, <1>5, <2>2
<1>13. phase' = "stream" /\ outcome' = "none" /\ InTurn'
  BY <1>3, <1>8, <1>11, <1>12 DEF InTurn
<1>14. NeverContradicts' /\ TextIsWhole'
  BY <1>13 DEF NeverContradicts, TextIsWhole
<1> QED BY <1>9, <1>10, <1>13, <1>14 DEF TurnInv

LEMMA CompleteHolds == ASSUME TurnInv, Complete PROVE TurnInv'
<1>1. PICK m \in Texts \ {<<>>} :
        /\ text' = Final(m) /\ last' = m /\ rewritten' = (rewritten \/ ~IsPrefix(last, m))
        /\ phase' = "ended"
        /\ UNCHANGED <<chat, turns, late, blank, committed, emitted, gate, queue, streamed, outcome>>
  BY DEF Complete
<1>2. m \in Seq(Symbol) /\ emitted \in Seq(Symbol) /\ last \in Seq(Symbol)
  BY TextsAre DEF TurnInv, TurnTypes
<1>3. phase = "stream" /\ InTurn
  BY DEF Complete, TurnInv
<1>4. Final(m) \in Seq(Symbol) /\ IsPrefix(emitted, Final(m)) /\ (IsPrefix(emitted, m) => Final(m) = m)
  BY FinalExtends DEF TurnInv
<1>5. TurnTypes'
  BY <1>1, <1>4 DEF TurnInv, TurnTypes, Phases
<1>6. PageIsOwn'
  BY <1>1, <1>3 DEF TurnInv, PageIsOwn, Fresh
<1>7. Streams'
  BY <1>1, <1>3 DEF InTurn, Streams
<1>8. ~rewritten' => IsPrefix(emitted', last') /\ text' = last'
  <2> SUFFICES ASSUME ~rewritten' PROVE IsPrefix(emitted, m) /\ Final(m) = m
    BY <1>1
  <2>1. ~rewritten /\ IsPrefix(last, m) /\ IsPrefix(emitted, last)
    BY <1>1, <1>3 DEF InTurn
  <2>2. IsPrefix(emitted, m)
    BY <1>2, <2>1, PrefixesChain
  <2> QED BY <1>4, <2>2
<1>9. outcome' = "none" /\ InTurn'
  BY <1>1, <1>3, <1>4, <1>7, <1>8 DEF InTurn
<1>10. NeverContradicts' /\ TextIsWhole'
  BY <1>9 DEF NeverContradicts, TextIsWhole
<1> QED BY <1>5, <1>6, <1>9, <1>10 DEF TurnInv

LEMMA DeliverHolds == ASSUME TurnInv, Deliver PROVE TurnInv'
<1>1. /\ phase \in {"stream", "ended"} /\ queue # <<>>
      /\ streamed' = streamed \o Head(queue) /\ queue' = Tail(queue)
      /\ UNCHANGED <<chat, phase, turns, late, last, blank, committed, emitted, gate, text, outcome,
                     rewritten>>
  BY DEF Deliver
<1>2. InTurn /\ TurnTypes
  BY <1>1 DEF TurnInv
<1>3. /\ queue \in Seq(Seq(Symbol)) /\ streamed \in Seq(Symbol) /\ Len(queue) <= MaxQueue
      /\ MaxQueue \in Nat
  BY <1>2, TurnAssumption DEF TurnTypes
<1>4. /\ Head(queue) \in Seq(Symbol) /\ Tail(queue) \in Seq(Seq(Symbol))
      /\ Len(Tail(queue)) <= MaxQueue /\ streamed \o Head(queue) \in Seq(Symbol)
  <2>1. Head(queue) \in Seq(Symbol) /\ Tail(queue) \in Seq(Seq(Symbol)) /\ Len(Tail(queue)) = Len(queue) - 1
    BY <1>1, <1>3
  <2> QED BY <1>3, <2>1
<1>5. TurnTypes'
  BY <1>1, <1>2, <1>4 DEF TurnTypes
<1>6. PageIsOwn'
  BY <1>1 DEF TurnInv, PageIsOwn
<1>7. Streams'
  <2>1. PICK s \in Seq(Symbol) : GateHolds(gate, emitted, s) /\ Divided(streamed, queue, s)
    BY <1>2 DEF InTurn, Streams
  <2>2. Divided(streamed \o Head(queue), Tail(queue), s)
    BY <1>1, <1>3, <2>1, TakeDivides
  <2>3. GateHolds(gate', emitted', s) /\ Divided(streamed', queue', s)
    BY <1>1, <2>1, <2>2
  <2> QED BY <2>3 DEF Streams
<1>8. InTurn'
  BY <1>1, <1>2, <1>7 DEF InTurn
<1>9. NeverContradicts' /\ TextIsWhole'
  BY <1>8 DEF InTurn, NeverContradicts, TextIsWhole
<1> QED BY <1>5, <1>6, <1>8, <1>9 DEF TurnInv

\* A message ends with the rest of the answer, tool calls with nothing sent.
LEMMA EndHolds == ASSUME TurnInv, EndMessage \/ EndTools PROVE TurnInv'
<1>1. phase = "ended" /\ phase' = "idle" /\ queue' = <<>>
      /\ UNCHANGED <<chat, turns, late, last, blank, committed, emitted, gate, text, rewritten>>
  BY DEF EndMessage, EndTools
<1>2. TurnTypes /\ InTurn /\ Streams /\ IsPrefix(emitted, text) /\ (~rewritten => text = last)
  BY <1>1 DEF TurnInv, InTurn
<1>3. /\ emitted \in Seq(Symbol) /\ text \in Seq(Symbol) /\ streamed \in Seq(Symbol)
      /\ queue \in Seq(Seq(Symbol)) /\ Marker \in Seq(Symbol) /\ MaxQueue \in Nat
  BY <1>2, TextsAre, TurnAssumption DEF TurnTypes
<1>4. PICK s \in Seq(Symbol) : GateHolds(gate, emitted, s) /\ Divided(streamed, queue, s)
  BY <1>2 DEF Streams
<1>5. s = <<>> \/ (s = emitted /\ ~IsPrefix(Marker, text))
  <2>1. ~IsPrefix(Marker, emitted) /\ ~IsPrefix(emitted, Marker) => ~IsPrefix(Marker, text)
    BY <1>2, <1>3, PrefixesChain
  <2> QED BY <1>4, <2>1 DEF GateHolds
<1>6. PageIsOwn'
  BY <1>1 DEF TurnInv, PageIsOwn, Fresh
<1>7. /\ queue' \in Seq(Seq(Symbol)) /\ Len(queue') <= MaxQueue /\ phase' \in Phases
  BY <1>1, <1>3, NoTextIs DEF Phases
<1>8. CASE EndMessage
  <2>1. queue = <<>> /\ streamed = s
    BY <1>3, <1>4, <1>8, DividedEnds DEF EndMessage
  <2>2. IsPrefix(s, text)
    <3>1. s = <<>> => IsPrefix(s, text)
      BY <1>3, NoTextIs
    <3> QED BY <1>2, <1>5, <3>1
  <2>3. streamed' = streamed \o Rest(text, Len(streamed)) /\ outcome' = "message"
    BY <1>8, <2>1, <2>2 DEF EndMessage, Remainder
  <2>4. streamed' = text
    BY <1>3, <2>1, <2>2, <2>3, PrefixGrows
  <2>5. TurnTypes'
    BY <1>1, <1>2, <1>3, <1>7, <2>3, <2>4 DEF TurnTypes
  <2>6. NeverContradicts' /\ TextIsWhole'
    BY <1>1, <1>2, <2>3, <2>4 DEF NeverContradicts, TextIsWhole
  <2> QED BY <1>1, <1>6, <2>5, <2>6 DEF TurnInv
<1>9. CASE EndTools
  <2>1. IsPrefix(Marker, text) /\ streamed' = streamed
    BY <1>9 DEF EndTools
  <2>2. streamed = <<>> /\ queue = <<>>
    BY <1>3, <1>4, <1>5, <2>1, DividedEnds
  <2>3. outcome' \in {"tools", "failed"}
    BY <1>9, <2>2 DEF EndTools
  <2>4. TurnTypes'
    BY <1>1, <1>2, <1>7, <2>1, <2>3 DEF TurnTypes
  <2>5. NeverContradicts' /\ TextIsWhole'
    BY <2>3 DEF NeverContradicts, TextIsWhole
  <2> QED BY <1>1, <1>6, <2>4, <2>5 DEF TurnInv
<1> QED BY <1>8, <1>9

\* The steps before the answer.
LEMMA BeforeHolds ==
    ASSUME TurnInv, Reuse \/ Navigate \/ EffortFailed \/ EffortSelected \/ Attached \/ Submit
                    \/ Acknowledged
    PROVE  TurnInv'
<1>1. UNCHANGED <<turns, stream>> /\ phase # "idle" /\ phase' # "idle" /\ phase' # "ended"
      /\ phase' \in Phases
  BY DEF Reuse, Navigate, EffortFailed, EffortSelected, Attached, Submit, Acknowledged, Phases
<1>2. /\ chat \in [turns : Nat, coming : Nat] /\ late \in BOOLEAN /\ turns \in Nat /\ phase \in Phases
      /\ PageIsOwn
  BY TurnAssumption DEF TurnInv, TurnTypes
<1>3. chat' \in [turns : Nat, coming : Nat] /\ late' \in BOOLEAN /\ PageIsOwn'
  <2>1. CASE Reuse
    BY <1>2, <2>1 DEF Reuse, CanReuse, PageIsOwn, Fresh
  <2>2. CASE Navigate
    <3>1. chat.turns + chat.coming < turns /\ chat.turns \in Nat /\ chat.coming \in Nat
      BY <1>2, <2>2 DEF Navigate, PageIsOwn, Fresh
    <3>2. 0 < turns /\ 0 + 0 = 0
      BY <1>2, <3>1
    <3>3. chat' = [turns |-> 0, coming |-> 0] /\ late' = FALSE /\ turns' = turns
          /\ phase' \in {"effort", "last effort"}
      BY <2>2 DEF Navigate
    <3>5. chat'.turns = 0 /\ chat'.coming = 0 /\ chat'.turns + chat'.coming = 0 /\ 0 <= turns /\ 0 < turns
      <4>1. chat'.turns = 0 /\ chat'.coming = 0
        BY <3>3
      <4>2. chat'.turns + chat'.coming = 0 + 0
        BY <4>1
      <4>3. turns \in Nat
        BY <1>2
      <4> QED BY <3>2, <4>1, <4>2, <4>3
    <3>4. PageIsOwn'
      BY <3>3, <3>5 DEF PageIsOwn, Fresh
    <3> QED BY <3>3, <3>4
  <2>3. CASE EffortFailed \/ EffortSelected \/ Attached
    BY <1>2, <2>3 DEF EffortFailed, EffortSelected, Attached, PageIsOwn, Fresh
  <2>4. CASE Submit
    <3>1. chat' = [turns |-> chat.turns, coming |-> chat.coming + 1]
      BY <1>2, <2>4 DEF Submit
    <3> QED BY <1>2, <2>4, <3>1 DEF Submit, PageIsOwn, Fresh
  <2>5. CASE Acknowledged
    BY <1>2, <2>5 DEF Acknowledged, PageIsOwn, Fresh
  <2> QED BY <2>1, <2>2, <2>3, <2>4, <2>5
<1>4. TurnTypes'
  BY <1>1, <1>3 DEF TurnInv, TurnTypes, stream
<1>5. InTurn' /\ NeverContradicts' /\ TextIsWhole'
  <2>1. InTurn /\ NeverContradicts /\ TextIsWhole
    BY <1>1 DEF TurnInv
  <2> QED BY <1>1, <2>1 DEF InTurn, Streams, stream, NeverContradicts, TextIsWhole
<1> QED BY <1>3, <1>4, <1>5 DEF TurnInv

LEMMA OtherTurnSteps ==
    ASSUME TurnInv, Begin \/ Shown \/ AbandonTurn \/ RenderEmpty
    PROVE  TurnInv'
<1>1. /\ chat \in [turns : Nat, coming : Nat] /\ late \in BOOLEAN /\ turns \in Nat /\ phase \in Phases
      /\ PageIsOwn /\ MaxTurn \in Nat /\ TurnTypes
  BY TurnAssumption DEF TurnInv, TurnTypes
<1>2. CASE Begin
  <2>1. TurnTypes'
    <3>1. turns' \in 0 .. MaxTurn /\ phase' \in Phases
      BY <1>1, <1>2 DEF Begin, Phases
    <3>2. gate' \in Gates /\ queue' \in Seq(Seq(Symbol)) /\ Len(queue') <= MaxQueue
      BY <1>2, NoTextIs, TurnAssumption DEF Begin
    <3>3. last' \in Texts /\ committed' \in Texts /\ emitted' \in Texts
          /\ streamed' \in Seq(Symbol) /\ text' \in Seq(Symbol)
      BY <1>2, NoTextIs DEF Begin
    <3> QED BY <1>1, <1>2, <3>1, <3>2, <3>3 DEF Begin, TurnTypes
  <2>2. PageIsOwn'
    BY <1>1, <1>2 DEF Begin, PageIsOwn, Fresh
  <2>3. Streams'
    BY <1>2, NothingEmitted DEF Begin
  <2>4. InTurn'
    BY <1>2, <2>3, NoTextIs DEF Begin, InTurn
  <2>5. NeverContradicts' /\ TextIsWhole'
    BY <1>2 DEF Begin, NeverContradicts, TextIsWhole
  <2> QED BY <2>1, <2>2, <2>4, <2>5 DEF TurnInv
<1>3. CASE Shown
  <2>1. chat' = [turns |-> chat.turns + 1, coming |-> chat.coming - 1] /\ chat.coming > 0
        /\ UNCHANGED <<phase, turns, late, stream>>
    BY <1>3 DEF Shown
  <2>2. TurnTypes'
    BY <1>1, <2>1 DEF TurnTypes, stream
  <2>3. PageIsOwn'
    <3>1. chat.coming \in Nat /\ chat.turns \in Nat
      BY <1>1
    <3>2. chat'.turns + chat'.coming = chat.turns + chat.coming /\ chat.coming # 0
      BY <2>1, <3>1
    <3>3. phase' = phase /\ turns' = turns /\ late' = late
      BY <2>1
    <3>4. ~late => phase \notin {"idle", "navigate", "ended", "stream"} \cup Fresh
      BY <1>1, <3>2 DEF PageIsOwn
    <3> QED BY <1>1, <3>2, <3>3, <3>4 DEF PageIsOwn
  <2> QED BY <2>1, <2>2, <2>3 DEF TurnInv, InTurn, Streams, stream, NeverContradicts, TextIsWhole
<1>4. CASE AbandonTurn
  <2>1. TurnTypes'
    BY <1>1, <1>4 DEF AbandonTurn, TurnTypes, Phases
  <2>2. PageIsOwn'
    <3>1. phase' = "idle" /\ chat' = chat /\ turns' = turns /\ late' = (late \/ chat.coming > 0)
      BY <1>4 DEF AbandonTurn
    <3>2. ~late' => chat.coming = 0
      <4>1. ~late' => ~(chat.coming > 0)
        BY <3>1, Zenon
      <4>2. chat.coming \in Nat
        BY <1>1
      <4> QED BY <4>1, <4>2
    <3>3. chat'.turns + chat'.coming <= turns'
      BY <1>1, <3>1 DEF PageIsOwn
    <3> QED BY <3>1, <3>2, <3>3 DEF PageIsOwn, Fresh
  <2> QED BY <1>4, <2>1, <2>2 DEF AbandonTurn, TurnInv, NeverContradicts, TextIsWhole
<1>5. CASE RenderEmpty
  <2>1. TurnTypes'
    BY <1>1, <1>5 DEF RenderEmpty, TurnTypes
  <2>2. PageIsOwn'
    BY <1>1, <1>5 DEF RenderEmpty, PageIsOwn
  <2>3. InTurn'
    BY <1>5 DEF RenderEmpty, TurnInv, InTurn, Streams
  <2> QED BY <1>5, <2>1, <2>2, <2>3 DEF RenderEmpty, TurnInv, InTurn, NeverContradicts, TextIsWhole
<1> QED BY <1>2, <1>3, <1>4, <1>5

LEMMA TurnStep == ASSUME TurnInv, [TurnNext]_tvars PROVE TurnInv'
<1>1. CASE UNCHANGED tvars
  BY <1>1 DEF tvars, TurnInv, TurnTypes, PageIsOwn, InTurn, Streams, NeverContradicts, TextIsWhole
<1> QED BY <1>1, BeforeHolds, OtherTurnSteps, RenderHolds, CompleteHolds, DeliverHolds, EndHolds
        DEF TurnNext

\* What the client is streamed is the answer of its own turn, for pages of any
\* length that are rewritten in any way.
LEMMA TurnHolds == ASSUME TurnInv PROVE TurnTypeOK /\ StreamIsAnswer
<1>1. chat.turns \in Nat /\ chat.coming \in Nat /\ turns \in 0 .. MaxTurn /\ MaxTurn \in Nat /\ PageIsOwn
  BY TurnAssumption DEF TurnInv, TurnTypes
<1>2. chat.turns \in 0 .. MaxTurn + 1 /\ chat.coming \in 0 .. MaxTurn
  BY <1>1 DEF PageIsOwn
<1>3. TurnTypeOK
  BY <1>2 DEF TurnInv, TurnTypes, TurnTypeOK, Gates
<1>4. OwnAnswer
  BY DEF TurnInv, PageIsOwn, OwnAnswer
<1> QED BY <1>3, <1>4 DEF TurnInv, StreamIsAnswer
=============================================================================
