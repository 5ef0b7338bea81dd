------------------------------ MODULE OAuthFlow ------------------------------
(***************************************************************************)
(* How a client obtains the tokens it calls the MCP server with            *)
(* (auth/oauth_flow.rs, auth/oauth.rs): it registers, sends its user to    *)
(* the authorization page, and exchanges the code the page redirects with. *)
(* Requests run at the same time; the table of pending codes is behind a   *)
(* mutex, and the runtime - the secret and that table - is replaced when   *)
(* the service restarts.  The address of the server is read off each       *)
(* request, and a quick tunnel changes it.                                 *)
(*                                                                         *)
(* A login is its code challenge: `v` is the login whose verifier is       *)
(* presented, None for any other verifier.  Tokens and client ids are      *)
(* signed, so their contents stand.                                        *)
(***************************************************************************)
EXTENDS Naturals, Sequences, FiniteSets

CONSTANTS Login,      \* the attempts of users to authorize a client
          Client,     \* what client ids stand for
          BuiltIn,    \* the one of the settings; the others register
          Address,    \* the addresses the server may be reached by
          Request,    \* the token requests that may be in progress at once
          MaxSecret,  \* bound: how often the secrets are replaced
          None

\* There is an address to start with, and a bound on the restarts.
OAuthBounds == Address # {} /\ MaxSecret \in Nat

ASSUME OAuthAssumption == OAuthBounds

VARIABLES url,        \* the address the server is reached by now
          secret,     \* the runtime: which generation of secrets it has
          registered, \* the client ids given out, and under which secret
          login,      \* [Login -> what its browser shows, and its code]
          expired,    \* the codes older than five minutes
          request,    \* [Request -> what token_exchange works on]
          tokens,     \* the tokens given out and not past their time
          granted     \* [Login -> whom its code was exchanged for, in order]

oauthVars == <<url, secret, registered, login, expired, request, tokens, granted>>

Secrets == 0 .. MaxSecret

\* The code of a login is pending while `pending`; it was approved for
\* `client` at the address `at`, under the runtime `under`.
Logins == [pc : {"start", "page", "redirected"}, client : Client \cup {None},
           at : Address \cup {None}, under : Secrets, pending : BOOLEAN]
NoLogin == [pc |-> "start", client |-> None, at |-> None, under |-> 0, pending |-> FALSE]

Requests == [pc : {"idle", "take", "check"}, code : Login \cup {None},
             client : Client \cup {None}, v : Login \cup {None},
             at : Address \cup {None}, under : Secrets]
NoRequest == [pc |-> "idle", code |-> None, client |-> None, v |-> None,
              at |-> None, under |-> 0]

\* TokenClaims: issuer and audience are the same address.
Tokens == [kind : {"access", "refresh"}, at : Address, under : Secrets]

OAuthInit ==
    /\ url = CHOOSE a \in Address : TRUE
    /\ secret = 0
    /\ registered = {}
    /\ login = [l \in Login |-> NoLogin]
    /\ expired = {}
    /\ request = [r \in Request |-> NoRequest]
    /\ tokens = {}
    /\ granted = [l \in Login |-> <<>>]

-----------------------------------------------------------------------------
\* client_id_allowed, decode_registered_client
Allowed(c) == c = BuiltIn \/ [client |-> c, under |-> secret] \in registered

\* normalize_resource: the resource a request names, or the address if it
\* names none, is the address the request came by; anything else is refused.
Resource(named) == IF named = None \/ named = url THEN url ELSE None

Pair(a, s) == {[kind |-> "access", at |-> a, under |-> s],
               [kind |-> "refresh", at |-> a, under |-> s]}

\* verify_token_kind: the signature, the address and the kind.
Accepts(t, kind) == t.kind = kind /\ t.at = url /\ t.under = secret

\* register_client; redirect_uri_allowed then knows its addresses.
Register(c) ==
    /\ c # BuiltIn
    /\ registered' = registered \cup {[client |-> c, under |-> secret]}
    /\ UNCHANGED <<url, secret, login, expired, request, tokens, granted>>

\* authorization_page: a form that carries what was asked for.
LoginPage(c) == [pc |-> "page", client |-> c, at |-> url, under |-> 0, pending |-> FALSE]

\* authorize_get
AuthorizeGet(l, c) ==
    /\ login[l].pc = "start" /\ Allowed(c)
    /\ login' = [login EXCEPT ![l] = LoginPage(c)]
    /\ UNCHANGED <<url, secret, registered, expired, request, tokens, granted>>

\* authorize_post validates all of it again, at the address it came by now;
\* what it refuses shows the page again.  A new code is put beside the codes
\* that have not expired.
AuthorizePost(l) ==
    /\ login[l].pc = "page" /\ Allowed(login[l].client)
    /\ Resource(login[l].at) # None
    /\ login' = [k \in Login |->
                   IF k = l THEN [login[l] EXCEPT !.pc = "redirected", !.under = secret,
                                                  !.pending = TRUE]
                   ELSE [login[k] EXCEPT !.pending = @ /\ k \notin expired]]
    /\ UNCHANGED <<url, secret, registered, expired, request, tokens, granted>>

CodeExpires(l) ==
    /\ login[l].pc = "redirected" /\ l \notin expired
    /\ expired' = expired \cup {l}
    /\ UNCHANGED <<url, secret, registered, login, request, tokens, granted>>

\* token_exchange, up to the table: the code of l, with the verifier of v.
BeginExchange(r, l, c, v) ==
    /\ request[r].pc = "idle" /\ login[l].pc = "redirected"
    /\ Allowed(c)
    /\ request' = [request EXCEPT ![r] = [pc |-> "take", code |-> l, client |-> c,
                                          v |-> v, at |-> url, under |-> secret]]
    /\ UNCHANGED <<url, secret, registered, login, expired, tokens, granted>>

IsPending(r) == LET l == request[r].code
                IN  login[l].pending /\ login[l].under = request[r].under

\* Mutant of TakeCode: the code is looked up, and taken when it was used.
TakeCodeLater(r) ==
    /\ request[r].pc = "take"
    /\ request' = [request EXCEPT ![r] = IF IsPending(r) THEN [@ EXCEPT !.pc = "check"]
                                                         ELSE NoRequest]
    /\ UNCHANGED <<url, secret, registered, login, expired, tokens, granted>>

\* The code leaves the table before anything of it is checked.
TakeCode(r) ==
    /\ request[r].pc = "take"
    /\ request' = [request EXCEPT ![r] = IF IsPending(r) THEN [@ EXCEPT !.pc = "check"]
                                                         ELSE NoRequest]
    /\ login' = IF IsPending(r) THEN [login EXCEPT ![request[r].code].pending = FALSE]
                                ELSE login
    /\ UNCHANGED <<url, secret, registered, expired, tokens, granted>>

\* Mutants of Valid: the resource, or the verifier, is not compared.
ValidAnywhere(r) == LET q == request[r] IN
    /\ q.code \notin expired
    /\ login[q.code].client = q.client
    /\ q.v = q.code
ValidUnproved(r) == LET q == request[r] IN
    /\ q.code \notin expired
    /\ login[q.code].client = q.client
    /\ login[q.code].at = q.at

\* What the code was given out for must be what is asked for now.
Valid(r) == LET q == request[r] IN
    /\ q.code \notin expired
    /\ login[q.code].client = q.client
    /\ login[q.code].at = q.at
    /\ q.v = q.code

Exchange(r) ==
    /\ request[r].pc = "check"
    /\ LET q == request[r]
       IN  IF Valid(r)
           THEN /\ tokens' = tokens \cup Pair(login[q.code].at, q.under)
                /\ granted' = [granted EXCEPT ![q.code] =
                                 Append(@, [client |-> q.client, v |-> q.v])]
           ELSE UNCHANGED <<tokens, granted>>
    /\ request' = [request EXCEPT ![r] = NoRequest]
    /\ UNCHANGED <<url, secret, registered, login, expired>>

\* A refresh token is good for any number of pairs; it is not rotated.
Refresh(c, t) ==
    /\ Allowed(c) /\ Accepts(t, "refresh")
    /\ tokens' = tokens \cup Pair(url, secret)
    /\ UNCHANGED <<url, secret, registered, login, expired, request, granted>>

TokenExpires(t) ==
    /\ t \in tokens
    /\ tokens' = tokens \ {t}
    /\ UNCHANGED <<url, secret, registered, login, expired, request, granted>>

\* The quick tunnel reconnects.
Move(a) ==
    /\ url' = a
    /\ UNCHANGED <<secret, registered, login, expired, request, tokens, granted>>

\* The user replaces the secrets, and the service restarts: a new runtime
\* without pending codes.  Requests under way finish with the old one.
Restart ==
    /\ secret < MaxSecret
    /\ secret' = secret + 1
    /\ UNCHANGED <<url, registered, login, expired, request, tokens, granted>>

\* The browser goes back to the client's page.
Abandon(l) ==
    /\ login[l].pc = "page"
    /\ login' = [login EXCEPT ![l] = NoLogin]
    /\ UNCHANGED <<url, secret, registered, expired, request, tokens, granted>>

OAuthNext ==
    \/ \E c \in Client : Register(c) \/ \E t \in tokens : Refresh(c, t)
    \/ \E l \in Login : \/ \E c \in Client : AuthorizeGet(l, c)
                        \/ AuthorizePost(l) \/ CodeExpires(l) \/ Abandon(l)
    \/ \E r \in Request :
         \/ \E l \in Login, v \in Login \cup {None}, c \in Client : BeginExchange(r, l, c, v)
         \/ TakeCode(r) \/ Exchange(r)
    \/ \E t \in tokens : TokenExpires(t)
    \/ \E a \in Address : Move(a)
    \/ Restart

OAuthSpec == OAuthInit /\ [][OAuthNext]_oauthVars

-----------------------------------------------------------------------------
OAuthTypeOK ==
    /\ url \in Address
    /\ secret \in Secrets
    /\ registered \subseteq [client : Client, under : Secrets]
    /\ login \in [Login -> Logins]
    /\ expired \subseteq Login
    /\ request \in [Request -> Requests]
    /\ tokens \subseteq Tokens
    /\ granted \in [Login -> Seq([client : Client, v : Login \cup {None}])]

\* One approval of the user is worth one pair of tokens, however many token
\* requests present its code at the same time.
CodeOnce == \A l \in Login : Len(granted[l]) <= 1

\* The pair goes to the client the user approved, from the login that asked:
\* a request of another client, or one that did not begin the login, gets
\* nothing for the code.
GrantMatchesApproval ==
    \A l \in Login : \A i \in DOMAIN granted[l] :
        granted[l][i] = [client |-> login[l].client, v |-> l]

\* Tokens work at the address the request that got them came by, also when
\* the address changed between the approval and the exchange, or between the
\* steps of the exchange.
IssuedIsUsable ==
    [][\A r \in Request : \A t \in tokens' \ tokens :
         (request[r].pc = "check" /\ request'[r].pc = "idle")
             => t.at = request[r].at]_oauthVars

\* What an exchange gives out is what was approved: once for a code, to the
\* client and the login it was approved for, good at the address that asked.
GrantsAreSound == [](CodeOnce /\ GrantMatchesApproval) /\ IssuedIsUsable
=============================================================================
