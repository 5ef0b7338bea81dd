------------------------------ MODULE Services ------------------------------
(***************************************************************************)
(* Four components of the desktop's services that share no state, as one   *)
(* system: `part` says which of them a behaviour is about, the others keep *)
(* their initial states.  A component's properties hold trivially where    *)
(* another one runs.                                                       *)
(***************************************************************************)
EXTENDS ExecSessions, FrpClient

CONSTANTS Workspace, Subdomain, Invalid, Cloudflare, Off, NoConfig, Caller, NoWs,
          Choices,                                     \* see TunnelSupervisor
          Installer                                    \* see TunnelSoftware

\* The marks of TunnelSupervisor are none of the things they stand beside.
ASSUME TunnelAssumption ==
    /\ {Invalid, Cloudflare, Off} \cap Subdomain = {}
    /\ Invalid # Cloudflare /\ Invalid # Off /\ Cloudflare # Off
    /\ NoConfig \notin Subdomain \cup {Invalid, Cloudflare, Off}
    /\ {"none", "dead"} \cap Subdomain = {}

VARIABLES part,
          bin, archive, marker, system, job,             \* TunnelSoftware
          saved, served, line, suspect, cool, cmd        \* TunnelSupervisor

S == INSTANCE TunnelSoftware
T == INSTANCE TunnelSupervisor

softwareVars == <<bin, archive, marker, system, job>>
tunnelVars == <<saved, served, line, suspect, cool, cmd>>
servicesVars == <<part, vars, frpVars, softwareVars, tunnelVars>>

ServicesInit ==
    /\ part \in {"exec", "frpc", "software", "tunnels"}
    /\ Init /\ FrpInit /\ S!Init /\ T!Init

ServicesNext ==
    /\ part' = part
    /\ IF part = "exec" THEN Next ELSE UNCHANGED vars
    /\ IF part = "frpc" THEN FrpNext ELSE UNCHANGED frpVars
    /\ IF part = "software" THEN S!Next ELSE UNCHANGED softwareVars
    /\ IF part = "tunnels" THEN T!Next ELSE UNCHANGED tunnelVars

\* The fairness of a component is met where it keeps its initial state: none
\* of the steps it speaks of can be taken there.
ServicesSpec ==
    /\ ServicesInit /\ [][ServicesNext]_servicesVars
    /\ Fairness /\ FrpFairness /\ T!Fairness

-----------------------------------------------------------------------------
\* The state of every component is of its type.
TypesOK == TypeOK /\ FrpTypeOK /\ S!TypeOK /\ T!TypeOK

\* The properties of the two tunnel modules; stated and explained there.
OkMeansWhole == S!OkMeansWhole
AnswersAreTrue == T!AnswersAreTrue

\* What has begun ends, and what has died is noticed: a command and its
\* session, a later call of a client, an operation on the frpc process, a
\* tunnel process that is over.
EverythingEnds == NothingLingers /\ ClientReturns /\ OperationEnds /\ T!DeadIsNoticed
=============================================================================
