------------------------------ MODULE WorkGate ------------------------------
(***************************************************************************)
(* What the rest of the program relies on when it drains a workspace       *)
(* before stopping, restarting or leaving it: a gate per workspace.  Work  *)
(* enters only through an open gate, leaves at any time, and a workspace   *)
(* is handed to the caller ("granted") only when no work is inside and     *)
(* stays empty until the gate is opened again.                             *)
(***************************************************************************)
CONSTANTS Workspace,   \* workspace ids
          Guard        \* identities of the units of work

VARIABLES open,      \* the workspaces whose gate is open
          inside,    \* [Workspace -> SUBSET Guard]: the work in progress
          granted    \* the workspaces handed over as quiescent

vars == <<open, inside, granted>>

Init == /\ open = Workspace
        /\ inside = [w \in Workspace |-> {}]
        /\ granted = {}

Busy == UNION {inside[w] : w \in Workspace}

Enter(g, w) == /\ w \in open
               /\ g \notin Busy
               /\ inside' = [inside EXCEPT ![w] = @ \cup {g}]
               /\ UNCHANGED <<open, granted>>

Leave(g, w) == /\ g \in inside[w]
               /\ inside' = [inside EXCEPT ![w] = @ \ {g}]
               /\ UNCHANGED <<open, granted>>

Close(w) == /\ open = Workspace          \* one drain at a time
            /\ open' = open \ {w}
            /\ UNCHANGED <<inside, granted>>

Grant(w) == /\ w \notin open
            /\ inside[w] = {}
            /\ granted' = granted \cup {w}
            /\ UNCHANGED <<open, inside>>

Open(w) == /\ w \notin open
           /\ open' = open \cup {w}
           /\ granted' = granted \ {w}
           /\ UNCHANGED inside

Next == \E w \in Workspace :
           \/ \E g \in Guard : Enter(g, w) \/ Leave(g, w)
           \/ Close(w)
           \/ Grant(w)
           \/ Open(w)

Spec == Init /\ [][Next]_vars
=============================================================================
