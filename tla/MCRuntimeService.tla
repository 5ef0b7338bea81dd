-------------------------- MODULE MCRuntimeService --------------------------
(* Two workspaces and two callers: every overlap of two procedures.        *)
EXTENDS RuntimeService

CONSTANTS a, b, c1, c2
MCWorkspace == {a, b}
MCCaller == {c1, c2}
OnlyA == {a}
AllFaults == FaultKind
=============================================================================
