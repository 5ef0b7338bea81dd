---------------------------- MODULE MCActivation ----------------------------
(* Two workspaces and one unit of work at a time; a run chooses which kinds*)
(* of failure happen, whether a workspace may be deleted and whether the   *)
(* application starts one when it launches.                                *)
EXTENDS WorkspaceActivation

CONSTANTS a, b, g1
MCWorkspace == {a, b}
MCGuard == {g1}
MCObserved == {0}
MCCaller == {"activation", "boot"}
OnlyA == {a}
OnlyB == {b}
NoFaults == {}
ServiceFaults == {"os", "bind", "routes", "tunnel", "detach", "foreign"}
ListenerFaults == {"bind", "listener"}
SaveFault == {"save"}
AllCallFaults == {"probe", "save"}
=============================================================================
