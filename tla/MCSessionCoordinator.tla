------------------------ MODULE MCSessionCoordinator ------------------------
EXTENDS SessionCoordinator, TLC

CONSTANTS s1, c1, c2

OneSession == {s1}
NoSessions == {}
MCCallers == {c1, c2}

\* Both callers may call everything.
Everything == [c \in MCCallers |-> Operations]
\* One caller gives turns, the other cancels them.
TurnsAndCancels == c1 :> {"task", "input", "compact"} @@ c2 :> {"cancel"}
TurnsAndCancel == c1 :> {"task", "input"} @@ c2 :> {"cancel"}

Quiet == {}
OneProcess == {"ask", "autocompact", "drain", "refuse", "gone", "timeout", "fast", "lag"}
Failing == {"crash", "gone", "timeout", "refuse", "drain", "lag", "start", "reconfigure"}

\* The invariants claim nothing once the guard of a turn is lost.
GuardsKept == "guard" \notin astray
=============================================================================
