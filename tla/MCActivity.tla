----------------------------- MODULE MCActivity -----------------------------
(* Two workspaces and three guards: two of one kind and one of another, on *)
(* the same or on different workspaces, alive across drains of both.       *)
EXTENDS Activity, TLC

CONSTANTS a, b, g1, g2, g3

MCWorkspace == {a, b}
MCGuard == {g1, g2, g3}
MCObserved == {0, 1}

Symmetry == Permutations(MCWorkspace) \cup Permutations(MCGuard)
=============================================================================
