----------------------------- MODULE MCServices -----------------------------
(***************************************************************************)
(* Services on a small instance; its state space is the sum of those of    *)
(* the components.                                                         *)
(*                                                                         *)
(*   exec      one session, two calls beside its monitor                   *)
(*   frpc      one instance, three process ids                             *)
(*   software  two installations, of frpc and of cloudflared               *)
(*   tunnels   one workspace, two subdomains, one command at a time beside *)
(*             the status refreshes and the health loop                    *)
(***************************************************************************)
EXTENDS Services

CONSTANTS a, i1, j1, j2, k1, k2, p1, p2, p3, q1, s1, s2, x

MCSession == {x}
MCClient == {k1, k2}
MCInstance == {i1}
MCPid == {p1, p2, p3}
MCWorkspace == {a}
MCSubdomain == {s1, s2}
MCCaller == {q1}
MCInstaller == {j1, j2}
MCChoices == [w \in {a} |-> {s1, s2, "Invalid", "Cloudflare", "Off"}]
=============================================================================
