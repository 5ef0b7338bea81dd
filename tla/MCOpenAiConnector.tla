------------------------- MODULE MCOpenAiConnector -------------------------
(* Two workspaces that compete for two ports and a subdomain, beside one   *)
(* caller of the connector.                                                *)
EXTENDS OpenAiConnector

CONSTANTS a, b, x, c1, c2
MCWorkspace == {a, b}
MCPort == 1 .. 2
MCSubdomain == {x}
OneCaller == {c1}
TwoCallers == {c1, c2}
NoWorkspace == {}
NoFaults == {}
AllFaults == {"save", "crash"}
=============================================================================
