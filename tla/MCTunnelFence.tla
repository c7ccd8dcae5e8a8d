---------------------------- MODULE MCTunnelFence ----------------------------
(* One installation that reconnects, rotates and moves between two         *)
(* gateways, with one control connection at each.                          *)
EXTENDS TunnelGateway

OwnHost == [i \in {"i1"} |-> "h1"]
TwoGateways == [c \in {"a1", "b1"} |-> IF c = "b1" THEN "gB" ELSE "gA"]
AtGatewayA == [b \in {"br"} |-> "gA"]
AskForH1 == [b \in {"br"} |-> "h1"]
=============================================================================
