--------------------------- MODULE MCTunnelRouting ---------------------------
(* Two installations at one gateway, two control connections, one browser. *)
(* The installations use up two generations between them: one each, or     *)
(* both the one the browser asks for, whose tunnel can then be fenced or   *)
(* displaced.                                                              *)
EXTENDS TunnelGateway

OwnHost == [i \in {"i1", "i2"} |-> IF i = "i1" THEN "h1" ELSE "h2"]
OneGateway == [c \in {"c1", "c2"} |-> "gA"]
OneSite == [b \in {"b1"} |-> "gA"]
AskForH1 == [b \in {"b1"} |-> "h1"]

TwoGenerations ==
  /\ generation'["i1"] + generation'["i2"] <= 6
  /\ generation'["i2"] <= 3
BoundedSpec == Init /\ [][Next /\ TwoGenerations]_vars
=============================================================================
