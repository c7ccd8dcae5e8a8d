-------------------------------- MODULE MCDns --------------------------------
(* The instances of DnsReconcile. Serving workers s..., challenge workers  *)
(* c...; one challenge worker belongs to the second site. Behaviours start *)
(* at an unallocated installation or at one that is ready and settled with *)
(* an empty outbox (its completed jobs forgotten), so that few outbox rows *)
(* reach enrolment, challenges, moves and retirement.                      *)
EXTENDS DnsReconcile, TLC

SitePlacement == [w \in Workers |-> IF w = "cB" THEN "siteB" ELSE "siteA"]
SiteScope == [w \in Workers |-> IF w \in {"s1", "s2"} THEN "serving" ELSE "challenge"]
ValueSymmetry == Permutations(Values)

Settled ==
  /\ state = "dns_ready"
  /\ placement \in Placements
  /\ uri \in Uris
  /\ name = NameRecords(placement, uri)
  /\ kind = [j \in Jobs |-> "none"]
  /\ status = [j \in Jobs |-> "none"]
  /\ lock = Nobody
  /\ values = [v \in Values |-> "absent"]
  /\ revision = 0
  /\ ready = 0
  /\ txt = {}
  /\ pc = [w \in Workers |-> "idle"]
  /\ job = [w \in Workers |-> 0]
  /\ plan = [w \in Workers |-> {}]
  /\ planRev = [w \in Workers |-> 0]
  /\ listed = [w \in Workers |-> {}]

SafeSpec == (Init \/ Settled) /\ [][Next]_vars
LiveSpec == SafeSpec /\ Fairness
=============================================================================
