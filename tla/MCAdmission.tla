----------------------------- MODULE MCAdmission -----------------------------
(* Clients, handlers and operation ids are interchangeable.                *)
EXTENDS Admission, TLC

OnePlacement == [h \in Handlers |-> "siteA"]
Symmetric == Permutations(Clients) \cup Permutations(Handlers) \cup Permutations(Operations)
=============================================================================
