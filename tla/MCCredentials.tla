---------------------------- MODULE MCCredentials ----------------------------
(* Two administrator issues and two renewals race in two handlers.         *)
EXTENDS Credentials, TLC

Symmetry == Permutations(Issues) \cup Permutations(Renewals) \cup Permutations(Handlers)
=============================================================================
