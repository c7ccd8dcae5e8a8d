------------------------- MODULE CredentialRegister -------------------------
(***************************************************************************)
(* What the scoped credentials of an installation promise: one register    *)
(* that holds the one good credential. An issue overwrites it, a renewal   *)
(* is a compare-and-swap that names the credential it replaces, and every  *)
(* operation takes effect at most once, in one step, however often and     *)
(* through however many handlers it is tried.                              *)
(***************************************************************************)
CONSTANTS Issues, Renewals

VARIABLES
  good,      \* the credential that is not revoked: none or one
  alive,     \* it is unexpired or within its grace
  applied,   \* the operations that have taken effect
  replaced,  \* what each renewal says it replaced
  open       \* the installation is not retired

register == <<good, alive, applied, replaced, open>>

Init ==
  /\ good = {}
  /\ alive = FALSE
  /\ applied = {}
  /\ replaced = [o \in Renewals |-> {}]
  /\ open = TRUE

Write(o) ==
  /\ open
  /\ o \notin applied
  /\ good' = {o}
  /\ alive' = TRUE
  /\ applied' = applied \cup {o}
  /\ UNCHANGED open

Issue(o) == Write(o) /\ UNCHANGED replaced

Renew(o) ==
  /\ alive
  /\ Write(o)
  /\ replaced' = [replaced EXCEPT ![o] = good]

Die ==
  /\ alive
  /\ alive' = FALSE
  /\ UNCHANGED <<good, applied, replaced, open>>

Retire ==
  /\ open
  /\ open' = FALSE
  /\ UNCHANGED <<good, alive, applied, replaced>>

Next ==
  \/ \E o \in Issues : Issue(o)
  \/ \E o \in Renewals : Renew(o)
  \/ Die \/ Retire

Spec == Init /\ [][Next]_register
=============================================================================
