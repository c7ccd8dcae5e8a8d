----------------------------- MODULE MCWitness -----------------------------
(* A host and its replacement share the S3 object; the old host's service  *)
(* has a request task and the periodic checker, the new one a request task. *)
EXTENDS RestoreWitness

TwoHosts == [p \in {"old", "new"} |-> IF p = "old" THEN "h1" ELSE "h2"]
TwoProcs == [t \in {"r1", "r2", "chk"} |-> IF t = "r2" THEN "new" ELSE "old"]
BootTask == [p \in {"old", "new"} |-> IF p = "old" THEN "r1" ELSE "r2"]
=============================================================================
