----------------------------- MODULE Credentials -----------------------------
(***************************************************************************)
(* Scoped bearer credentials of one installation: issue_bearer and         *)
(* renew_bearer of the store, the control API handlers that call them, and *)
(* the administrator and the Broker that retry them over a network that    *)
(* loses answers (bloom-relay-store, bloom-relay-control,                  *)
(* bloom-relay-client). The scope is "tunnel", the one that also owns a    *)
(* lease; the other scope's credentials are separate rows.                 *)
(*                                                                         *)
(* A handler looks the operation id up, and later, when it gets the        *)
(* installation row, applies the request: another handler may commit in    *)
(* between, the same request's earlier attempt included. Everything from   *)
(* the row lock to the commit is one step.                                 *)
(***************************************************************************)
EXTENDS Naturals, FiniteSets

CONSTANTS
  Issues,        \* operation ids of administrator issues
  Renewals,      \* operation ids of Broker renewals
  NoOp,          \* no operation
  Handlers,      \* API handler tasks
  Nobody,        \* no handler
  MaxGeneration  \* bound: generations of the installation

ASSUME CredentialsAssumption ==
  /\ Issues \cap Renewals = {}
  /\ NoOp \notin Issues \cup Renewals
  /\ Nobody \notin Handlers
  /\ MaxGeneration \in Nat \ {0}

Ops == Issues \cup Renewals
Generations == 1 .. MaxGeneration

VARIABLES
  state,       \* installations.state
  generation,  \* installations.generation
  creds,       \* scoped_bearer_credentials, by generation
  ops,         \* operations, by operation_id
  lease,       \* tunnel_leases: the generation of the row, 0 for none
  pc,          \* where each handler is
  req,         \* the request each handler serves
  result,      \* the generation each handler is to answer with
  broker,      \* the Broker's files and its pending call
  admin        \* the administrator's pending operation and call

database == <<state, generation, creds, ops, lease>>
handler  == <<pc, req, result>>
clients  == <<broker, admin>>
vars == <<database, handler, clients>>

(* A token is random and new for each operation, so the operation that     *)
(* introduced it names it. A request that is not there has op = NoOp.      *)
NoCred == [token |-> NoOp, revoked |-> FALSE, age |-> "valid"]
NoReq  == [op |-> NoOp, generation |-> 0, token |-> NoOp]
NoRow  == [request |-> NoReq, result |-> 0, fresh |-> FALSE]

Exists(g) == creds[g].token # NoOp
Newest(g) == Exists(g) /\ \A n \in Generations : n > g => ~Exists(n)

-----------------------------------------------------------------------------
(***************************************************************************)
(* The store.                                                              *)
(***************************************************************************)
(* Slip: a renewal needs a known token, current or superseded.             *)
MutMayRenew(r) ==
  /\ state = "dns_ready"
  /\ r.generation \in Generations
  /\ creds[r.generation].age # "dead"
  /\ creds[r.generation].token = r.token

(* Only the newest unrevoked credential, unexpired or within the grace.    *)
MayRenew(r) ==
  /\ state = "dns_ready"
  /\ r.generation \in Generations
  /\ Newest(r.generation)
  /\ ~creds[r.generation].revoked
  /\ creds[r.generation].age # "dead"
  /\ creds[r.generation].token = r.token

(* Slip: the old lease is left to expire.                                  *)
MutRotate(r, revoked) ==
  LET g == generation + 1 IN
  /\ generation < MaxGeneration
  /\ generation' = g
  /\ creds' = [n \in Generations |->
                 IF n = g THEN [NoCred EXCEPT !.token = r.op]
                 ELSE IF n \in revoked THEN [creds[n] EXCEPT !.revoked = TRUE]
                 ELSE creds[n]]
  /\ ops' = [ops EXCEPT ![r.op] = [request |-> r, result |-> g, fresh |-> TRUE]]
  /\ UNCHANGED <<state, lease>>

(* The inserts both end with: the credential of the next generation, the   *)
(* lease deleted, the operation row.                                       *)
Rotate(r, revoked) ==
  LET g == generation + 1 IN
  /\ generation < MaxGeneration
  /\ generation' = g
  /\ creds' = [n \in Generations |->
                 IF n = g THEN [NoCred EXCEPT !.token = r.op]
                 ELSE IF n \in revoked THEN [creds[n] EXCEPT !.revoked = TRUE]
                 ELSE creds[n]]
  /\ lease' = 0
  /\ ops' = [ops EXCEPT ![r.op] = [request |-> r, result |-> g, fresh |-> TRUE]]
  /\ UNCHANGED state

mark_dns_ready ==
  /\ state = "pending_dns"
  /\ state' = "dns_ready"
  /\ UNCHANGED <<generation, creds, ops, lease, handler, clients>>

(* A gateway claims the tunnel. It authenticated a bearer in an earlier    *)
(* transaction, which may have expired or been replaced since: claiming    *)
(* looks at the installation alone.                                        *)
claim_tunnel ==
  /\ state = "dns_ready"
  /\ generation < MaxGeneration
  /\ \E g \in Generations : Exists(g)
  /\ generation' = generation + 1
  /\ lease' = generation + 1
  /\ UNCHANGED <<state, creds, ops, handler, clients>>

retire ==
  /\ state # "retired"
  /\ generation < MaxGeneration
  /\ state' = "retired"
  /\ generation' = generation + 1
  /\ lease' = 0
  /\ UNCHANGED <<creds, ops, handler, clients>>

(* Time passes: five minutes since a renewal; a credential's expiry, which *)
(* is hours after a renewal; the end of its grace.                         *)
operation_ages(o) ==
  /\ ops[o].fresh
  /\ ops' = [ops EXCEPT ![o].fresh = FALSE]
  /\ UNCHANGED <<state, generation, creds, lease, handler, clients>>

credential_ages(g) ==
  /\ Exists(g)
  /\ creds[g].age # "dead"
  /\ creds[g].token \in Renewals => ~ops[creds[g].token].fresh
  /\ creds' = [creds EXCEPT ![g].age = IF @ = "valid" THEN "grace" ELSE "dead"]
  /\ UNCHANGED <<state, generation, ops, lease, handler, clients>>

-----------------------------------------------------------------------------
(***************************************************************************)
(* Handlers: issue_credential and renew_credential.                        *)
(***************************************************************************)

(* The caller that still waits for handler h hears of a failure.           *)
Answer(h) ==
  /\ broker' = IF broker.wait = h
               THEN [broker EXCEPT !.wait = Nobody]
               ELSE broker
  /\ admin' = IF admin.wait = h THEN [admin EXCEPT !.wait = Nobody] ELSE admin

Done(h) ==
  /\ pc' = [pc EXCEPT ![h] = "free"]
  /\ req' = [req EXCEPT ![h] = NoReq]
  /\ result' = [result EXCEPT ![h] = 0]

(* SELECT ... FROM operations WHERE operation_id=$1. A known operation is  *)
(* answered from its row; a renewal's row only for five minutes.           *)
lookup_operation(h) ==
  LET row == ops[req[h].op]
      same == row.request = req[h] /\ (req[h].op \in Renewals => row.fresh)
  IN
  /\ pc[h] = "arrived"
  /\ \/ /\ row = NoRow
        /\ pc' = [pc EXCEPT ![h] = "unknown"]
        /\ UNCHANGED <<req, result, clients>>
     \/ /\ row # NoRow /\ same
        /\ pc' = [pc EXCEPT ![h] = "acknowledge"]
        /\ result' = [result EXCEPT ![h] = row.result]
        /\ UNCHANGED <<req, clients>>
     \/ /\ row # NoRow /\ ~same
        /\ Answer(h)
        /\ Done(h)
  /\ UNCHANGED database

(* Slip: an operation row that turns up meanwhile is overwritten.          *)
MutIssue(h) ==
  /\ pc[h] = "unknown"
  /\ req[h].op \in Issues
  /\ state # "retired"
  /\ Rotate(req[h], {g \in Generations : Exists(g)})
  /\ pc' = [pc EXCEPT ![h] = "acknowledge"]
  /\ result' = [result EXCEPT ![h] = generation + 1]
  /\ UNCHANGED <<req, clients>>

(* Slip: an issue leaves the credentials it replaces unrevoked.            *)
MutIssueKeeps(h) ==
  /\ pc[h] = "unknown"
  /\ req[h].op \in Issues
  /\ state # "retired"
  /\ ops[req[h].op] = NoRow
  /\ Rotate(req[h], {})
  /\ pc' = [pc EXCEPT ![h] = "acknowledge"]
  /\ result' = [result EXCEPT ![h] = generation + 1]
  /\ UNCHANGED <<req, clients>>

(* issue_bearer with the installation row: every unrevoked credential of   *)
(* the scope is revoked. The operation row's primary key makes a second    *)
(* application of the same operation fail as a whole.                      *)
issue_bearer(h) ==
  /\ pc[h] = "unknown"
  /\ req[h].op \in Issues
  /\ \/ /\ state # "retired"
        /\ ops[req[h].op] = NoRow
        /\ Rotate(req[h], {g \in Generations : Exists(g)})
        /\ pc' = [pc EXCEPT ![h] = "acknowledge"]
        /\ result' = [result EXCEPT ![h] = generation + 1]
        /\ UNCHANGED <<req, clients>>
     \/ /\ state = "retired" \/ ops[req[h].op] # NoRow
        /\ Answer(h)
        /\ Done(h)
        /\ UNCHANGED database

(* renew_bearer with the installation row.                                 *)
renew_bearer(h) ==
  /\ pc[h] = "unknown"
  /\ req[h].op \in Renewals
  /\ \/ /\ MayRenew(req[h])
        /\ Rotate(req[h], {req[h].generation})
        /\ pc' = [pc EXCEPT ![h] = "acknowledge"]
        /\ result' = [result EXCEPT ![h] = generation + 1]
        /\ UNCHANGED <<req, clients>>
     \/ /\ ~MayRenew(req[h])
        /\ Answer(h)
        /\ Done(h)
        /\ UNCHANGED database

(* Store::acknowledge passed the restore witness: the receipt goes out.    *)
acknowledge(h) ==
  /\ pc[h] = "acknowledge"
  /\ broker' = IF h \in {broker.wait, admin.wait}
               THEN [generation |-> result[h], token |-> req[h].op,
                     staged |-> NoOp, wait |-> Nobody]
               ELSE broker
  /\ admin' = IF admin.wait = h
              THEN [admin EXCEPT !.wait = Nobody, !.op = NoOp]
              ELSE admin
  /\ Done(h)
  /\ UNCHANGED database

(* A connection, the database or the witness fails, or the process dies:   *)
(* what was committed stays, the caller learns nothing.                    *)
handler_fails(h) ==
  /\ pc[h] # "free"
  /\ Answer(h)
  /\ Done(h)
  /\ UNCHANGED database

-----------------------------------------------------------------------------
(***************************************************************************)
(* The callers. The Broker stages a token and an operation id before it    *)
(* calls, retries those same values, and replaces its credential with the  *)
(* receipt. The administrator retries an operation until it has its        *)
(* receipt and then provisions the Broker with the token.                  *)
(***************************************************************************)
Send(h, r) ==
  /\ pc[h] = "free"
  /\ pc' = [pc EXCEPT ![h] = "arrived"]
  /\ req' = [req EXCEPT ![h] = r]
  /\ UNCHANGED result

stage_renewal(o) ==
  /\ broker.token # NoOp
  /\ broker.staged = NoOp
  /\ broker.token # o /\ ops[o] = NoRow
  /\ \A h \in Handlers : req[h].op # o
  /\ broker' = [broker EXCEPT !.staged = o]
  /\ UNCHANGED <<database, handler, admin>>

renew_scoped_credential(h) ==
  /\ broker.staged # NoOp
  /\ broker.wait = Nobody
  /\ Send(h, [op |-> broker.staged, generation |-> broker.generation, token |-> broker.token])
  /\ broker' = [broker EXCEPT !.wait = h]
  /\ UNCHANGED <<database, admin>>

(* The 10 s deadline of a call: its handler may still be at work.          *)
call_times_out ==
  /\ \/ /\ broker.wait # Nobody
        /\ broker' = [broker EXCEPT !.wait = Nobody]
        /\ UNCHANGED admin
     \/ /\ admin.wait # Nobody
        /\ admin' = [admin EXCEPT !.wait = Nobody]
        /\ UNCHANGED broker
  /\ UNCHANGED <<database, handler>>

issue_credential(h, o) ==
  /\ admin.wait = Nobody
  /\ \/ admin.op = o
     \/ admin.op = NoOp /\ ops[o] = NoRow /\ \A k \in Handlers : req[k].op # o
  /\ Send(h, [NoReq EXCEPT !.op = o])
  /\ admin' = [op |-> o, wait |-> h]
  /\ UNCHANGED <<database, broker>>

-----------------------------------------------------------------------------
Init ==
  /\ state = "pending_dns"
  /\ generation = 1
  /\ creds = [g \in Generations |-> NoCred]
  /\ ops = [o \in Ops |-> NoRow]
  /\ lease = 0
  /\ pc = [h \in Handlers |-> "free"]
  /\ req = [h \in Handlers |-> NoReq]
  /\ result = [h \in Handlers |-> 0]
  /\ broker = [generation |-> 0, token |-> NoOp, staged |-> NoOp, wait |-> Nobody]
  /\ admin = [op |-> NoOp, wait |-> Nobody]

Next ==
  \/ mark_dns_ready \/ claim_tunnel \/ retire \/ call_times_out
  \/ \E o \in Renewals : operation_ages(o)
  \/ \E g \in Generations : credential_ages(g)
  \/ \E o \in Renewals : stage_renewal(o)
  \/ \E h \in Handlers :
       \/ lookup_operation(h)
       \/ issue_bearer(h)
       \/ renew_bearer(h)
       \/ acknowledge(h)
       \/ handler_fails(h)
       \/ renew_scoped_credential(h)
       \/ \E o \in Issues : issue_credential(h, o)

Spec == Init /\ [][Next]_vars

-----------------------------------------------------------------------------
(***************************************************************************)
(* Properties.                                                             *)
(***************************************************************************)
Credential == [token : Ops \cup {NoOp}, revoked : BOOLEAN, age : {"valid", "grace", "dead"}]
Request == [op : Ops \cup {NoOp}, generation : 0 .. MaxGeneration, token : Ops \cup {NoOp}]
Operation == [request : Request, result : 0 .. MaxGeneration, fresh : BOOLEAN]

(* Every variable keeps the shape its table, file or task gives it.        *)
TypeOK ==
  /\ state \in {"pending_dns", "dns_ready", "retired"}
  /\ generation \in 0 .. MaxGeneration
  /\ creds \in [Generations -> Credential]
  /\ ops \in [Ops -> Operation]
  /\ lease \in 0 .. MaxGeneration
  /\ pc \in [Handlers -> {"free", "arrived", "unknown", "acknowledge"}]
  /\ req \in [Handlers -> Request]
  /\ result \in [Handlers -> 0 .. MaxGeneration]
  /\ broker \in [generation : 0 .. MaxGeneration, token : Ops \cup {NoOp},
                 staged : Renewals \cup {NoOp}, wait : Handlers \cup {Nobody}]
  /\ admin \in [op : Issues \cup {NoOp}, wait : Handlers \cup {Nobody}]

(* One credential of a scope is good for anything, the newest: however     *)
(* issues and renewals overlap, an older one neither authenticates nor     *)
(* renews.                                                                 *)
OnlyNewestUsable ==
  \A g \in Generations : Exists(g) /\ ~creds[g].revoked => Newest(g)

(* An operation takes effect once: a retry that overtakes or overlaps its  *)
(* first attempt never rotates the credential a second time.               *)
OperationOnce ==
  \A o \in Ops : Cardinality({g \in Generations : creds[g].token = o}) <= 1

(* Whatever answers are lost, the newest credential is one its owner has   *)
(* in hand: the Broker's active or staged token, or the token of the issue *)
(* the administrator is still retrying.                                    *)
NewestIsHeld ==
  \A g \in Generations : Newest(g) =>
    creds[g].token \in {broker.token, broker.staged, admin.op}

(* Rotation and its fence are one transaction: a lease that exists was     *)
(* claimed after the newest credential was written.                        *)
LeaseFollowsCredential ==
  lease > 0 => \A g \in Generations : Exists(g) => g < lease

(* The credentials are an atomic register, written by issues and swapped   *)
(* by renewals: what a renewal replaced is what its caller held, and no    *)
(* step but an operation's commit changes which credential is good.        *)
Good == {g \in Generations : Exists(g) /\ ~creds[g].revoked}
Register == INSTANCE CredentialRegister WITH
  good     <- {creds[g].token : g \in Good},
  alive    <- \E g \in Good : creds[g].age # "dead",
  applied  <- {o \in Ops : ops[o] # NoRow},
  replaced <- [o \in Renewals |-> {ops[o].request.token} \ {NoOp}],
  open     <- state # "retired"
ImplementsRegister == Register!Spec
=============================================================================
