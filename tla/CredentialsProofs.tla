-------------------------- MODULE CredentialsProofs --------------------------
(***************************************************************************)
(* Proofs about Credentials, for any number of operations, handlers and    *)
(* generations.                                                            *)
(*                                                                         *)
(* The store's tables agree with each other (TableInv), a handler carries  *)
(* what its caller sent (HandlerInv), and all attempts at one renewal say  *)
(* the same (RenewalInv): hence a renewal that has taken effect names a    *)
(* revoked credential and cannot take effect again. An issue that has      *)
(* taken effect stays the newest until the administrator has its receipt   *)
(* (IssueInv), so that nobody loses the newest token.                      *)
(***************************************************************************)
EXTENDS Credentials, FiniteSetTheorems, TLAPS

(* Operation rows and credential rows correspond, and no credential is     *)
(* ahead of the installation's generation.                                 *)
TableInv ==
  /\ \A o \in Ops : ops[o] # NoRow =>
       /\ ops[o].request.op = o
       /\ ops[o].result \in Generations
       /\ creds[ops[o].result].token = o
  /\ \A g \in Generations : Exists(g) => g <= generation /\ ops[creds[g].token].result = g

(* A handler that is at work, and no other, has a request.                 *)
TypeInv ==
  /\ TypeOK
  /\ \A h \in Handlers : pc[h] = "free" <=> req[h].op = NoOp

(* A handler that acknowledges has an operation row; an issue names no     *)
(* earlier credential, a renewal one that exists.                          *)
HandlerInv ==
  \A h \in Handlers :
    /\ pc[h] = "acknowledge" => ops[req[h].op] # NoRow /\ result[h] = ops[req[h].op].result
    /\ req[h].op \notin Renewals => req[h].generation = 0 /\ req[h].token = NoOp
    /\ req[h].op \in Renewals =>
         /\ req[h].generation \in Generations
         /\ req[h].token # NoOp
         /\ creds[req[h].generation].token = req[h].token

BrokerInv ==
  /\ broker.token # NoOp =>
       broker.generation \in Generations /\ creds[broker.generation].token = broker.token
  /\ broker.token = NoOp => broker.staged = NoOp
  /\ broker.wait # Nobody => req[broker.wait].op = broker.staged /\ broker.staged # NoOp
  /\ admin.wait # Nobody => req[admin.wait].op = admin.op /\ admin.op # NoOp

(* What a renewal that has taken effect has replaced.                      *)
Superseded(r) ==
  /\ r.generation \in Generations
  /\ r.token # NoOp
  /\ creds[r.generation].token = r.token
  /\ creds[r.generation].revoked
  /\ ~Newest(r.generation)

RenewalInv ==
  /\ \A o \in Renewals : ops[o] # NoRow => Superseded(ops[o].request)
  /\ \A h \in Handlers : req[h].op \in Renewals =>
       /\ ops[req[h].op] # NoRow => ops[req[h].op].request = req[h]
       /\ \A k \in Handlers : req[k].op = req[h].op => req[k] = req[h]
       /\ broker.staged = req[h].op =>
            req[h].generation = broker.generation /\ req[h].token = broker.token
       /\ \/ broker.staged = req[h].op
          \/ ops[req[h].op] # NoRow
          \/ ~Newest(req[h].generation)
  /\ broker.staged # NoOp /\ ops[broker.staged] # NoRow =>
       /\ ops[broker.staged].request.generation = broker.generation
       /\ ops[broker.staged].request.token = broker.token

IssueInv ==
  /\ \A h \in Handlers : req[h].op \in Issues =>
       admin.op = req[h].op \/ ops[req[h].op] # NoRow
  /\ admin.op # NoOp =>
       /\ ops[admin.op] # NoRow => Newest(ops[admin.op].result)
       /\ broker.token # admin.op
       /\ \A h \in Handlers : req[h].token # admin.op

IInv ==
  /\ TypeInv
  /\ TableInv
  /\ OnlyNewestUsable
  /\ LeaseFollowsCredential
  /\ HandlerInv
  /\ BrokerInv
  /\ RenewalInv
  /\ IssueInv
  /\ NewestIsHeld

-----------------------------------------------------------------------------
(***************************************************************************)
(* Type correctness.                                                       *)
(***************************************************************************)
USE DEF database, handler, clients

(* A request, a row and a credential that are not there have types.        *)
LEMMA NullTypes == NoReq \in Request /\ NoRow \in Operation /\ NoCred \in Credential
BY CredentialsAssumption
   DEF CredentialsAssumption, NoReq, NoRow, NoCred, Request, Operation, Credential

(* What changing one field of a row does.                                  *)
LEMMA Fields ==
  /\ \A c \in Credential :
       /\ [c EXCEPT !.revoked = TRUE] \in Credential
       /\ [c EXCEPT !.revoked = TRUE].token = c.token
       /\ [c EXCEPT !.revoked = TRUE].age = c.age
       /\ [c EXCEPT !.revoked = TRUE].revoked
  /\ \A r \in Operation :
       /\ [r EXCEPT !.fresh = FALSE] \in Operation
       /\ [r EXCEPT !.fresh = FALSE].request = r.request
       /\ [r EXCEPT !.fresh = FALSE].result = r.result
  /\ \A o \in Ops :
       /\ [NoCred EXCEPT !.token = o] \in Credential
       /\ [NoCred EXCEPT !.token = o].token = o
       /\ ~[NoCred EXCEPT !.token = o].revoked
       /\ [NoCred EXCEPT !.token = o].age = "valid"
  /\ \A o \in Issues :
       /\ [NoReq EXCEPT !.op = o] \in Request
       /\ [NoReq EXCEPT !.op = o].op = o
       /\ [NoReq EXCEPT !.op = o].generation = 0
       /\ [NoReq EXCEPT !.op = o].token = NoOp
<1>1. ASSUME NEW c \in Credential
      PROVE  /\ [c EXCEPT !.revoked = TRUE] \in Credential
             /\ [c EXCEPT !.revoked = TRUE].token = c.token
             /\ [c EXCEPT !.revoked = TRUE].age = c.age
             /\ [c EXCEPT !.revoked = TRUE].revoked
  BY DEF Credential
<1>2. ASSUME NEW r \in Operation
      PROVE  /\ [r EXCEPT !.fresh = FALSE] \in Operation
             /\ [r EXCEPT !.fresh = FALSE].request = r.request
             /\ [r EXCEPT !.fresh = FALSE].result = r.result
  BY DEF Operation
<1>3. ASSUME NEW o \in Ops
      PROVE  /\ [NoCred EXCEPT !.token = o] \in Credential
             /\ [NoCred EXCEPT !.token = o].token = o
             /\ ~[NoCred EXCEPT !.token = o].revoked
             /\ [NoCred EXCEPT !.token = o].age = "valid"
  BY DEF NoCred, Credential
<1>4. ASSUME NEW o \in Issues
      PROVE  /\ [NoReq EXCEPT !.op = o] \in Request
             /\ [NoReq EXCEPT !.op = o].op = o
             /\ [NoReq EXCEPT !.op = o].generation = 0
             /\ [NoReq EXCEPT !.op = o].token = NoOp
  BY CredentialsAssumption DEF CredentialsAssumption, NoReq, Request, Ops
<1> QED BY <1>1, <1>2, <1>3, <1>4

(* The tables keep their types when an operation commits.                  *)
LEMMA RotateType ==
  ASSUME TypeOK, NEW r \in Request, r.op \in Ops, NEW revoked, Rotate(r, revoked)
  PROVE  /\ generation' \in 0 .. MaxGeneration
         /\ creds' \in [Generations -> Credential]
         /\ ops' \in [Ops -> Operation]
         /\ lease' \in 0 .. MaxGeneration
         /\ state' = state
<1> USE CredentialsAssumption DEF CredentialsAssumption
<1>1. creds' \in [Generations -> Credential]
  BY Fields DEF TypeOK, Rotate
<1>2. generation + 1 \in 0 .. MaxGeneration
  BY DEF TypeOK, Rotate
<1>3. [request |-> r, result |-> generation + 1, fresh |-> TRUE] \in Operation
  BY <1>2 DEF Operation
<1>4. ops' \in [Ops -> Operation]
  BY <1>3 DEF TypeOK, Rotate
<1> QED BY <1>1, <1>2, <1>4 DEF Rotate

(* The callers and the handler keep their types when a call ends.          *)
LEMMA EndType ==
  ASSUME TypeOK, NEW h \in Handlers, Answer(h), Done(h)
  PROVE  /\ pc' \in [Handlers -> {"free", "arrived", "unknown", "acknowledge"}]
         /\ req' \in [Handlers -> Request]
         /\ result' \in [Handlers -> 0 .. MaxGeneration]
         /\ broker' \in [generation : 0 .. MaxGeneration, token : Ops \cup {NoOp},
                         staged : Renewals \cup {NoOp}, wait : Handlers \cup {Nobody}]
         /\ admin' \in [op : Issues \cup {NoOp}, wait : Handlers \cup {Nobody}]
         /\ \A k \in Handlers : IF k = h THEN pc'[k] = "free" /\ req'[k] = NoReq /\ req'[k].op = NoOp
                               ELSE pc'[k] = pc[k] /\ req'[k] = req[k] /\ result'[k] = result[k]
BY NullTypes, CredentialsAssumption DEF CredentialsAssumption, TypeOK, Answer, Done, NoReq

LEMMA TypeStep == TypeInv /\ [Next]_vars => TypeInv'
<1> SUFFICES ASSUME TypeInv, [Next]_vars PROVE TypeInv'
  OBVIOUS
<1> USE CredentialsAssumption DEF CredentialsAssumption
<1>1. CASE mark_dns_ready \/ claim_tunnel \/ retire
  BY <1>1 DEF TypeInv, TypeOK, mark_dns_ready, claim_tunnel, retire
<1>2. CASE call_times_out
  <2>1. CASE broker' = [broker EXCEPT !.wait = Nobody] /\ UNCHANGED admin
    BY <1>2, <2>1 DEF TypeInv, TypeOK, call_times_out
  <2>2. CASE admin' = [admin EXCEPT !.wait = Nobody] /\ UNCHANGED broker
    BY <1>2, <2>2 DEF TypeInv, TypeOK, call_times_out
  <2> QED BY <1>2, <2>1, <2>2 DEF call_times_out
<1>3. ASSUME NEW o \in Renewals, operation_ages(o) PROVE TypeInv'
  BY <1>3, Fields DEF TypeInv, TypeOK, operation_ages, Ops
<1>4. ASSUME NEW g \in Generations, credential_ages(g) PROVE TypeInv'
  BY <1>4 DEF TypeInv, TypeOK, credential_ages, Credential
<1>5. ASSUME NEW o \in Renewals, stage_renewal(o) PROVE TypeInv'
  BY <1>5 DEF TypeInv, TypeOK, stage_renewal
<1>6. ASSUME NEW h \in Handlers, lookup_operation(h) PROVE TypeInv'
  <2>1. ops[req[h].op].result \in 0 .. MaxGeneration
    BY <1>6 DEF lookup_operation, TypeInv, TypeOK, Request, Operation
  <2>2. CASE Answer(h) /\ Done(h)
    BY <1>6, <2>2, EndType DEF lookup_operation, TypeInv, TypeOK
  <2> QED BY <1>6, <2>1, <2>2 DEF lookup_operation, TypeInv, TypeOK, Request
<1>7. ASSUME NEW h \in Handlers, issue_bearer(h) PROVE TypeInv'
  <2>1. req[h] \in Request /\ req[h].op \in Ops
    BY <1>7 DEF issue_bearer, TypeInv, TypeOK, Ops
  <2>2. CASE Answer(h) /\ Done(h) /\ UNCHANGED database
    BY <1>7, <2>2, EndType DEF TypeInv, TypeOK
  <2>3. CASE /\ Rotate(req[h], {g \in Generations : Exists(g)})
             /\ pc' = [pc EXCEPT ![h] = "acknowledge"]
             /\ result' = [result EXCEPT ![h] = generation + 1]
             /\ UNCHANGED <<req, clients>>
    <3>1. generation + 1 \in 0 .. MaxGeneration
      BY <2>3 DEF Rotate, TypeInv, TypeOK
    <3> QED BY <1>7, <2>1, <2>3, <3>1, RotateType DEF issue_bearer, TypeInv, TypeOK
  <2> QED BY <1>7, <2>2, <2>3 DEF issue_bearer
<1>8. ASSUME NEW h \in Handlers, renew_bearer(h) PROVE TypeInv'
  <2>1. req[h] \in Request /\ req[h].op \in Ops
    BY <1>8 DEF renew_bearer, TypeInv, TypeOK, Ops
  <2>2. CASE Answer(h) /\ Done(h) /\ UNCHANGED database
    BY <1>8, <2>2, EndType DEF TypeInv, TypeOK
  <2>3. CASE /\ Rotate(req[h], {req[h].generation})
             /\ pc' = [pc EXCEPT ![h] = "acknowledge"]
             /\ result' = [result EXCEPT ![h] = generation + 1]
             /\ UNCHANGED <<req, clients>>
    <3>1. generation + 1 \in 0 .. MaxGeneration
      BY <2>3 DEF Rotate, TypeInv, TypeOK
    <3> QED BY <1>8, <2>1, <2>3, <3>1, RotateType DEF renew_bearer, TypeInv, TypeOK
  <2> QED BY <1>8, <2>2, <2>3 DEF renew_bearer
<1>9. ASSUME NEW h \in Handlers, acknowledge(h) PROVE TypeInv'
  <2>1. [generation |-> result[h], token |-> req[h].op, staged |-> NoOp, wait |-> Nobody]
          \in [generation : 0 .. MaxGeneration, token : Ops \cup {NoOp},
               staged : Renewals \cup {NoOp}, wait : Handlers \cup {Nobody}]
    BY DEF TypeInv, TypeOK, Request
  <2>2. [admin EXCEPT !.wait = Nobody, !.op = NoOp]
          \in [op : Issues \cup {NoOp}, wait : Handlers \cup {Nobody}]
    BY DEF TypeInv, TypeOK
  <2> QED BY <1>9, <2>1, <2>2, NullTypes DEF TypeInv, TypeOK, acknowledge, Done, NoReq
<1>10. ASSUME NEW h \in Handlers, handler_fails(h) PROVE TypeInv'
  BY <1>10, EndType DEF TypeInv, TypeOK, handler_fails
<1>11. ASSUME NEW h \in Handlers, renew_scoped_credential(h) PROVE TypeInv'
  BY <1>11 DEF TypeInv, TypeOK, renew_scoped_credential, Send, Request, Ops
<1>12. ASSUME NEW h \in Handlers, NEW o \in Issues, issue_credential(h, o) PROVE TypeInv'
  <2>1. [NoReq EXCEPT !.op = o] \in Request /\ [NoReq EXCEPT !.op = o].op = o
    BY Fields
  <2>2. o # NoOp
    OBVIOUS
  <2> QED BY <1>12, <2>1, <2>2 DEF TypeInv, TypeOK, issue_credential, Send
<1>13. CASE UNCHANGED vars
  BY <1>13 DEF TypeInv, TypeOK, vars
<1> QED
  BY <1>1, <1>2, <1>3, <1>4, <1>5, <1>6, <1>7, <1>8, <1>9, <1>10, <1>11, <1>12, <1>13 DEF Next

-----------------------------------------------------------------------------
(***************************************************************************)
(* What the steps do to the tables.                                        *)
(***************************************************************************)

(* A commit gives the next generation a credential and makes it the        *)
(* newest; of the other rows it only revokes.                              *)
LEMMA RotateFacts ==
  ASSUME TypeInv, TableInv, NEW r \in Request, r.op \in Ops, NEW revoked, Rotate(r, revoked)
  PROVE  /\ generation + 1 \in Generations
         /\ ~Exists(generation + 1)
         /\ creds'[generation + 1].token = r.op
         /\ ~creds'[generation + 1].revoked
         /\ creds'[generation + 1].age = "valid"
         /\ \A n \in Generations : n # generation + 1 =>
              /\ creds'[n].token = creds[n].token
              /\ creds'[n].age = creds[n].age
              /\ creds'[n].revoked <=> creds[n].revoked \/ n \in revoked
         /\ \A n \in Generations : Newest(n)' <=> n = generation + 1
         /\ ops'[r.op].request = r
         /\ ops'[r.op].result = generation + 1
         /\ ops'[r.op] # NoRow
         /\ \A o \in Ops : o # r.op => ops'[o] = ops[o]
<1> USE CredentialsAssumption DEF CredentialsAssumption
<1>1. generation + 1 \in Generations /\ ~Exists(generation + 1)
  BY DEF TypeInv, TypeOK, TableInv, Rotate, Generations
<1>2. /\ creds'[generation + 1].token = r.op
      /\ ~creds'[generation + 1].revoked
      /\ creds'[generation + 1].age = "valid"
  BY <1>1, Fields DEF Rotate
<1>3. ASSUME NEW n \in Generations, n # generation + 1
      PROVE  /\ creds'[n].token = creds[n].token
             /\ creds'[n].age = creds[n].age
             /\ creds'[n].revoked <=> creds[n].revoked \/ n \in revoked
  <2>1. creds'[n] = IF n \in revoked THEN [creds[n] EXCEPT !.revoked = TRUE] ELSE creds[n]
    BY <1>3 DEF Rotate
  <2>2. creds[n] \in Credential
    BY DEF TypeInv, TypeOK
  <2> QED BY <2>1, <2>2, Fields
<1>4. r.op # NoOp
  BY DEF Ops
<1>5. \A n \in Generations : Exists(n) => n < generation + 1
  BY DEF TypeInv, TypeOK, TableInv, Generations
<1>6. \A n \in Generations : Newest(n)' <=> n = generation + 1
  BY <1>1, <1>2, <1>3, <1>4, <1>5 DEF Newest, Exists, Generations
<1>7. ops'[r.op] = [request |-> r, result |-> generation + 1, fresh |-> TRUE]
  BY DEF TypeInv, TypeOK, Rotate
<1>8. \A o \in Ops : o # r.op => ops'[o] = ops[o]
  BY DEF TypeInv, TypeOK, Rotate
<1>9. ops'[r.op] # NoRow
  BY <1>7 DEF NoRow
<1> QED BY <1>1, <1>2, <1>3, <1>6, <1>7, <1>8, <1>9

(* Every other step leaves the rows as they are, their ages apart.         *)
TablesKept ==
  /\ generation' >= generation
  /\ \A n \in Generations : creds'[n].token = creds[n].token /\ creds'[n].revoked = creds[n].revoked
  /\ \A o \in Ops : /\ ops'[o].request = ops[o].request
                    /\ ops'[o].result = ops[o].result
                    /\ ops'[o] = NoRow <=> ops[o] = NoRow

LEMMA KeptFacts ==
  ASSUME TypeInv, TypeInv', TableInv, OnlyNewestUsable, TablesKept
  PROVE  /\ TableInv'
         /\ OnlyNewestUsable'
         /\ \A n \in Generations : Exists(n)' <=> Exists(n)
         /\ \A n \in Generations : Newest(n)' <=> Newest(n)
<1>1. \A n \in Generations : Exists(n)' <=> Exists(n)
  BY DEF TablesKept, Exists
<1>2. \A n \in Generations : Newest(n)' <=> Newest(n)
  BY <1>1 DEF Newest
<1>3. TableInv'
  <2>1. ASSUME NEW o \in Ops, (ops[o] # NoRow)'
        PROVE  ops'[o].request.op = o /\ ops'[o].result \in Generations /\ creds'[ops'[o].result].token = o
    BY <2>1 DEF TablesKept, TableInv
  <2>2. ASSUME NEW g \in Generations, Exists(g)'
        PROVE  g <= generation' /\ ops'[creds'[g].token].result = g
    <3>1. g <= generation /\ ops[creds[g].token].result = g /\ creds[g].token \in Ops
      BY <1>1, <2>2 DEF TableInv, TypeInv, TypeOK, Credential, Exists
    <3> QED BY <3>1 DEF TablesKept, TypeInv, TypeOK, Generations
  <2> QED BY <2>1, <2>2 DEF TableInv
<1>4. OnlyNewestUsable'
  BY <1>1, <1>2 DEF OnlyNewestUsable, TablesKept
<1> QED BY <1>1, <1>2, <1>3, <1>4
(* What of the invariant speaks of handlers and callers.                   *)
CallInv == HandlerInv /\ BrokerInv /\ RenewalInv /\ IssueInv /\ NewestIsHeld

(* An operation in hand, and one staged, is an operation.                  *)
LEMMA OpTypes ==
  ASSUME TypeInv
  PROVE  /\ \A h \in Handlers : req[h].op # NoOp => req[h].op \in Ops
         /\ broker.staged # NoOp => broker.staged \in Renewals /\ broker.staged \in Ops
         /\ admin.op # NoOp => admin.op \in Issues /\ admin.op \in Ops
         /\ \A o \in Issues : o \notin Renewals /\ o # NoOp
         /\ \A o \in Renewals : o # NoOp
BY CredentialsAssumption DEF CredentialsAssumption, TypeInv, TypeOK, Request, Ops

LEMMA DatabaseStep ==
  ASSUME IInv, TypeInv', TablesKept, UNCHANGED <<handler, clients>>
  PROVE  CallInv'
<1> USE DEF IInv, TypeInv
<1>1. /\ \A n \in Generations : Exists(n)' <=> Exists(n)
      /\ \A n \in Generations : Newest(n)' <=> Newest(n)
  BY KeptFacts
<1>2. HandlerInv'
  BY OpTypes DEF HandlerInv, TablesKept, TypeOK
<1>3. BrokerInv'
  BY DEF BrokerInv, TablesKept
<1>4. ASSUME NEW r, Superseded(r) PROVE Superseded(r)'
  BY <1>1, <1>4 DEF Superseded, TablesKept
<1>5. RenewalInv'
  <2>1. ASSUME NEW o \in Renewals, (ops[o] # NoRow)' PROVE Superseded(ops[o].request)'
    <3>1. ops'[o].request = ops[o].request /\ Superseded(ops[o].request)
      BY <2>1 DEF TablesKept, RenewalInv, Ops
    <3> QED BY <3>1, <1>4 DEF Superseded
  <2>2. \A h \in Handlers : req[h].op \in Renewals => req[h].op \in Ops /\ req[h].generation \in Generations
    BY DEF Ops, HandlerInv
  <2>3. broker.staged # NoOp => broker.staged \in Ops
    BY OpTypes
  <2> QED BY <1>1, <2>1, <2>2, <2>3 DEF RenewalInv, TablesKept
<1>6. IssueInv'
  <2>1. admin.op # NoOp => admin.op \in Ops
    BY OpTypes
  <2>2. admin.op # NoOp /\ ops[admin.op] # NoRow => ops[admin.op].result \in Generations
    BY <2>1 DEF TableInv
  <2>3. \A o \in Issues : o \in Ops
    BY DEF Ops
  <2> QED BY <1>1, <2>1, <2>2, <2>3 DEF IssueInv, TablesKept
<1>7. NewestIsHeld'
  BY <1>1 DEF NewestIsHeld, TablesKept
<1> QED BY <1>2, <1>3, <1>5, <1>6, <1>7 DEF CallInv

(* A call ends without an answer for its caller.                           *)
LEMMA EndStep ==
  ASSUME IInv, TypeInv', UNCHANGED database, NEW h \in Handlers, Answer(h), Done(h)
  PROVE  CallInv'
<1> USE DEF IInv
<1>1. \A k \in Handlers : IF k = h THEN pc'[k] = "free" /\ req'[k] = NoReq
                                   ELSE pc'[k] = pc[k] /\ req'[k] = req[k] /\ result'[k] = result[k]
  BY EndType DEF TypeInv
<1>2. NoReq.op = NoOp /\ NoReq.generation = 0 /\ NoReq.token = NoOp
  BY DEF NoReq
<1>3. /\ broker'.generation = broker.generation
      /\ broker'.token = broker.token
      /\ broker'.staged = broker.staged
      /\ broker'.wait = IF broker.wait = h THEN Nobody ELSE broker.wait
      /\ admin'.op = admin.op
      /\ admin'.wait = IF admin.wait = h THEN Nobody ELSE admin.wait
  BY DEF Answer, TypeInv, TypeOK
<1>4. /\ \A n \in Generations : Exists(n)' <=> Exists(n)
      /\ \A n \in Generations : Newest(n)' <=> Newest(n)
  BY DEF Exists, Newest
<1>5. NoOp \notin Renewals /\ NoOp \notin Issues
  BY CredentialsAssumption DEF CredentialsAssumption
<1>6. HandlerInv'
  BY <1>1, <1>2, <1>5 DEF HandlerInv
<1>7. BrokerInv'
  <2>1. broker.wait \in Handlers \cup {Nobody} /\ admin.wait \in Handlers \cup {Nobody}
    BY DEF TypeInv, TypeOK
  <2> QED BY <1>1, <1>3, <2>1 DEF BrokerInv
<1>8. RenewalInv'
  BY <1>1, <1>2, <1>3, <1>4, <1>5 DEF RenewalInv, Superseded, HandlerInv
<1>9. IssueInv'
  BY <1>1, <1>2, <1>3, <1>4, <1>5, OpTypes DEF IssueInv, TableInv
<1>10. NewestIsHeld'
  BY <1>3, <1>4 DEF NewestIsHeld
<1> QED BY <1>6, <1>7, <1>8, <1>9, <1>10 DEF CallInv
(* A commit by handler h. What of CallInv both kinds of operation share.   *)
LEMMA CommitStep ==
  ASSUME IInv, TypeInv', NEW h \in Handlers, NEW revoked,
         req[h].op \in Ops, ops[req[h].op] = NoRow,
         Rotate(req[h], revoked),
         \A n \in Generations : Exists(n) => creds[n].revoked \/ n \in revoked,
         pc' = [pc EXCEPT ![h] = "acknowledge"],
         result' = [result EXCEPT ![h] = generation + 1],
         UNCHANGED <<req, clients>>
  PROVE  TableInv' /\ OnlyNewestUsable' /\ LeaseFollowsCredential' /\ HandlerInv' /\ BrokerInv'
<1> USE DEF IInv
<1> DEFINE g == generation + 1
           r == req[h]
<1>1. r \in Request
  BY DEF TypeInv, TypeOK
<1>2. /\ g \in Generations
      /\ ~Exists(g)
      /\ creds'[g].token = r.op
      /\ \A n \in Generations : n # g =>
           creds'[n].token = creds[n].token /\ (creds'[n].revoked <=> creds[n].revoked \/ n \in revoked)
      /\ \A n \in Generations : Newest(n)' <=> n = g
      /\ ops'[r.op].request = r /\ ops'[r.op].result = g /\ ops'[r.op] # NoRow
      /\ \A o \in Ops : o # r.op => ops'[o] = ops[o]
  BY <1>1, RotateFacts
<1>0. generation' = g /\ lease' = 0
  BY DEF Rotate
<1>3. TableInv'
  <2>1. ASSUME NEW o \in Ops, (ops[o] # NoRow)'
        PROVE  ops'[o].request.op = o /\ ops'[o].result \in Generations /\ creds'[ops'[o].result].token = o
    <3>1. CASE o = r.op
      BY <1>2, <3>1
    <3>2. CASE o # r.op
      <4>1. ops[o].request.op = o /\ ops[o].result \in Generations /\ creds[ops[o].result].token = o
        BY <1>2, <2>1, <3>2 DEF TableInv
      <4>2. ops[o].result # g
        BY <1>2, <4>1, CredentialsAssumption DEF Exists, Ops, CredentialsAssumption
      <4> QED BY <1>2, <3>2, <4>1, <4>2
    <3> QED BY <3>1, <3>2
  <2>2. ASSUME NEW n \in Generations, Exists(n)'
        PROVE  n <= generation' /\ ops'[creds'[n].token].result = n
    <3>1. CASE n = g
      BY <1>0, <1>2, <3>1 DEF Generations
    <3>2. CASE n # g
      <4>1. Exists(n) /\ creds'[n].token = creds[n].token
        BY <1>2, <2>2, <3>2 DEF Exists
      <4>2. n <= generation /\ ops[creds[n].token].result = n /\ creds[n].token \in Ops
        BY <4>1 DEF TableInv, Exists, TypeInv, TypeOK, Credential
      <4>3. n # 0 /\ NoRow.result = 0
        BY DEF NoRow, Generations
      <4>4. creds[n].token # r.op
        BY <4>2, <4>3
      <4> QED BY <1>0, <1>2, <4>1, <4>2, <4>4 DEF TypeInv, TypeOK, Generations
    <3> QED BY <3>1, <3>2
  <2> QED BY <2>1, <2>2 DEF TableInv
<1>4. OnlyNewestUsable'
  <2> SUFFICES ASSUME NEW n \in Generations, Exists(n)', ~creds'[n].revoked
               PROVE  n = g
    BY <1>2 DEF OnlyNewestUsable
  <2> QED BY <1>2 DEF Exists
<1>5. LeaseFollowsCredential'
  BY <1>0 DEF LeaseFollowsCredential
<1>6. HandlerInv'
  <2> SUFFICES ASSUME NEW k \in Handlers
               PROVE  /\ pc'[k] = "acknowledge" =>
                           ops'[req[k].op] # NoRow /\ result'[k] = ops'[req[k].op].result
                      /\ req[k].op \notin Renewals => req[k].generation = 0 /\ req[k].token = NoOp
                      /\ req[k].op \in Renewals =>
                           /\ req[k].generation \in Generations
                           /\ req[k].token # NoOp
                           /\ creds'[req[k].generation].token = req[k].token
    BY DEF HandlerInv
  <2>1. pc'[k] = "acknowledge" => ops'[req[k].op] # NoRow /\ result'[k] = ops'[req[k].op].result
    <3>1. CASE k = h
      BY <1>2, <3>1 DEF TypeInv, TypeOK
    <3>2. CASE k # h /\ pc[k] = "acknowledge"
      <4>1. req[k].op \in Ops /\ ops[req[k].op] # NoRow /\ result[k] = ops[req[k].op].result
        BY <3>2, OpTypes DEF HandlerInv, TypeInv
      <4> QED BY <1>2, <3>2, <4>1 DEF TypeInv, TypeOK
    <3> QED BY <3>1, <3>2 DEF TypeInv, TypeOK
  <2>2. req[k].op \in Renewals => creds'[req[k].generation].token = req[k].token
    BY <1>2 DEF HandlerInv, Exists
  <2> QED BY <2>1, <2>2 DEF HandlerInv
<1>7. BrokerInv'
  BY <1>2 DEF BrokerInv, Exists
<1> QED BY <1>3, <1>4, <1>5, <1>6, <1>7

LEMMA IssueStep ==
  ASSUME IInv, TypeInv', NEW h \in Handlers, issue_bearer(h), ~UNCHANGED database
  PROVE  TableInv' /\ OnlyNewestUsable' /\ LeaseFollowsCredential' /\ CallInv'
<1> USE DEF IInv
<1> DEFINE g == generation + 1
           r == req[h]
<1>1. /\ r \in Request /\ r.op \in Issues /\ r.op \in Ops /\ ops[r.op] = NoRow
      /\ Rotate(r, {n \in Generations : Exists(n)})
      /\ pc' = [pc EXCEPT ![h] = "acknowledge"]
      /\ result' = [result EXCEPT ![h] = generation + 1]
      /\ UNCHANGED <<req, clients>>
  BY DEF issue_bearer, TypeInv, TypeOK, Ops
<1>2. TableInv' /\ OnlyNewestUsable' /\ LeaseFollowsCredential' /\ HandlerInv' /\ BrokerInv'
  BY <1>1, CommitStep
<1>3. /\ g \in Generations
      /\ ~Exists(g)
      /\ creds'[g].token = r.op
      /\ \A n \in Generations : n # g =>
           creds'[n].token = creds[n].token /\ (creds[n].revoked => creds'[n].revoked)
      /\ \A n \in Generations : Newest(n)' <=> n = g
      /\ ops'[r.op].result = g /\ ops'[r.op] # NoRow
      /\ \A o \in Ops : o # r.op => ops'[o] = ops[o]
  BY <1>1, RotateFacts
<1>4. admin.op = r.op /\ r.op # NoOp /\ r.op \notin Renewals
  BY <1>1, OpTypes DEF IssueInv
<1>5. ASSUME NEW n \in Generations, Exists(n)
      PROVE  ~Newest(n)' /\ creds'[n].token = creds[n].token /\ (creds[n].revoked => creds'[n].revoked)
  BY <1>3, <1>5
<1>6. RenewalInv'
  <2>1. ASSUME NEW o \in Renewals, (ops[o] # NoRow)' PROVE Superseded(ops[o].request)'
    <3>1. ops'[o] = ops[o] /\ Superseded(ops[o].request)
      BY <1>3, <1>4, <2>1 DEF RenewalInv, Ops
    <3>2. Exists(ops[o].request.generation)
      BY <3>1 DEF Superseded, Exists
    <3> QED BY <1>5, <3>1, <3>2 DEF Superseded
  <2>2. \A k \in Handlers : req[k].op \in Renewals =>
          req[k].op \in Ops /\ req[k].op # r.op /\ req[k].generation \in Generations
          /\ Exists(req[k].generation)
    BY <1>4 DEF Ops, HandlerInv, Exists
  <2>3. broker.staged # NoOp => broker.staged \in Ops /\ broker.staged # r.op
    BY <1>4, OpTypes
  <2> QED BY <1>1, <1>3, <1>5, <2>1, <2>2, <2>3 DEF RenewalInv
<1>7. IssueInv'
  BY <1>1, <1>3, <1>4, OpTypes DEF IssueInv, Ops
<1>8. NewestIsHeld'
  BY <1>1, <1>3, <1>4 DEF NewestIsHeld
<1> QED BY <1>2, <1>6, <1>7, <1>8 DEF CallInv
(* A renewal that may go ahead has not taken effect before: it names the   *)
(* newest credential, and what an operation row replaced is not that.      *)
LEMMA RenewIsFirst ==
  ASSUME IInv, NEW h \in Handlers, req[h].op \in Renewals, MayRenew(req[h])
  PROVE  ops[req[h].op] = NoRow /\ broker.staged = req[h].op
BY DEF IInv, RenewalInv, Superseded, MayRenew

LEMMA RenewStep ==
  ASSUME IInv, TypeInv', NEW h \in Handlers, renew_bearer(h), ~UNCHANGED database
  PROVE  TableInv' /\ OnlyNewestUsable' /\ LeaseFollowsCredential' /\ CallInv'
<1> USE DEF IInv
<1> DEFINE g == generation + 1
           r == req[h]
<1>1. /\ r \in Request /\ r.op \in Renewals /\ r.op \in Ops
      /\ MayRenew(r)
      /\ Rotate(r, {r.generation})
      /\ pc' = [pc EXCEPT ![h] = "acknowledge"]
      /\ result' = [result EXCEPT ![h] = generation + 1]
      /\ UNCHANGED <<req, clients>>
  BY DEF renew_bearer, TypeInv, TypeOK, Ops
<1>2. ops[r.op] = NoRow /\ broker.staged = r.op
  BY <1>1, RenewIsFirst
<1>3. \A n \in Generations : Exists(n) => creds[n].revoked \/ n \in {r.generation}
  BY <1>1 DEF OnlyNewestUsable, Newest, MayRenew, Generations
<1>4. TableInv' /\ OnlyNewestUsable' /\ LeaseFollowsCredential' /\ HandlerInv' /\ BrokerInv'
  BY <1>1, <1>2, <1>3, CommitStep
<1>5. /\ g \in Generations
      /\ ~Exists(g)
      /\ creds'[g].token = r.op
      /\ \A n \in Generations : n # g =>
           /\ creds'[n].token = creds[n].token
           /\ creds'[n].revoked <=> creds[n].revoked \/ n \in {r.generation}
      /\ \A n \in Generations : Newest(n)' <=> n = g
      /\ ops'[r.op].request = r /\ ops'[r.op].result = g /\ ops'[r.op] # NoRow
      /\ \A o \in Ops : o # r.op => ops'[o] = ops[o]
  BY <1>1, RotateFacts
<1>6. ASSUME NEW n \in Generations, Exists(n)
      PROVE  ~Newest(n)' /\ creds'[n].token = creds[n].token /\ (creds[n].revoked => creds'[n].revoked)
  BY <1>5, <1>6
<1>7. /\ r.generation \in Generations /\ r.token # NoOp
      /\ creds[r.generation].token = r.token /\ Exists(r.generation)
  BY <1>1 DEF HandlerInv, Exists
<1>8. RenewalInv'
  <2>1. ASSUME NEW o \in Renewals, (ops[o] # NoRow)' PROVE Superseded(ops[o].request)'
    <3>1. CASE o = r.op
      BY <1>5, <1>6, <1>7, <3>1 DEF Superseded
    <3>2. CASE o # r.op
      <4>1. ops'[o] = ops[o] /\ Superseded(ops[o].request)
        BY <1>5, <2>1, <3>2 DEF RenewalInv, Ops
      <4>2. Exists(ops[o].request.generation)
        BY <4>1 DEF Superseded, Exists
      <4> QED BY <1>6, <4>1, <4>2 DEF Superseded
    <3> QED BY <3>1, <3>2
  <2>2. ASSUME NEW k \in Handlers, req[k].op \in Renewals
        PROVE  /\ ops'[req[k].op] # NoRow => ops'[req[k].op].request = req[k]
               /\ ~Newest(req[k].generation)'
    <3>1. req[k].op \in Ops /\ req[k].generation \in Generations /\ Exists(req[k].generation)
      BY <2>2 DEF Ops, HandlerInv, Exists
    <3>2. req[k].op = r.op => req[k] = r
      BY <1>1, <2>2 DEF RenewalInv
    <3>3. ~Newest(req[k].generation)'
      BY <1>1, <1>6, <3>1 DEF Newest, Exists
    <3>4. ops'[req[k].op] # NoRow => ops'[req[k].op].request = req[k]
      <4>1. CASE req[k].op = r.op
        BY <1>5, <3>2, <4>1
      <4>2. CASE req[k].op # r.op
        BY <1>5, <2>2, <3>1, <4>2 DEF RenewalInv
      <4> QED BY <4>1, <4>2
    <3> QED BY <3>3, <3>4
  <2>3. /\ ops'[broker.staged].request.generation = broker.generation
        /\ ops'[broker.staged].request.token = broker.token
    BY <1>1, <1>2, <1>5 DEF RenewalInv
  <2> QED BY <1>1, <2>1, <2>2, <2>3 DEF RenewalInv
<1>9. IssueInv'
  <2>1. ASSUME admin.op # NoOp PROVE ops[admin.op] = NoRow /\ admin.op # r.op /\ admin.op \in Ops
    <3>1. admin.op \in Ops /\ admin.op # r.op
      BY <1>1, <2>1, OpTypes
    <3>2. CASE ops[admin.op] # NoRow
      <4>1. Newest(ops[admin.op].result) /\ creds[ops[admin.op].result].token = admin.op
            /\ ops[admin.op].result \in Generations
        BY <2>1, <3>1, <3>2 DEF IssueInv, TableInv
      <4>2. ops[admin.op].result = r.generation
        BY <1>1, <4>1 DEF MayRenew, Newest, Generations
      <4>3. r.token = admin.op
        BY <1>7, <4>1, <4>2
      <4> QED BY <2>1, <4>3 DEF IssueInv
    <3> QED BY <3>1, <3>2
  <2>2. \A o \in Issues : o \in Ops /\ o # r.op
    BY <1>1, OpTypes DEF Ops
  <2> QED BY <1>1, <1>5, <2>1, <2>2 DEF IssueInv
<1>10. NewestIsHeld'
  BY <1>1, <1>2, <1>5 DEF NewestIsHeld
<1> QED BY <1>4, <1>8, <1>9, <1>10 DEF CallInv

(* The newest credential is one: the newest of two is newest alone.        *)
LEMMA NewestUnique ==
  \A m, n \in Generations : Newest(m) /\ Newest(n) => m = n
BY DEF Newest, Generations

(* A receipt goes out: the Broker that waits has asked for this renewal,   *)
(* the administrator that waits has asked for this issue.                  *)
LEMMA AcknowledgeStep ==
  ASSUME IInv, TypeInv', NEW h \in Handlers, acknowledge(h)
  PROVE  CallInv'
<1> USE DEF IInv
<1>1. /\ pc[h] = "acknowledge" /\ UNCHANGED database
      /\ req[h].op \in Ops /\ ops[req[h].op] # NoRow /\ result[h] = ops[req[h].op].result
      /\ result[h] \in Generations /\ creds[result[h]].token = req[h].op /\ req[h].op # NoOp
  BY OpTypes DEF acknowledge, HandlerInv, TableInv, TypeInv
<1>2. \A k \in Handlers : IF k = h THEN pc'[k] = "free" /\ req'[k] = NoReq
                                   ELSE pc'[k] = pc[k] /\ req'[k] = req[k] /\ result'[k] = result[k]
  BY DEF acknowledge, Done, TypeInv, TypeOK
<1>3. NoReq.op = NoOp /\ NoReq.generation = 0 /\ NoReq.token = NoOp
  BY DEF NoReq
<1>4. NoOp \notin Renewals /\ NoOp \notin Issues /\ Issues \cap Renewals = {} /\ Nobody \notin Handlers
  BY CredentialsAssumption DEF CredentialsAssumption
<1>5. /\ \A n \in Generations : Exists(n)' <=> Exists(n)
      /\ \A n \in Generations : Newest(n)' <=> Newest(n)
  BY <1>1 DEF Exists, Newest
<1>6. HandlerInv'
  BY <1>1, <1>2, <1>3, <1>4 DEF HandlerInv
<1>7. ASSUME NEW r, Superseded(r) PROVE Superseded(r)'
  BY <1>1, <1>5, <1>7 DEF Superseded
<1>8. /\ admin.wait = h => req[h].op = admin.op /\ req[h].op \in Issues
      /\ broker.wait = h => req[h].op = broker.staged /\ req[h].op \in Renewals
  BY <1>4, OpTypes DEF BrokerInv, TypeInv
<1>9. CASE broker.wait # h /\ admin.wait # h
  <2>1. UNCHANGED <<broker, admin>>
    BY <1>9 DEF acknowledge
  <2>2. BrokerInv'
    BY <1>1, <1>2, <1>9, <2>1 DEF BrokerInv, TypeInv, TypeOK
  <2>3. RenewalInv'
    BY <1>1, <1>2, <1>3, <1>4, <1>5, <1>7, <2>1 DEF RenewalInv, Superseded, HandlerInv
  <2>4. IssueInv'
    BY <1>1, <1>2, <1>3, <1>4, <1>5, <2>1, OpTypes DEF IssueInv, TableInv
  <2>5. NewestIsHeld'
    BY <1>1, <1>5, <2>1 DEF NewestIsHeld
  <2> QED BY <1>6, <2>2, <2>3, <2>4, <2>5 DEF CallInv
<1>10. CASE broker.wait = h
  <2>1. /\ broker'.generation = result[h] /\ broker'.token = req[h].op
        /\ broker'.staged = NoOp /\ broker'.wait = Nobody
        /\ admin' = admin /\ admin.wait # h
    BY <1>4, <1>8, <1>10 DEF acknowledge
  <2>2. BrokerInv'
    BY <1>1, <1>2, <2>1 DEF BrokerInv, TypeInv, TypeOK
  <2>3. RenewalInv'
    <3>1. ASSUME NEW k \in Handlers, req'[k].op \in Renewals
          PROVE  ops[req[k].op] # NoRow \/ ~Newest(req[k].generation)
      BY <1>1, <1>2, <1>3, <1>4, <1>8, <1>10, <3>1 DEF RenewalInv
    <3> QED BY <1>1, <1>2, <1>3, <1>4, <1>5, <1>7, <2>1, <3>1 DEF RenewalInv, Superseded, HandlerInv
  <2>4. IssueInv'
    <3>1. admin.op # req[h].op
      BY <1>4, <1>8, <1>10, OpTypes
    <3> QED BY <1>1, <1>2, <1>3, <1>4, <1>5, <2>1, <3>1, OpTypes DEF IssueInv, TableInv
  <2>5. NewestIsHeld'
    <3> SUFFICES ASSUME NEW n \in Generations, Newest(n), creds[n].token = broker.token
                 PROVE  FALSE
      BY <1>1, <1>5, <1>8, <1>10, <2>1 DEF NewestIsHeld
    <3>1. Exists(n) /\ broker.token # NoOp
      BY DEF Newest, Exists
    <3>2. n = broker.generation
      BY <3>1 DEF BrokerInv, TableInv, Exists
    <3>3. ~Newest(broker.generation)
      BY <1>1, <1>8, <1>10 DEF RenewalInv, Superseded
    <3> QED BY <3>2, <3>3
  <2> QED BY <1>6, <2>2, <2>3, <2>4, <2>5 DEF CallInv
<1>11. CASE admin.wait = h
  <2>1. /\ broker'.generation = result[h] /\ broker'.token = req[h].op
        /\ broker'.staged = NoOp /\ broker'.wait = Nobody
        /\ admin'.op = NoOp /\ admin'.wait = Nobody
    BY <1>11 DEF acknowledge, TypeInv, TypeOK
  <2>2. BrokerInv'
    BY <1>1, <1>2, <2>1 DEF BrokerInv, TypeInv, TypeOK
  <2>3. Newest(result[h])
    BY <1>1, <1>8, <1>11 DEF IssueInv
  <2>4. RenewalInv'
    <3>1. ASSUME NEW k \in Handlers, req'[k].op \in Renewals
          PROVE  ops[req[k].op] # NoRow \/ ~Newest(req[k].generation)
      <4>1. k # h /\ req[k].op \in Renewals
        BY <1>2, <1>3, <1>4, <3>1
      <4>2. CASE broker.staged = req[k].op
        <5>1. req[k].generation \in Generations /\ creds[req[k].generation].token = broker.token
          BY <4>1, <4>2 DEF RenewalInv, HandlerInv
        <5>2. req[k].generation # result[h]
          BY <1>1, <1>8, <1>11, <5>1 DEF IssueInv
        <5> QED BY <1>1, <2>3, <5>1, <5>2, NewestUnique
      <4> QED BY <4>1, <4>2 DEF RenewalInv
    <3> QED BY <1>1, <1>2, <1>3, <1>4, <1>5, <1>7, <2>1, <3>1 DEF RenewalInv, Superseded, HandlerInv
  <2>5. IssueInv'
    <3>1. ASSUME NEW k \in Handlers, req'[k].op \in Issues PROVE ops[req[k].op] # NoRow
      BY <1>1, <1>2, <1>3, <1>4, <1>8, <1>11, <3>1 DEF IssueInv
    <3> QED BY <1>1, <1>2, <1>3, <1>4, <2>1, <3>1 DEF IssueInv
  <2>6. NewestIsHeld'
    BY <1>1, <1>5, <2>1, <2>3, NewestUnique DEF NewestIsHeld
  <2> QED BY <1>6, <2>2, <2>4, <2>5, <2>6 DEF CallInv
<1> QED BY <1>9, <1>10, <1>11
LEMMA LookupStep ==
  ASSUME IInv, TypeInv', NEW h \in Handlers, lookup_operation(h)
  PROVE  CallInv'
<1> USE DEF IInv
<1>1. CASE Answer(h) /\ Done(h)
  BY <1>1, EndStep DEF lookup_operation
<1>2. CASE ~(Answer(h) /\ Done(h))
  <2>1. /\ UNCHANGED <<database, req, clients>>
        /\ \A k \in Handlers : k # h => pc'[k] = pc[k] /\ result'[k] = result[k]
        /\ pc'[h] = "unknown" \/ (ops[req[h].op] # NoRow /\ result'[h] = ops[req[h].op].result)
    <3>1. CASE pc' = [pc EXCEPT ![h] = "unknown"] /\ UNCHANGED <<database, req, result, clients>>
      <4>1. pc'[h] = "unknown" /\ \A k \in Handlers : k # h => pc'[k] = pc[k]
        BY <3>1 DEF TypeInv, TypeOK
      <4> QED BY <3>1, <4>1
    <3>2. CASE /\ ops[req[h].op] # NoRow
               /\ pc' = [pc EXCEPT ![h] = "acknowledge"]
               /\ result' = [result EXCEPT ![h] = ops[req[h].op].result]
               /\ UNCHANGED <<database, req, clients>>
      BY <3>2 DEF TypeInv, TypeOK
    <3> QED BY <1>2, <3>1, <3>2 DEF lookup_operation
  <2>2. HandlerInv'
    BY <2>1 DEF HandlerInv
  <2> QED BY <2>1, <2>2 DEF CallInv, BrokerInv, RenewalInv, IssueInv, NewestIsHeld,
                            Superseded, Newest, Exists
<1> QED BY <1>1, <1>2

LEMMA TimeoutStep ==
  ASSUME IInv, TypeInv', call_times_out
  PROVE  CallInv'
<1> USE DEF IInv
<1>1. /\ UNCHANGED <<database, handler>>
      /\ broker'.generation = broker.generation /\ broker'.token = broker.token
      /\ broker'.staged = broker.staged /\ broker'.wait \in {broker.wait, Nobody}
      /\ admin'.op = admin.op /\ admin'.wait \in {admin.wait, Nobody}
  <2>1. CASE broker' = [broker EXCEPT !.wait = Nobody] /\ UNCHANGED admin
    BY <2>1 DEF call_times_out, TypeInv, TypeOK
  <2>2. CASE admin' = [admin EXCEPT !.wait = Nobody] /\ UNCHANGED broker
    BY <2>2 DEF call_times_out, TypeInv, TypeOK
  <2> QED BY <2>1, <2>2 DEF call_times_out
<1>2. BrokerInv'
  BY <1>1 DEF BrokerInv
<1> QED BY <1>1, <1>2 DEF CallInv, HandlerInv, RenewalInv, IssueInv, NewestIsHeld,
                          Superseded, Newest, Exists

LEMMA StageStep ==
  ASSUME IInv, TypeInv', NEW o \in Renewals, stage_renewal(o)
  PROVE  CallInv'
<1> USE DEF IInv
<1>1. /\ UNCHANGED <<database, handler, admin>>
      /\ broker'.generation = broker.generation /\ broker'.token = broker.token
      /\ broker'.staged = o /\ broker'.wait = broker.wait
      /\ broker.staged = NoOp /\ broker.token # NoOp /\ ops[o] = NoRow
      /\ \A h \in Handlers : req[h].op # o
  BY DEF stage_renewal, TypeInv, TypeOK
<1>2. BrokerInv'
  BY <1>1 DEF BrokerInv
<1>3. RenewalInv'
  BY <1>1, OpTypes DEF RenewalInv, Superseded, Newest, Exists
<1>4. NewestIsHeld'
  <2> SUFFICES ASSUME NEW g \in Generations, Newest(g)
               PROVE  creds[g].token \in {broker.token, admin.op}
    BY <1>1 DEF NewestIsHeld, Newest, Exists
  <2> QED BY <1>1 DEF NewestIsHeld, Newest, Exists
<1> QED BY <1>1, <1>2, <1>3, <1>4 DEF CallInv, HandlerInv, IssueInv, Newest, Exists

LEMMA SendRenewalStep ==
  ASSUME IInv, TypeInv', NEW h \in Handlers, renew_scoped_credential(h)
  PROVE  CallInv'
<1> USE DEF IInv
<1> DEFINE r == [op |-> broker.staged, generation |-> broker.generation, token |-> broker.token]
<1>1. /\ UNCHANGED <<database, admin, result>>
      /\ pc[h] = "free" /\ pc' = [pc EXCEPT ![h] = "arrived"] /\ req' = [req EXCEPT ![h] = r]
      /\ broker'.generation = broker.generation /\ broker'.token = broker.token
      /\ broker'.staged = broker.staged /\ broker'.wait = h
      /\ broker.staged \in Renewals /\ broker.token # NoOp
  BY OpTypes DEF renew_scoped_credential, Send, TypeInv, TypeOK, BrokerInv
<1>2. /\ pc'[h] = "arrived" /\ req'[h] = r
      /\ \A k \in Handlers : k # h => pc'[k] = pc[k] /\ req'[k] = req[k]
  BY <1>1 DEF TypeInv, TypeOK
<1>3. /\ broker.generation \in Generations
      /\ creds[broker.generation].token = broker.token
      /\ req[h].op = NoOp
  BY <1>1 DEF BrokerInv, TypeInv
<1>4. HandlerInv'
  BY <1>1, <1>2, <1>3 DEF HandlerInv
<1>5. BrokerInv'
  BY <1>1, <1>2, <1>3 DEF BrokerInv, TypeInv, TypeOK
<1>6. RenewalInv'
  <2>1. ASSUME NEW k \in Handlers, req[k].op = broker.staged PROVE req[k] = r
    <3>1. req[k].generation = broker.generation /\ req[k].token = broker.token
      BY <1>1, <2>1 DEF RenewalInv
    <3>2. req[k] \in Request
      BY DEF TypeInv, TypeOK
    <3> QED BY <2>1, <3>1, <3>2 DEF Request
  <2>2. ASSUME ops[broker.staged] # NoRow PROVE ops[broker.staged].request = r
    <3>1. broker.staged \in Ops /\ broker.staged # NoOp
      BY <1>1, OpTypes DEF Ops
    <3>2. /\ ops[broker.staged].request.generation = broker.generation
          /\ ops[broker.staged].request.token = broker.token
          /\ ops[broker.staged].request.op = broker.staged
      BY <2>2, <3>1 DEF RenewalInv, TableInv
    <3>3. ops[broker.staged].request \in Request
      BY <3>1 DEF TypeInv, TypeOK, Operation
    <3> QED BY <3>2, <3>3 DEF Request
  <2>3. /\ \A n \in Generations : Newest(n)' <=> Newest(n)
        /\ \A q : Superseded(q)' <=> Superseded(q)
    BY <1>1 DEF Newest, Exists, Superseded
  <2>4. \A o \in Renewals : ops[o] # NoRow => Superseded(ops[o].request)'
    BY <1>1, <2>3 DEF RenewalInv, Superseded, Newest, Exists
  <2>5. ASSUME NEW k \in Handlers, req'[k].op \in Renewals
        PROVE  /\ ops[req'[k].op] # NoRow => ops[req'[k].op].request = req'[k]
               /\ \A j \in Handlers : req'[j].op = req'[k].op => req'[j] = req'[k]
               /\ broker.staged = req'[k].op =>
                    req'[k].generation = broker.generation /\ req'[k].token = broker.token
               /\ \/ broker.staged = req'[k].op
                  \/ ops[req'[k].op] # NoRow
                  \/ ~Newest(req'[k].generation)
    <3>1. CASE k = h
      BY <1>2, <2>1, <2>2, <3>1
    <3>2. CASE k # h
      BY <1>2, <2>1, <2>5, <3>2 DEF RenewalInv
    <3> QED BY <3>1, <3>2
  <2>6. \A k \in Handlers : req'[k].op \in Renewals => req'[k].generation \in Generations
    BY <1>4 DEF HandlerInv
  <2> QED BY <1>1, <2>3, <2>4, <2>5, <2>6 DEF RenewalInv
<1>7. IssueInv'
  BY <1>1, <1>2, <1>3, OpTypes DEF IssueInv, Newest, Exists
<1> QED BY <1>1, <1>4, <1>5, <1>6, <1>7 DEF CallInv, NewestIsHeld, Newest, Exists

LEMMA SendIssueStep ==
  ASSUME IInv, TypeInv', NEW h \in Handlers, NEW o \in Issues, issue_credential(h, o)
  PROVE  CallInv'
<1> USE DEF IInv
<1>1. /\ UNCHANGED <<database, broker, result>>
      /\ pc[h] = "free"
      /\ admin.op = o \/ (admin.op = NoOp /\ ops[o] = NoRow /\ \A k \in Handlers : req[k].op # o)
  <2>1. UNCHANGED <<database, broker, result>> /\ pc[h] = "free"
    BY DEF issue_credential, Send
  <2>2. admin.op = o \/ (admin.op = NoOp /\ ops[o] = NoRow /\ \A k \in Handlers : req[k].op # o)
    BY DEF issue_credential
  <2> QED BY <2>1, <2>2
<1>0. admin'.op = o /\ admin'.wait = h
  BY DEF issue_credential
<1>2. /\ pc'[h] = "arrived"
      /\ req'[h].op = o /\ req'[h].generation = 0 /\ req'[h].token = NoOp
      /\ \A k \in Handlers : k # h => pc'[k] = pc[k] /\ req'[k] = req[k]
  <2>1. pc' = [pc EXCEPT ![h] = "arrived"] /\ req' = [req EXCEPT ![h] = [NoReq EXCEPT !.op = o]]
    BY DEF issue_credential, Send
  <2>2. pc'[h] = "arrived" /\ req'[h] = [NoReq EXCEPT !.op = o]
    BY <2>1 DEF TypeInv, TypeOK
  <2>3. \A k \in Handlers : k # h => pc'[k] = pc[k] /\ req'[k] = req[k]
    BY <2>1 DEF TypeInv, TypeOK
  <2> QED BY <2>2, <2>3, Fields
<1>3. o \notin Renewals /\ o # NoOp /\ o \in Ops /\ req[h].op = NoOp
  BY <1>1, OpTypes DEF Ops, TypeInv
<1>4. HandlerInv'
  BY <1>1, <1>2, <1>3 DEF HandlerInv
<1>5. BrokerInv'
  BY <1>0, <1>1, <1>2, <1>3 DEF BrokerInv, TypeInv, TypeOK
<1>6. RenewalInv'
  <2>1. /\ \A n \in Generations : Newest(n)' <=> Newest(n)
        /\ \A q : Superseded(q)' <=> Superseded(q)
    BY <1>1 DEF Newest, Exists, Superseded
  <2>2. \A q \in Renewals : ops[q] # NoRow => Superseded(ops[q].request)'
    BY <1>1, <2>1 DEF RenewalInv, Superseded, Newest, Exists
  <2>3. \A k \in Handlers : req'[k].op \in Renewals =>
          req'[k] = req[k] /\ k # h /\ req[k].generation \in Generations
    BY <1>2, <1>3 DEF HandlerInv
  <2> QED BY <1>1, <1>2, <1>3, <2>1, <2>2, <2>3 DEF RenewalInv
<1>7. IssueInv'
  <2>1. ASSUME admin.op # o
        PROVE  ops[o] = NoRow /\ broker.token # o /\ \A k \in Handlers : req[k].token # o
    <3>1. ops[o] = NoRow /\ ops[o].result = 0
      BY <1>1, <2>1 DEF NoRow
    <3>2. \A n \in Generations : creds[n].token # o
      BY <1>3, <3>1 DEF TableInv, Exists, Generations
    <3> QED BY <1>3, <3>1, <3>2 DEF BrokerInv, HandlerInv
  <2>2. \A k \in Handlers : req[k].op \in Issues => admin.op = req[k].op \/ ops[req[k].op] # NoRow
    BY DEF IssueInv
  <2>3. \A k \in Handlers : req'[k].op \in Issues => o = req'[k].op \/ ops[req'[k].op] # NoRow
    BY <1>1, <1>2, <1>3, <2>2, OpTypes
  <2>4. admin.op = o =>
          /\ ops[o] # NoRow => Newest(ops[o].result)
          /\ broker.token # o
          /\ \A k \in Handlers : req[k].token # o
    BY <1>3 DEF IssueInv
  <2> QED BY <1>0, <1>1, <1>2, <1>3, <2>1, <2>3, <2>4 DEF IssueInv, Newest, Exists
<1>8. NewestIsHeld'
  <2> SUFFICES ASSUME NEW g \in Generations, Newest(g)
               PROVE  creds[g].token \in {broker.token, broker.staged, o}
    BY <1>0, <1>1 DEF NewestIsHeld, Newest, Exists
  <2> QED BY <1>1 DEF NewestIsHeld, Newest, Exists
<1> QED BY <1>4, <1>5, <1>6, <1>7, <1>8 DEF CallInv
-----------------------------------------------------------------------------
(***************************************************************************)
(* The invariant, and what follows from it.                                *)
(***************************************************************************)
LEMMA InvInit == Init => IInv
<1> SUFFICES ASSUME Init PROVE IInv
  OBVIOUS
<1> USE CredentialsAssumption DEF CredentialsAssumption
<1>1. /\ \A h \in Handlers : pc[h] = "free" /\ req[h] = NoReq
      /\ NoReq.op = NoOp /\ NoReq.generation = 0 /\ NoReq.token = NoOp
      /\ \A o \in Ops : ops[o] = NoRow
      /\ \A g \in Generations : ~Exists(g)
      /\ broker.token = NoOp /\ broker.staged = NoOp /\ broker.wait = Nobody
      /\ admin.op = NoOp /\ admin.wait = Nobody /\ lease = 0
  BY DEF Init, NoReq, Exists, NoCred
<1>2. TypeInv
  BY <1>1, NullTypes DEF Init, TypeInv, TypeOK
<1>3. TableInv /\ OnlyNewestUsable /\ LeaseFollowsCredential /\ NewestIsHeld
  BY <1>1 DEF TableInv, OnlyNewestUsable, LeaseFollowsCredential, NewestIsHeld, Newest
<1>4. HandlerInv /\ BrokerInv /\ RenewalInv /\ IssueInv
  BY <1>1 DEF HandlerInv, BrokerInv, RenewalInv, IssueInv, Ops
<1> QED BY <1>2, <1>3, <1>4 DEF IInv

(* Steps of the store other than commits.                                  *)
LEMMA StoreStep ==
  ASSUME IInv, TypeInv',
         \/ mark_dns_ready \/ claim_tunnel \/ retire
         \/ \E o \in Renewals : operation_ages(o)
         \/ \E g \in Generations : credential_ages(g)
  PROVE  TablesKept /\ LeaseFollowsCredential' /\ UNCHANGED <<handler, clients>>
<1> USE DEF IInv
<1>1. CASE mark_dns_ready \/ claim_tunnel \/ retire
  <2>1. TablesKept /\ UNCHANGED <<creds, handler, clients>>
    BY <1>1 DEF mark_dns_ready, claim_tunnel, retire, TablesKept, TypeInv, TypeOK
  <2>2. lease' \in {0, lease, generation + 1}
    BY <1>1 DEF mark_dns_ready, claim_tunnel, retire
  <2>3. \A g \in Generations : Exists(g) => g < generation + 1
    <3>1. generation \in Nat /\ Generations \subseteq Nat
      BY CredentialsAssumption DEF CredentialsAssumption, TypeInv, TypeOK, Generations
    <3>2. \A g \in Generations : Exists(g) => g <= generation
      BY DEF TableInv
    <3> QED BY <3>1, <3>2
  <2> QED BY <2>1, <2>2, <2>3 DEF LeaseFollowsCredential, Exists
<1>2. ASSUME NEW o \in Renewals, operation_ages(o)
      PROVE  TablesKept /\ LeaseFollowsCredential' /\ UNCHANGED <<handler, clients>>
  <2>1. UNCHANGED <<generation, creds, lease, handler, clients>> /\ ops[o].fresh /\ o \in Ops
    BY <1>2 DEF operation_ages, Ops
  <2>2. ops' = [ops EXCEPT ![o] = [ops[o] EXCEPT !.fresh = FALSE]]
    BY <1>2 DEF operation_ages
  <2>3. ops'[o] = [ops[o] EXCEPT !.fresh = FALSE] /\ \A q \in Ops : q # o => ops'[q] = ops[q]
    BY <2>1, <2>2 DEF TypeInv, TypeOK
  <2>4. ops'[o].request = ops[o].request /\ ops'[o].result = ops[o].result
    BY <2>1, <2>3, Fields DEF TypeInv, TypeOK
  <2>5. ops[o] # NoRow
    BY <2>1 DEF NoRow
  <2>6. ops'[o] # NoRow
    BY <2>1, <2>4, <2>5 DEF TableInv, NoRow, Generations
  <2>7. TablesKept
    <3>1. generation' >= generation
      BY <2>1, CredentialsAssumption DEF CredentialsAssumption, TypeInv, TypeOK
    <3>2. \A q \in Ops : /\ ops'[q].request = ops[q].request
                         /\ ops'[q].result = ops[q].result
                         /\ ops'[q] = NoRow <=> ops[q] = NoRow
      BY <2>3, <2>4, <2>5, <2>6
    <3> QED BY <2>1, <3>1, <3>2 DEF TablesKept
  <2> QED BY <2>1, <2>7 DEF LeaseFollowsCredential, Exists
<1>3. ASSUME NEW g \in Generations, credential_ages(g)
      PROVE  TablesKept /\ LeaseFollowsCredential' /\ UNCHANGED <<handler, clients>>
  <2>1. UNCHANGED <<generation, ops, lease, handler, clients>>
    BY <1>3 DEF credential_ages
  <2>2. \A n \in Generations : creds'[n].token = creds[n].token /\ creds'[n].revoked = creds[n].revoked
    BY <1>3 DEF credential_ages, TypeInv, TypeOK, Credential
  <2> QED BY <2>1, <2>2 DEF TablesKept, TypeInv, TypeOK, LeaseFollowsCredential, Exists
<1> QED BY <1>1, <1>2, <1>3

(* The steps of handlers and callers that do not commit.                   *)
LEMMA CallStep ==
  ASSUME IInv, TypeInv', UNCHANGED database,
         \/ call_times_out
         \/ \E o \in Renewals : stage_renewal(o)
         \/ \E h \in Handlers :
              \/ lookup_operation(h) \/ issue_bearer(h) \/ renew_bearer(h)
              \/ acknowledge(h) \/ handler_fails(h) \/ renew_scoped_credential(h)
              \/ \E o \in Issues : issue_credential(h, o)
  PROVE  CallInv'
<1>1. ASSUME NEW h \in Handlers, issue_bearer(h) \/ renew_bearer(h) PROVE CallInv'
  <2>1. Answer(h) /\ Done(h)
    <3>1. \A revoked : ~Rotate(req[h], revoked)
      BY DEF Rotate, IInv, TypeInv, TypeOK
    <3> QED BY <1>1, <3>1 DEF issue_bearer, renew_bearer
  <2> QED BY <2>1, EndStep
<1>2. ASSUME NEW h \in Handlers, handler_fails(h) PROVE CallInv'
  BY <1>2, EndStep DEF handler_fails
<1> QED BY <1>1, <1>2, LookupStep, AcknowledgeStep, TimeoutStep, StageStep, SendRenewalStep, SendIssueStep

LEMMA InvStep == IInv /\ [Next]_vars => IInv'
<1> SUFFICES ASSUME IInv, [Next]_vars PROVE IInv'
  OBVIOUS
<1>1. TypeInv'
  BY TypeStep DEF IInv
<1>2. CASE \/ mark_dns_ready \/ claim_tunnel \/ retire
           \/ \E o \in Renewals : operation_ages(o)
           \/ \E g \in Generations : credential_ages(g)
  <2>1. TablesKept /\ LeaseFollowsCredential' /\ UNCHANGED <<handler, clients>>
    BY <1>1, <1>2, StoreStep
  <2>2. TableInv' /\ OnlyNewestUsable'
    BY <1>1, <2>1, KeptFacts DEF IInv
  <2>3. CallInv'
    BY <1>1, <2>1, DatabaseStep
  <2> QED BY <1>1, <2>1, <2>2, <2>3 DEF IInv, CallInv
<1>3. ASSUME NEW h \in Handlers, issue_bearer(h) \/ renew_bearer(h), ~UNCHANGED database
      PROVE  IInv'
  BY <1>1, <1>3, IssueStep, RenewStep DEF IInv, CallInv
<1>4. CASE /\ UNCHANGED database
           /\ \/ call_times_out
              \/ \E o \in Renewals : stage_renewal(o)
              \/ \E h \in Handlers :
                   \/ lookup_operation(h) \/ issue_bearer(h) \/ renew_bearer(h)
                   \/ acknowledge(h) \/ handler_fails(h) \/ renew_scoped_credential(h)
                   \/ \E o \in Issues : issue_credential(h, o)
  <2>1. CallInv'
    BY <1>1, <1>4, CallStep
  <2>2. TableInv' /\ OnlyNewestUsable' /\ LeaseFollowsCredential'
    BY <1>4 DEF IInv, TableInv, OnlyNewestUsable, LeaseFollowsCredential, Newest, Exists
  <2> QED BY <1>1, <2>1, <2>2 DEF IInv, CallInv
<1>5. CASE UNCHANGED vars
  BY <1>5 DEF vars, IInv, TypeInv, TypeOK, TableInv, OnlyNewestUsable, LeaseFollowsCredential,
     HandlerInv, BrokerInv, RenewalInv, IssueInv, NewestIsHeld, Superseded, Newest, Exists
<1>6. ASSUME NEW h \in Handlers,
             \/ lookup_operation(h) \/ acknowledge(h) \/ handler_fails(h)
             \/ renew_scoped_credential(h) \/ \E o \in Issues : issue_credential(h, o)
      PROVE  UNCHANGED database
  BY <1>6 DEF lookup_operation, acknowledge, handler_fails, renew_scoped_credential, issue_credential
<1>7. call_times_out \/ (\E o \in Renewals : stage_renewal(o)) => UNCHANGED database
  BY DEF call_times_out, stage_renewal
<1> QED BY <1>2, <1>3, <1>4, <1>5, <1>6, <1>7 DEF Next

LEMMA Invariant == Spec => []IInv
<1> QED BY InvInit, InvStep, PTL DEF Spec

(* However issues and renewals overlap in their handlers, the only         *)
(* unrevoked credential of the scope is the newest one.                    *)
THEOREM OnlyNewest == Spec => []OnlyNewestUsable
<1>1. IInv => OnlyNewestUsable
  BY DEF IInv
<1> QED BY <1>1, Invariant, PTL

(* No retry, early or late, makes an operation rotate a credential twice.  *)
THEOREM AppliedOnce == Spec => []OperationOnce
<1>1. IInv => OperationOnce
  <2> SUFFICES ASSUME IInv, NEW o \in Ops
               PROVE  Cardinality({g \in Generations : creds[g].token = o}) <= 1
    BY DEF OperationOnce
  <2> DEFINE S == {g \in Generations : creds[g].token = o}
  <2>1. S \in SUBSET {ops[o].result}
    BY CredentialsAssumption DEF CredentialsAssumption, IInv, TableInv, Exists, Ops
  <2>2. IsFiniteSet({ops[o].result}) /\ Cardinality({ops[o].result}) = 1
    BY FS_Singleton
  <2>3. IsFiniteSet(S) /\ Cardinality(S) <= 1
    BY <2>1, <2>2, FS_Subset
  <2> QED BY <2>3
<1> QED BY <1>1, Invariant, PTL

(* Whichever answers are lost, the newest token is in its owner's hands.   *)
THEOREM NewestHeld == Spec => []NewestIsHeld
<1>1. IInv => NewestIsHeld
  BY DEF IInv
<1> QED BY <1>1, Invariant, PTL

(* A lease that stands was claimed after the last rotation.                *)
THEOREM LeaseFenced == Spec => []LeaseFollowsCredential
<1>1. IInv => LeaseFollowsCredential
  BY DEF IInv
<1> QED BY <1>1, Invariant, PTL
-----------------------------------------------------------------------------
(***************************************************************************)
(* The tables implement the register.                                      *)
(***************************************************************************)
Tokens   == {creds[g].token : g \in Good}
Alive    == \E g \in Good : creds[g].age # "dead"
Applied  == {o \in Ops : ops[o] # NoRow}
Replaced == [o \in Renewals |-> {ops[o].request.token} \ {NoOp}]

(* A step that keeps the tables keeps the register, but for its life.      *)
LEMMA RegisterKept ==
  ASSUME TypeInv, TypeInv', TablesKept
  PROVE  /\ Good' = Good /\ UNCHANGED <<Tokens, Applied, Replaced>>
         /\ (\A g \in Generations : creds'[g].age = creds[g].age) => Alive' = Alive
<1>1. Good' = Good
  BY DEF Good, Exists, TablesKept
<1>2. Good \subseteq Generations
  BY DEF Good
<1>3. Tokens' = Tokens
  BY <1>1, <1>2 DEF Tokens, TablesKept
<1>4. Applied' = Applied
  BY DEF Applied, TablesKept
<1>5. Replaced' = Replaced
  BY DEF Replaced, TablesKept, Ops
<1>6. ASSUME \A g \in Generations : creds'[g].age = creds[g].age PROVE Alive' = Alive
  BY <1>1, <1>2, <1>6 DEF Alive
<1> QED BY <1>1, <1>3, <1>4, <1>5, <1>6

(* At most one credential is good.                                         *)
LEMMA OneGood == IInv => \A m, n \in Good : m = n
BY NewestUnique DEF IInv, OnlyNewestUsable, Good

(* Only a good credential's grace running out ends the register's life.    *)
LEMMA RegisterAges ==
  ASSUME IInv, TypeInv', NEW g \in Generations, credential_ages(g)
  PROVE  Alive' = Alive \/ (Alive /\ ~Alive')
<1>1. TablesKept
  BY StoreStep
<1>2. Good' = Good
  BY <1>1, RegisterKept DEF IInv
<1>3. CASE g \in Good
  <2>1. Good = {g}
    BY <1>3, OneGood
  <2>2. Alive <=> creds[g].age # "dead"
    BY <2>1 DEF Alive
  <2>3. creds[g].age # "dead"
    BY DEF credential_ages
  <2>4. Alive' \in BOOLEAN /\ Alive \in BOOLEAN
    BY DEF Alive
  <2> QED BY <2>2, <2>3, <2>4
<1>4. CASE g \notin Good
  <2>1. \A n \in Good : creds'[n] = creds[n]
    BY <1>4 DEF credential_ages, IInv, TypeInv, TypeOK, Good
  <2> QED BY <1>2, <2>1 DEF Alive
<1> QED BY <1>3, <1>4

(* A commit leaves its own credential as the good one.                     *)
LEMMA RegisterCommit ==
  ASSUME IInv, TypeInv', NEW h \in Handlers, NEW revoked,
         req[h].op \in Ops, ops[req[h].op] = NoRow,
         Rotate(req[h], revoked),
         \A n \in Generations : Exists(n) => creds[n].revoked \/ n \in revoked
  PROVE  /\ Tokens' = {req[h].op}
         /\ Alive'
         /\ Applied' = Applied \cup {req[h].op}
         /\ req[h].op \notin Applied
         /\ \A o \in Renewals : Replaced'[o] = IF o = req[h].op THEN {req[h].token} \ {NoOp}
                                               ELSE Replaced[o]
<1> DEFINE r == req[h]
           g == generation + 1
<1>1. r \in Request /\ TypeInv /\ TableInv
  BY DEF IInv, TypeInv, TypeOK
<1>2. /\ g \in Generations
      /\ ~Exists(g)
      /\ creds'[g].token = r.op
      /\ ~creds'[g].revoked
      /\ creds'[g].age = "valid"
      /\ \A n \in Generations : n # g =>
           /\ creds'[n].token = creds[n].token
           /\ creds'[n].revoked <=> (creds[n].revoked \/ n \in revoked)
      /\ ops'[r.op].request = r
      /\ ops'[r.op] # NoRow
      /\ \A o \in Ops : o # r.op => ops'[o] = ops[o]
  BY <1>1, RotateFacts
<1>3. r.op # NoOp
  BY CredentialsAssumption DEF CredentialsAssumption, Ops
<1>4. Good' = {g}
  <2>1. \A n \in Generations : (n \in Good') <=> (creds'[n].token # NoOp /\ ~creds'[n].revoked)
    BY DEF Good, Exists
  <2>2. \A n \in Generations : n # g => n \notin Good'
    BY <1>2, <2>1 DEF Exists
  <2>3. g \in Good'
    BY <1>2, <1>3, <2>1
  <2>4. Good' \subseteq Generations
    BY DEF Good
  <2> QED BY <2>2, <2>3, <2>4
<1>5. Tokens' = {r.op}
  BY <1>2, <1>4 DEF Tokens
<1>6. Alive'
  BY <1>2, <1>4 DEF Alive
<1>7. Applied' = Applied \cup {r.op} /\ r.op \notin Applied
  BY <1>2 DEF Applied
<1>8. ASSUME NEW o \in Renewals
      PROVE  Replaced'[o] = IF o = r.op THEN {r.token} \ {NoOp} ELSE Replaced[o]
  BY <1>2 DEF Replaced, Ops
<1> QED BY <1>5, <1>6, <1>7, <1>8

LEMMA RegisterInit == Init => Register!Init
<1> SUFFICES ASSUME Init PROVE Register!Init
  OBVIOUS
<1>1. \A g \in Generations : ~Exists(g)
  BY DEF Init, NoCred, Exists
<1>2. Good = {}
  BY <1>1 DEF Good
<1>3. \A o \in Ops : ops[o] = NoRow
  BY DEF Init
<1>4. \A o \in Renewals : {ops[o].request.token} \ {NoOp} = {}
  BY <1>3 DEF Ops, NoRow, NoReq
<1> QED BY <1>2, <1>3, <1>4 DEF Register!Init, Init
(* Every step is a step of the register or none: an issue that commits     *)
(* writes it, a renewal that commits swaps what it names, the end of a     *)
(* good credential's grace kills it, and nothing else touches it.          *)
LEMMA RegisterStep == IInv /\ [Next]_vars => [Register!Next]_(Register!register)
<1> SUFFICES ASSUME IInv, [Next]_vars PROVE [Register!Next]_(Register!register)
  OBVIOUS
<1> DEFINE Open == state # "retired"
<1>1. TypeInv' /\ TypeInv
  BY TypeStep DEF IInv
<1>2. ASSUME UNCHANGED <<Tokens, Alive, Applied, Replaced, Open>>
      PROVE  UNCHANGED Register!register
  BY <1>2 DEF Register!register, Tokens, Alive, Applied, Replaced
<1>3. ASSUME UNCHANGED database PROVE UNCHANGED Register!register
  <2>1. TablesKept
    BY <1>1, <1>3, CredentialsAssumption DEF CredentialsAssumption, TablesKept, TypeInv, TypeOK
  <2>2. UNCHANGED <<Tokens, Alive, Applied, Replaced>>
    BY <1>1, <1>3, <2>1, RegisterKept
  <2> QED BY <1>2, <1>3, <2>2
<1>4. CASE mark_dns_ready \/ claim_tunnel \/ \E o \in Renewals : operation_ages(o)
  <2>1. TablesKept
    BY <1>1, <1>4, StoreStep
  <2>2. UNCHANGED creds /\ UNCHANGED Open
    BY <1>4 DEF mark_dns_ready, claim_tunnel, operation_ages
  <2>3. UNCHANGED <<Tokens, Alive, Applied, Replaced>>
    BY <1>1, <2>1, <2>2, RegisterKept
  <2> QED BY <1>2, <2>2, <2>3
<1>5. CASE retire
  <2>1. TablesKept
    BY <1>1, <1>5, StoreStep
  <2>2. UNCHANGED creds /\ Open /\ Open' = FALSE
    BY <1>5 DEF retire
  <2>3. UNCHANGED <<Tokens, Alive, Applied, Replaced>>
    BY <1>1, <2>1, <2>2, RegisterKept
  <2>4. Register!Retire
    BY <2>2, <2>3 DEF Register!Retire, Tokens, Alive, Applied, Replaced
  <2> QED BY <2>4 DEF Register!Next
<1>6. ASSUME NEW g \in Generations, credential_ages(g)
      PROVE  [Register!Next]_(Register!register)
  <2>1. TablesKept
    BY <1>1, <1>6, StoreStep
  <2>2. UNCHANGED <<Tokens, Applied, Replaced, Open>>
    BY <1>1, <1>6, <2>1, RegisterKept DEF credential_ages
  <2>3. CASE Alive' = Alive
    BY <1>2, <2>2, <2>3
  <2>4. CASE Alive /\ ~Alive'
    <3>1. Alive' = FALSE
      BY <2>4 DEF Alive
    <3>2. Register!Die
      BY <2>2, <2>4, <3>1 DEF Register!Die, Tokens, Alive, Applied, Replaced
    <3> QED BY <3>2 DEF Register!Next
  <2> QED BY <1>1, <1>6, <2>3, <2>4, RegisterAges
<1>7. ASSUME NEW h \in Handlers, issue_bearer(h), ~UNCHANGED database
      PROVE  Register!Next
  <2>0. PICK o \in Issues : o = req[h].op
    BY <1>7 DEF issue_bearer
  <2>1. /\ o \in Issues /\ o \in Ops /\ ops[o] = NoRow /\ Open
        /\ Rotate(req[h], {n \in Generations : Exists(n)})
    BY <1>7, <2>0 DEF issue_bearer, Ops
  <2>2. /\ Tokens' = {o} /\ Alive' /\ Applied' = Applied \cup {o} /\ o \notin Applied
        /\ \A q \in Renewals : Replaced'[q] = IF q = o THEN {req[h].token} \ {NoOp} ELSE Replaced[q]
    BY <1>1, <2>0, <2>1, RegisterCommit
  <2>3. Open' = Open /\ Alive' = TRUE
    BY <2>1, <2>2 DEF Rotate, Alive
  <2>4. Replaced' = Replaced
    BY <1>1, <2>1, <2>2, OpTypes DEF Replaced
  <2>5. Register!Issue(o)
    BY <2>1, <2>2, <2>3, <2>4
       DEF Register!Issue, Register!Write, Tokens, Alive, Applied, Replaced
  <2> QED BY <2>1, <2>5 DEF Register!Next
<1>8. ASSUME NEW h \in Handlers, renew_bearer(h), ~UNCHANGED database
      PROVE  Register!Next
  <2> DEFINE r == req[h]
  <2>0. PICK o \in Renewals : o = r.op
    BY <1>8 DEF renew_bearer
  <2>1. o \in Renewals /\ o \in Ops /\ MayRenew(r) /\ Rotate(r, {r.generation})
    BY <1>8, <2>0 DEF renew_bearer, Ops
  <2>2. ops[o] = NoRow
    BY <2>0, <2>1, RenewIsFirst
  <2>3. r.generation \in Good /\ creds[r.generation].token = r.token /\ Open
        /\ creds[r.generation].age # "dead" /\ r.token # NoOp
    BY <2>1 DEF MayRenew, Newest, Exists, Good
  <2>4. Good = {r.generation}
    BY <2>3, OneGood
  <2>5. Tokens = {r.token} /\ Alive
    BY <2>3, <2>4 DEF Tokens, Alive
  <2>6. \A n \in Generations : Exists(n) => creds[n].revoked \/ n \in {r.generation}
    BY <2>4 DEF Good
  <2>7. /\ Tokens' = {o} /\ Alive' /\ Applied' = Applied \cup {o} /\ o \notin Applied
        /\ \A q \in Renewals : Replaced'[q] = IF q = o THEN {r.token} \ {NoOp} ELSE Replaced[q]
    BY <1>1, <2>0, <2>1, <2>2, <2>6, RegisterCommit
  <2>8. Open' = Open /\ Alive' = TRUE
    BY <2>1, <2>7 DEF Rotate, Alive
  <2>9. Replaced' = [Replaced EXCEPT ![o] = Tokens]
    <3>1. {r.token} \ {NoOp} = Tokens
      BY <2>3, <2>5
    <3>2. \A q \in Renewals : Replaced'[q] = IF q = o THEN Tokens ELSE Replaced[q]
      BY <2>7, <3>1
    <3> QED BY <2>1, <3>2 DEF Replaced
  <2>10. Register!Renew(o)
    BY <2>3, <2>5, <2>7, <2>8, <2>9
       DEF Register!Renew, Register!Write, Tokens, Alive, Applied, Replaced
  <2> QED BY <2>1, <2>10 DEF Register!Next
<1>9. ASSUME NEW h \in Handlers,
             \/ lookup_operation(h) \/ acknowledge(h) \/ handler_fails(h)
             \/ renew_scoped_credential(h) \/ \E o \in Issues : issue_credential(h, o)
      PROVE  UNCHANGED database
  BY <1>9 DEF lookup_operation, acknowledge, handler_fails, renew_scoped_credential, issue_credential
<1>10. call_times_out \/ (\E o \in Renewals : stage_renewal(o)) => UNCHANGED database
  BY DEF call_times_out, stage_renewal
<1>11. CASE UNCHANGED vars
  BY <1>3, <1>11 DEF vars
<1> QED BY <1>3, <1>4, <1>5, <1>6, <1>7, <1>8, <1>9, <1>10, <1>11 DEF Next

(* Issues and renewals are writes and compare-and-swaps of one register,   *)
(* however many handlers try them and whatever answers are lost.           *)
THEOREM AtomicRegister == Spec => ImplementsRegister
<1> QED BY RegisterInit, RegisterStep, Invariant, PTL DEF Spec, ImplementsRegister, Register!Spec
=============================================================================
