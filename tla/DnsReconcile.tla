---------------------------- MODULE DnsReconcile ----------------------------
(***************************************************************************)
(* The DNS outbox of one installation: the transactions of the store that  *)
(* queue DNS work (bloom-relay-store), the serving and challenge workers   *)
(* that carry it out (bloom-relay-control/src/dns_worker.rs), and the DNS  *)
(* zone they write (bloom-relay-dns).                                      *)
(*                                                                         *)
(* One installation is enough: every transaction, job, lock and DNS name   *)
(* below belongs to exactly one installation.                              *)
(*                                                                         *)
(* A worker attempt is a sequence of awaits; each one is a step here, so   *)
(* any transaction may commit between two of them:                         *)
(*   idle -> claimed (outbox row locked) -> locked (advisory lock held)    *)
(*        -> [target ->] write (provider listed) -> requests -> observe    *)
(*        -> [mark ->] complete | defer                                    *)
(***************************************************************************)
EXTENDS Naturals, FiniteSets

CONSTANTS
  Placements,       \* gateway sites; a site's workers write its addresses
  Uris,             \* ACME account URIs
  NoUri,            \* acme_account_uri IS NULL
  Values,           \* DNS-01 TXT values
  MaxLive,          \* MAX_LIVE_CHALLENGE_VALUES
  Workers,          \* DNS worker tasks
  PlacementOf,      \* the placement each worker is configured with
  ScopeOf,          \* the DnsJobScope each worker is configured with
  Nobody,           \* no worker: the advisory lock is free
  MaxJobs,          \* bound: outbox rows ever inserted
  Provider,         \* the DNS provider of the zone
  ConnectionLoss    \* whether a claim's database connection may be lost

ASSUME DnsAssumption ==
  /\ NoUri \notin Uris
  /\ Nobody \notin Workers
  /\ MaxLive \in Nat
  /\ MaxJobs \in Nat
  /\ PlacementOf \in [Workers -> Placements]
  /\ ScopeOf \in [Workers -> {"serving", "challenge"}]
  /\ Provider \in {"route53", "cloudflare"}
  /\ ConnectionLoss \in BOOLEAN
  /\ IsFiniteSet(Values)

VARIABLES
  state,      \* installations.state, "absent" before allocate
  placement,  \* installations.placement
  uri,        \* installations.acme_account_uri
  kind,       \* outbox: the kind of each row
  status,     \* outbox: "none", "due", "backoff" or "done"
  lock,       \* holder of pg_advisory_xact_lock(installation)
  values,     \* challenge_values: "absent", "live" or "lapsed"
  revision,   \* challenge_state.revision
  ready,      \* challenge_state.ready_revision
  name,       \* zone: A/AAAA and CAA records of the hostname
  txt,        \* zone: TXT values of _acme-challenge.<hostname>
  pc,         \* where each worker is
  job,        \* the outbox row each worker has claimed
  plan,       \* the records each worker is to publish
  planRev,    \* the challenge revision each worker read with its plan
  listed      \* what each worker's listing of the name showed, and its own
              \* requests since

installation == <<state, placement, uri>>
outbox       == <<kind, status>>
challenge    == <<values, revision, ready>>
zone         == <<name, txt>>
worker       == <<pc, job, plan, planRev, listed>>
vars == <<installation, outbox, lock, challenge, zone, worker>>

Jobs  == 1 .. MaxJobs
Kinds == {"publish_name", "remove_records", "reconcile_txt", "remove_txt_all"}

-----------------------------------------------------------------------------
(***************************************************************************)
(* DNS records.                                                            *)
(***************************************************************************)
IssueWild == <<"issuewild", "deny">>

(* The desired records of a name: the ingress addresses of its placement   *)
(* and the two CAA records, account authorization and wildcard denial.     *)
NameRecords(p, u) == {<<"addr", p>>, <<"issue", u>>, IssueWild}

Record == ({"addr"} \X Placements) \cup ({"issue"} \X Uris) \cup {IssueWild}

(* Slip: the account authorization goes out before the wildcard denial.    *)
MutCreateRank(r) == CASE r[1] = "issue"     -> 0
                      [] r[1] = "issuewild" -> 1
                      [] OTHER              -> 2

create_rank(r) == CASE r[1] = "issuewild" -> 0
                    [] r[1] = "issue"     -> 1
                    [] OTHER              -> 2

delete_rank(r) == CASE r[1] = "issue"     -> 0
                    [] r[1] = "issuewild" -> 2
                    [] OTHER              -> 1

-----------------------------------------------------------------------------
(***************************************************************************)
(* The outbox.                                                             *)
(***************************************************************************)
Unused == {j \in Jobs : status[j] = "none"}

(* The id the sequence of the outbox yields next.                          *)
IsNext(j) == j \in Unused /\ \A i \in Unused : j <= i

(* INSERT INTO outbox: the row gets the next id and is due at once.        *)
Queue(k) ==
  \E j \in Jobs :
    /\ IsNext(j)
    /\ kind' = [kind EXCEPT ![j] = k]
    /\ status' = [status EXCEPT ![j] = "due"]

(* Both cleanup jobs of a retired installation.                            *)
QueueCleanup ==
  \E j \in Jobs :
    /\ IsNext(j)
    /\ j + 1 \in Unused
    /\ kind' = [kind EXCEPT ![j] = "remove_records", ![j + 1] = "remove_txt_all"]
    /\ status' = [status EXCEPT ![j] = "due", ![j + 1] = "due"]

(* A claim's transaction is alive from the row lock until it is recorded,  *)
(* unless its connection was lost after it had got the advisory lock.      *)
HoldsClaim(w) == pc[w] = "claimed" \/ lock = w

RowLocked(j) == \E w \in Workers : HoldsClaim(w) /\ job[w] = j

job_allowed(scope, k) ==
  \/ scope = "serving"   /\ k \in {"publish_name", "remove_records"}
  \/ scope = "challenge" /\ k \in {"reconcile_txt", "remove_txt_all"}

Claimable(w) ==
  {j \in Jobs : /\ status[j] = "due"
                /\ job_allowed(ScopeOf[w], kind[j])
                /\ ~RowLocked(j)}

-----------------------------------------------------------------------------
(***************************************************************************)
(* Transactions of the store.                                              *)
(***************************************************************************)
allocate(p) ==
  /\ state = "absent"
  /\ state' = "pending_dns"
  /\ placement' = p
  /\ Queue("publish_name")
  /\ UNCHANGED <<uri, lock, challenge, zone, worker>>

(* Slip: binding an account is thought to need no publication of its own.  *)
MutRegister(u) ==
  /\ state \in {"pending_dns", "dns_ready"}
  /\ uri' = u
  /\ UNCHANGED <<state, placement, outbox, lock, challenge, zone, worker>>

(* Takes the installation row, not the advisory lock: it may commit while  *)
(* a worker is publishing the previous account.                            *)
register_acme_account(u) ==
  /\ state \in {"pending_dns", "dns_ready"}
  /\ uri' = u
  /\ Queue("publish_name")
  /\ UNCHANGED <<state, placement, lock, challenge, zone, worker>>

Stored == {v \in Values : values[v] # "absent"}
Lapsed == {v \in Values : values[v] = "lapsed"}

(* The values of D leave the set and those of A join it, at a new revision *)
(* with a reconciliation of its own.                                       *)
challenge_set_changed(D, A) ==
  /\ values' = [x \in Values |-> IF x \in A THEN "live"
                                 ELSE IF x \in D THEN "absent"
                                 ELSE values[x]]
  /\ revision' = revision + 1
  /\ Queue("reconcile_txt")
  /\ UNCHANGED ready

(* Slip: <= for < in the live count.                                       *)
MutEnsure(v) ==
  /\ state = "dns_ready"
  /\ \E D \in SUBSET Lapsed :
       \/ /\ v \in Stored \ D
          /\ values' = [values EXCEPT ![v] = "live"]
          /\ UNCHANGED <<outbox, revision, ready>>
       \/ /\ v \notin Stored \ D
          /\ Cardinality(Stored \ D) <= MaxLive
          /\ challenge_set_changed(D, {v})
  /\ UNCHANGED <<installation, lock, zone, worker>>

(* now() is when the transaction began, which may be well before it got    *)
(* the installation row: of the values that have lapsed by now it takes    *)
(* only some, D, for expired. A value it takes for live is refreshed at    *)
(* the revision the set has, back from lapsed if need be; any other joins  *)
(* the set and D leaves it.                                                *)
ensure_challenge_value(v) ==
  /\ state = "dns_ready"
  /\ \E D \in SUBSET Lapsed :
       \/ /\ v \in Stored \ D
          /\ values' = [values EXCEPT ![v] = "live"]
          /\ UNCHANGED <<outbox, revision, ready>>
       \/ /\ v \notin Stored \ D
          /\ Cardinality(Stored \ D) < MaxLive
          /\ challenge_set_changed(D, {v})
  /\ UNCHANGED <<installation, lock, zone, worker>>

(* Time passes: expires_at <= now().                                       *)
lapse(v) ==
  /\ values[v] = "live"
  /\ values' = [values EXCEPT ![v] = "lapsed"]
  /\ UNCHANGED <<installation, outbox, lock, revision, ready, zone, worker>>

(* The sweep; its now() too may be older than some lapses.                 *)
expire_challenge_values ==
  /\ \E D \in SUBSET Lapsed : D # {} /\ challenge_set_changed(D, {})
  /\ UNCHANGED <<installation, lock, zone, worker>>

(* The sweep of an allocation older than 24 hours; it takes the advisory   *)
(* lock and re-checks the state under it.                                  *)
expire_pending_allocations ==
  /\ lock = Nobody
  /\ state = "pending_dns"
  /\ state' = "retired"
  /\ QueueCleanup
  /\ UNCHANGED <<placement, uri, lock, challenge, zone, worker>>

(* Slip: only the serving records are queued for removal.                  *)
MutRetire ==
  /\ lock = Nobody
  /\ state \in {"pending_dns", "dns_ready"}
  /\ state' = "retired"
  /\ Queue("remove_records")
  /\ values' = [x \in Values |-> "absent"]
  /\ UNCHANGED <<placement, uri, lock, revision, ready, zone, worker>>

retire ==
  /\ lock = Nobody
  /\ state \in {"pending_dns", "dns_ready"}
  /\ state' = "retired"
  /\ QueueCleanup
  /\ values' = [x \in Values |-> "absent"]
  /\ UNCHANGED <<placement, uri, lock, revision, ready, zone, worker>>

(* Slip: the move does not wait for the installation's advisory lock.      *)
MutRelocate(p) ==
  /\ state = "dns_ready"
  /\ p # placement
  /\ placement' = p
  /\ Queue("publish_name")
  /\ UNCHANGED <<state, uri, lock, challenge, zone, worker>>

relocate(p) ==
  /\ lock = Nobody
  /\ state = "dns_ready"
  /\ p # placement
  /\ placement' = p
  /\ Queue("publish_name")
  /\ UNCHANGED <<state, uri, lock, challenge, zone, worker>>

(* A deferred job's next_attempt_at passes.                                *)
backoff_over(j) ==
  /\ status[j] = "backoff"
  /\ status' = [status EXCEPT ![j] = "due"]
  /\ UNCHANGED <<installation, kind, lock, challenge, zone, worker>>

-----------------------------------------------------------------------------
(***************************************************************************)
(* One attempt of a worker.                                                *)
(***************************************************************************)
Goto(w, l) == pc' = [pc EXCEPT ![w] = l]

(* SELECT ... FOR UPDATE SKIP LOCKED: the lowest due id of its scope, when *)
(* the installation is placed at this worker's site.                       *)
claim_job(w) ==
  /\ pc[w] = "idle"
  /\ placement = PlacementOf[w]
  /\ \E j \in Claimable(w) :
       /\ \A i \in Claimable(w) : j <= i
       /\ job' = [job EXCEPT ![w] = j]
  /\ Goto(w, "claimed")
  /\ UNCHANGED <<installation, outbox, lock, challenge, zone, plan, planRev, listed>>

(* pg_advisory_xact_lock, in the same transaction.                         *)
claim_lock(w) ==
  /\ pc[w] = "claimed"
  /\ lock = Nobody
  /\ lock' = w
  /\ Goto(w, "locked")
  /\ UNCHANGED <<installation, outbox, challenge, zone, job, plan, planRev, listed>>

(* Slip: an installation that has not bound an account is published.       *)
MutPublish(w) ==
  /\ pc[w] = "locked"
  /\ kind[job[w]] = "publish_name"
  /\ \/ /\ state = "retired"
        /\ Goto(w, "complete")
        /\ UNCHANGED plan
     \/ /\ state # "retired"
        /\ placement = PlacementOf[w]
        /\ Goto(w, "write")
        /\ plan' = [plan EXCEPT ![w] = NameRecords(PlacementOf[w], uri)]
  /\ UNCHANGED <<installation, outbox, lock, challenge, zone, job, planRev, listed>>

(* dns_identity for the publishing kinds: a retired installation or one    *)
(* without an account needs nothing; a moved one is left to its new site.  *)
process_publish(w) ==
  /\ pc[w] = "locked"
  /\ kind[job[w]] = "publish_name"
  /\ \/ /\ state = "retired" \/ uri = NoUri
        /\ Goto(w, "complete")
        /\ UNCHANGED plan
     \/ /\ state # "retired" /\ uri # NoUri
        /\ placement # PlacementOf[w]
        /\ Goto(w, "defer")
        /\ UNCHANGED plan
     \/ /\ state # "retired" /\ uri # NoUri
        /\ placement = PlacementOf[w]
        /\ Goto(w, "write")
        /\ plan' = [plan EXCEPT ![w] = NameRecords(PlacementOf[w], uri)]
  /\ UNCHANGED <<installation, outbox, lock, challenge, zone, job, planRev, listed>>

process_reconcile(w) ==
  /\ pc[w] = "locked"
  /\ kind[job[w]] = "reconcile_txt"
  /\ \/ /\ state = "retired" \/ uri = NoUri
        /\ Goto(w, "complete")
     \/ /\ state # "retired" /\ uri # NoUri
        /\ Goto(w, IF placement = PlacementOf[w] THEN "target" ELSE "defer")
  /\ UNCHANGED <<installation, outbox, lock, challenge, zone, job, plan, planRev, listed>>

(* Slip: lapsed values are left out of the set to publish.                 *)
MutTarget(w) ==
  /\ pc[w] = "target"
  /\ plan' = [plan EXCEPT ![w] = Stored \ Lapsed]
  /\ planRev' = [planRev EXCEPT ![w] = revision]
  /\ Goto(w, "write")
  /\ UNCHANGED <<installation, outbox, lock, challenge, zone, job, listed>>

(* The revision and every stored value, lapsed ones included, in one       *)
(* snapshot.                                                               *)
challenge_target(w) ==
  /\ pc[w] = "target"
  /\ plan' = [plan EXCEPT ![w] = Stored]
  /\ planRev' = [planRev EXCEPT ![w] = revision]
  /\ Goto(w, "write")
  /\ UNCHANGED <<installation, outbox, lock, challenge, zone, job, listed>>

(* retired_hostname for the removing kinds.                                *)
process_remove(w) ==
  /\ pc[w] = "locked"
  /\ kind[job[w]] \in {"remove_records", "remove_txt_all"}
  /\ plan' = [plan EXCEPT ![w] = {}]
  /\ Goto(w, IF state = "retired" THEN "write" ELSE "complete")
  /\ UNCHANGED <<installation, outbox, lock, challenge, zone, job, planRev, listed>>

(* Providers refuse a challenge set larger than the limit.                 *)
validate_challenge_values(S) == Cardinality(S) <= MaxLive

Acceptable(w) ==
  kind[job[w]] = "reconcile_txt" => validate_challenge_values(plan[w])

(* The records an attempt is about: of the name, or of its challenge name. *)
Serving(w) == job_allowed("serving", kind[job[w]])

Zone(w) == IF Serving(w) THEN name ELSE txt

WriteZone(w, S) ==
  IF Serving(w) THEN name' = S /\ txt' = txt ELSE txt' = S /\ name' = name

Missing(w) == plan[w] \ listed[w]
Stale(w)   == listed[w] \ plan[w]

(* The provider has answered; S is what the worker now takes the name to   *)
(* hold. The call returns when that is the plan.                           *)
Answered(w, S) ==
  IF S = plan[w]
  THEN Goto(w, "observe") /\ listed' = [listed EXCEPT ![w] = {}]
  ELSE Goto(w, "requests") /\ listed' = [listed EXCEPT ![w] = S]

(* Every call of a provider starts by listing the name. Route 53 then      *)
(* sends its batch in any case, but for a removal that finds nothing.      *)
provider_list(w) ==
  /\ pc[w] = "write"
  /\ Acceptable(w)
  /\ IF Provider = "route53" /\ plan[w] # {}
     THEN Goto(w, "requests") /\ listed' = [listed EXCEPT ![w] = Zone(w)]
     ELSE Answered(w, Zone(w))
  /\ UNCHANGED <<installation, outbox, lock, challenge, zone, job, plan, planRev>>

(* Cloudflare, one request per record. reconcile_serving creates all that  *)
(* is missing by rank before it deletes; set_challenge deletes first.      *)
provider_create(w) ==
  /\ pc[w] = "requests"
  /\ Provider = "cloudflare"
  /\ Serving(w) \/ Stale(w) = {}
  /\ \E r \in Missing(w) :
       /\ Serving(w) => \A s \in Missing(w) : create_rank(r) <= create_rank(s)
       /\ WriteZone(w, Zone(w) \cup {r})
       /\ Answered(w, listed[w] \cup {r})
  /\ UNCHANGED <<installation, outbox, lock, challenge, job, plan, planRev>>

(* A record that is gone meanwhile is an error (attempt_fails).            *)
provider_delete(w) ==
  /\ pc[w] = "requests"
  /\ Provider = "cloudflare"
  /\ Serving(w) => Missing(w) = {}
  /\ \E r \in Stale(w) \cap Zone(w) :
       /\ Serving(w) => \A s \in Stale(w) : delete_rank(r) <= delete_rank(s)
       /\ WriteZone(w, Zone(w) \ {r})
       /\ Answered(w, listed[w] \ {r})
  /\ UNCHANGED <<installation, outbox, lock, challenge, job, plan, planRev>>

(* Route 53, one atomic batch: UPSERTs that replace whole record sets, or  *)
(* DELETEs of exactly the sets that were listed.                           *)
provider_batch(w) ==
  /\ pc[w] = "requests"
  /\ Provider = "route53"
  /\ plan[w] = {} => Zone(w) = listed[w]
  /\ WriteZone(w, plan[w])
  /\ Answered(w, plan[w])
  /\ UNCHANGED <<installation, outbox, lock, challenge, job, plan, planRev>>

Visible(w) ==
  CASE kind[job[w]] \in {"publish_name", "remove_records"} -> name = plan[w]
    [] kind[job[w]] = "reconcile_txt" -> IF plan[w] = {} THEN txt = {} ELSE plan[w] \subseteq txt
    [] OTHER -> txt = {}

(* The resolvers show the change.                                          *)
observe_visible(w) ==
  /\ pc[w] = "observe"
  /\ Visible(w)
  /\ Goto(w, IF kind[job[w]] \in {"publish_name", "reconcile_txt"} THEN "mark" ELSE "complete")
  /\ UNCHANGED <<installation, outbox, lock, challenge, zone, job, plan, planRev, listed>>

(* Any await of an attempt fails, whether or not its request took effect,  *)
(* or the change is not visible yet.                                       *)
attempt_fails(w) ==
  /\ pc[w] \in {"locked", "target", "write", "requests", "observe", "mark"}
  /\ Goto(w, "defer")
  /\ listed' = [listed EXCEPT ![w] = {}]
  /\ UNCHANGED <<installation, outbox, lock, challenge, zone, job, plan, planRev>>

mark_dns_ready(w) ==
  /\ pc[w] = "mark"
  /\ kind[job[w]] = "publish_name"
  /\ state' = IF state = "pending_dns" /\ uri # NoUri THEN "dns_ready" ELSE state
  /\ Goto(w, "complete")
  /\ UNCHANGED <<placement, uri, outbox, lock, challenge, zone, job, plan, planRev, listed>>

mark_challenge_reconciled(w) ==
  /\ pc[w] = "mark"
  /\ kind[job[w]] = "reconcile_txt"
  /\ ready' = IF revision = planRev[w] THEN planRev[w] ELSE ready
  /\ Goto(w, "complete")
  /\ UNCHANGED <<installation, outbox, lock, values, revision, zone, job, plan, planRev, listed>>

(* The attempt is over and its locals are dropped.                         *)
Release(w) ==
  /\ Goto(w, "idle")
  /\ job' = [job EXCEPT ![w] = 0]
  /\ plan' = [plan EXCEPT ![w] = {}]
  /\ planRev' = [planRev EXCEPT ![w] = 0]
  /\ listed' = [listed EXCEPT ![w] = {}]

(* ClaimedJob::complete and ::defer commit the claim's transaction, which  *)
(* releases the row and the advisory lock.                                 *)
complete(w) ==
  /\ pc[w] = "complete"
  /\ lock = w
  /\ status' = [status EXCEPT ![job[w]] = "done"]
  /\ lock' = Nobody
  /\ Release(w)
  /\ UNCHANGED <<installation, kind, challenge, zone>>

(* Slip: a failed attempt uses the job up.                                 *)
MutDefer(w) ==
  /\ pc[w] = "defer"
  /\ lock = w
  /\ status' = [status EXCEPT ![job[w]] = "done"]
  /\ lock' = Nobody
  /\ Release(w)
  /\ UNCHANGED <<installation, kind, challenge, zone>>

defer(w) ==
  /\ pc[w] = "defer"
  /\ lock = w
  /\ status' = [status EXCEPT ![job[w]] = "backoff"]
  /\ lock' = Nobody
  /\ Release(w)
  /\ UNCHANGED <<installation, kind, challenge, zone>>

(* The outcome is not recorded, or the process dies: the claim rolls back, *)
(* the job keeps its schedule, and whatever reached the zone stays there.  *)
rollback(w) ==
  /\ pc[w] # "idle"
  /\ lock' = IF lock = w THEN Nobody ELSE lock
  /\ Release(w)
  /\ UNCHANGED <<installation, outbox, challenge, zone>>

(* The claim's own connection dies under an attempt. The server rolls the  *)
(* claim back; the worker goes on, because every other await of the        *)
(* attempt uses the provider, the resolvers or another pooled connection.  *)
lose_connection(w) ==
  /\ ConnectionLoss
  /\ lock = w
  /\ lock' = Nobody
  /\ UNCHANGED <<installation, outbox, challenge, zone, worker>>

-----------------------------------------------------------------------------
Init ==
  /\ state = "absent"
  /\ placement \in Placements
  /\ uri = NoUri
  /\ kind = [j \in Jobs |-> "none"]
  /\ status = [j \in Jobs |-> "none"]
  /\ lock = Nobody
  /\ values = [v \in Values |-> "absent"]
  /\ revision = 0
  /\ ready = 0
  /\ name = {}
  /\ txt = {}
  /\ pc = [w \in Workers |-> "idle"]
  /\ job = [w \in Workers |-> 0]
  /\ plan = [w \in Workers |-> {}]
  /\ planRev = [w \in Workers |-> 0]
  /\ listed = [w \in Workers |-> {}]

(* What the API, the operator and the sweeper do. *)
Requests ==
  \/ \E p \in Placements : allocate(p) \/ relocate(p)
  \/ \E u \in Uris : register_acme_account(u)
  \/ \E v \in Values : ensure_challenge_value(v) \/ lapse(v)
  \/ expire_challenge_values
  \/ expire_pending_allocations
  \/ retire

Progress(w) ==
  \/ claim_job(w)
  \/ claim_lock(w)
  \/ process_publish(w)
  \/ process_reconcile(w)
  \/ challenge_target(w)
  \/ process_remove(w)
  \/ provider_list(w)
  \/ provider_create(w)
  \/ provider_delete(w)
  \/ provider_batch(w)
  \/ observe_visible(w)
  \/ mark_dns_ready(w)
  \/ mark_challenge_reconciled(w)
  \/ complete(w)

Failure(w) ==
  \/ attempt_fails(w)
  \/ defer(w)
  \/ rollback(w)
  \/ lose_connection(w)

Next ==
  \/ Requests
  \/ \E j \in Jobs : backoff_over(j)
  \/ \E w \in Workers : Progress(w) \/ Failure(w)

Spec == Init /\ [][Next]_vars

(* An await of the attempt that cannot succeed as things stand.            *)
Hopeless(w) ==
  \/ pc[w] = "write" /\ ~Acceptable(w)
  \/ pc[w] = "requests" /\ IF Provider = "cloudflare" THEN ~(Stale(w) \subseteq Zone(w))
                           ELSE plan[w] = {} /\ Zone(w) # listed[w]
  \/ pc[w] = "observe" /\ ~Visible(w)

(***************************************************************************)
(* Fairness, one conjunct per kind of await: the worker loops run forever, *)
(* and an await the workers come back to again and again succeeds for one  *)
(* of them in the end (the provider, the resolvers and the database        *)
(* recover); PostgreSQL grants a lock to its waiters in turn; back-off     *)
(* delays are finite. An await that can only answer no does so, and an     *)
(* outcome that cannot be recorded because the claim's connection is gone  *)
(* ends the attempt. What the API, the operator and the sweeper do is      *)
(* never forced, and no failure is that could still be a success.          *)
(***************************************************************************)
Fairness ==
  /\ WF_vars(\E j \in Jobs : backoff_over(j))
  /\ WF_vars(\E w \in Workers : claim_job(w))
  /\ SF_vars(\E w \in Workers : claim_lock(w))
  /\ SF_vars(\E w \in Workers : process_publish(w) \/ process_reconcile(w) \/ process_remove(w))
  /\ SF_vars(\E w \in Workers : challenge_target(w))
  /\ SF_vars(\E w \in Workers : provider_list(w))
  /\ SF_vars(\E w \in Workers : provider_create(w) \/ provider_delete(w) \/ provider_batch(w))
  /\ SF_vars(\E w \in Workers : observe_visible(w))
  /\ SF_vars(\E w \in Workers : mark_dns_ready(w) \/ mark_challenge_reconciled(w))
  /\ SF_vars(\E w \in Workers : complete(w))
  /\ WF_vars(\E w \in Workers : Hopeless(w) /\ attempt_fails(w))
  /\ WF_vars(\E w \in Workers : defer(w))
  /\ WF_vars(\E w \in Workers :
       pc[w] \in {"complete", "defer"} /\ lock # w /\ rollback(w))

-----------------------------------------------------------------------------
(***************************************************************************)
(* Properties.                                                             *)
(***************************************************************************)
PCs == {"idle", "claimed", "locked", "target", "write", "requests", "observe",
        "mark", "complete", "defer"}

(* Every variable keeps the shape its table, zone or task gives it.        *)
TypeOK ==
  /\ state \in {"absent", "pending_dns", "dns_ready", "retired"}
  /\ placement \in Placements
  /\ uri \in Uris \cup {NoUri}
  /\ kind \in [Jobs -> Kinds \cup {"none"}]
  /\ status \in [Jobs -> {"none", "due", "backoff", "done"}]
  /\ lock \in Workers \cup {Nobody}
  /\ values \in [Values -> {"absent", "live", "lapsed"}]
  /\ revision \in Nat
  /\ ready \in Nat
  /\ name \in SUBSET Record
  /\ txt \in SUBSET Values
  /\ pc \in [Workers -> PCs]
  /\ job \in [Workers -> Jobs \cup {0}]
  /\ plan \in [Workers -> SUBSET (Record \cup Values)]
  /\ planRev \in [Workers -> Nat]
  /\ listed \in [Workers -> SUBSET (Record \cup Values)]

Incomplete(k) == {j \in Jobs : kind[j] = k /\ status[j] \in {"due", "backoff"}}

(* challenge_value_ready answers yes for v (and any revision it was        *)
(* returned with): live, and the current revision was observed.            *)
challenge_value_ready(v) ==
  /\ values[v] = "live"
  /\ ready = revision

(* A value the relay reports ready is published: between the worker's      *)
(* snapshot, its write, the observation and the mark, any number of        *)
(* ensures, lapses, refreshes of lapsed values, sweeps, moves and failed   *)
(* attempts may have committed.                                            *)
ReadyValueIsPublished ==
  \A v \in Values : challenge_value_ready(v) => v \in txt

(* Once no publish_name job is outstanding, the name of a ready            *)
(* installation carries its current placement's addresses and its current  *)
(* ACME account: no registration or move is ever lost to an attempt that   *)
(* read the installation before it.                                        *)
NameSettles ==
  state = "dns_ready" /\ Incomplete("publish_name") = {}
    => name = NameRecords(placement, uri)

(* Cleanup is final: after a retired installation's removal job is done    *)
(* its records are gone and no attempt in flight brings them back.         *)
CleanupIsFinal ==
  state = "retired" =>
    /\ Incomplete("remove_records") = {} => name = {}
    /\ Incomplete("remove_txt_all") = {} => txt = {}

(* A move or a retirement cannot overtake an attempt: whoever is about to  *)
(* write or observe a name published for this site still serves it.        *)
MoveNeverOvertakesWrite ==
  \A w \in Workers :
    /\ pc[w] \in {"write", "requests", "observe", "mark"}
    /\ kind[job[w]] = "publish_name"
    => state # "retired" /\ placement = PlacementOf[w]

(* The stored set never outgrows what providers accept, lapsed members     *)
(* included, so a reconciliation is never refused for good.                *)
StoredSetIsPublishable == validate_challenge_values(Stored)

(* Whatever a failed or interrupted write leaves behind, an account        *)
(* authorization never stands in the zone without the wildcard denial.     *)
(* The ranks order the requests of one attempt only.                       *)
AuthorizationCarriesDenial ==
  (\E u \in Uris : <<"issue", u>> \in name) => IssueWild \in name

(* A retired installation's records are eventually removed.                *)
RetiredNameGoes == (state = "retired") ~> (name = {} /\ txt = {})

(* A bound account is eventually published, unless the allocation is       *)
(* retired first.                                                          *)
BoundNameBecomesReady ==
  (state = "pending_dns" /\ uri # NoUri) ~> (state \in {"dns_ready", "retired"})

(* A live challenge value eventually becomes ready, unless it lapses or    *)
(* goes with its installation.                                             *)
LiveValueBecomesReady ==
  \A v \in Values :
    (values[v] = "live") ~> (challenge_value_ready(v) \/ values[v] # "live")
=============================================================================
