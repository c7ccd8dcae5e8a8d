# Bloom Relay in TLA+

Bloom Relay gives a home installation a public host name. It allocates the name
and publishes its DNS records, lets the installation's own TLS stack obtain
certificates by DNS-01, and carries browsers' TLS streams to it through a tunnel
that the installation opens. The relay never terminates the TLS it forwards, so
what it must get right is not secrecy but *ownership over time*: which
installation a name, a challenge value, a tunnel or a bearer belongs to while
registrations, rotations, moves, retirements, crashes and restores overlap.

This directory models that: seven component modules, two abstract
specifications that components are shown to implement, the TLC configurations
that check them on small instances, and for each component a module of
machine-checked proofs (`...Proofs`), in which every safety property of the
passing runs, the action properties and both refinements among them, is proved
for all values of the constants. `PROJECT.json` maps every definition to the source lines it
stands for, and lists the runs, the mutants that show each property can fail,
the hazards, the findings and the theorems.

## 1. Inventory

| Component (source) | State | Operations | What makes it correct |
|---|---|---|---|
| Installations and DNS outbox (`bloom-relay-store/src/lib.rs`) | `installations`, `outbox`, `challenge_values`, `challenge_state`, advisory lock | allocate, register_acme_account, ensure_challenge_value, expiry sweeps, retire, relocate, claim_job, complete, defer | no change is lost to an attempt that read the state before it; cleanup is final |
| DNS workers (`bloom-relay-control/src/dns_worker.rs`) | the claimed job and the plan read for it | claim, publish, reconcile, remove, observe, mark | an attempt ends with the zone and the tables agreeing, or is repeated |
| DNS providers, observer (`bloom-relay-dns`) | the zone | Route 53 batches, Cloudflare record by record, observation | an interrupted write leaves no authorization without its wildcard denial |
| Gateway (`bloom-relay/src/main.rs`) | tunnel map, ticket map, connection and lifecycle tasks | POST /v1/tunnel, CONNECT, heartbeats, browser connections | a browser reaches the owner of the name, under a generation that is not fenced |
| Leases and generations (store) | `tunnel_leases`, `installations.generation` | claim_tunnel, renew_tunnel, tunnel_is_current | one current holder; rotation, move and retirement fence it |
| Scoped credentials (store, control API, client) | `scoped_bearer_credentials`, `operations`, the Broker's staged files | issue, renew, authenticate, replay | retries rotate once; the newest bearer stays in its owner's hands |
| Restore witness (`restore.rs`, `s3_witness.rs`) | fence revision, host file, S3 object, cached remote revision | verify_and_advance at start, per request and each second | a restored database that lacks an acknowledged transition is not served |
| Bootstrap admission (store, control API) | `bootstrap_challenges`, the quota lock, allocation `operations` | create_bootstrap_challenge, consume_bootstrap_challenge, allocate, prune | quotas hold in every window under races; an operation id allocates once |
| Certificate Transparency monitor (`bloom-relay-ct`, `ct.rs`) | feed checkpoint, observations, alerts | tick, observe_ct, deliver | no certificate is skipped; every alert is delivered at least once |
| Wire protocol (`bloom-relay-protocol`) | ControlDecoder's buffer | validation, signatures, frames | any chunking decodes to the same frames |
| Tunnel client (`bloom-relay-client`) | the run and its readiness, decoder buffer, stream tasks and permits, credential file | run_until_ready, open_stream, into_fatal_error, renew_scoped_credential | an ended or fenced tunnel is replaced; an OPEN is served at most once |
| Replay nonces, ingress quota, PROXY v2 parser, receipt signer, metrics, admin client, migrations, smoke test | little or none | pure or one-shot | unit and property tests fit better |

Components interact through PostgreSQL (row locks, one advisory lock per
installation, transactions), through HTTP/2 control connections between client
and gateway, through channels and cancellation flags between the gateway's own
tasks, and through a file lock and an S3 object between services and hosts.

The hard behaviours, all listed as hazards in `PROJECT.json` at the line where
they bite: every await between a check and the effect that relies on it; writes
to DNS that stop half way; a worker that dies after it changed the zone; claims
reaching the gateway's map out of order; retries that overlap their first
attempt; answers lost after the commit; two hosts advancing one witness; and
waiting for ever.

## 2. Plan

| Order | Module | State |
|---|---|---|
| 1 | `DnsReconcile`, `DnsReconcileProofs` | modelled, checked, proved |
| 2 | `TunnelGateway`, `TunnelGatewayProofs` | modelled, checked, proved |
| 3 | `RestoreWitness`, `RestoreWitnessProofs` | modelled, checked, proved |
| 4 | `Credentials`, `CredentialsProofs` | modelled, checked, proved |
| 5 | `CtMonitor`, `CtMonitorProofs` | modelled, checked, proved |
| 6 | `Admission`, `AdmissionProofs` | modelled, checked, proved |
| 7 | `TunnelClient`, with the control decoder, `TunnelClientProofs` | modelled, checked, proved |
| 8 | `CredentialRegister`, implemented by `Credentials`; `ControlChannel`, implemented by `TunnelClient` | stated, refinements checked and proved |
| 9 | on one host, that a refusal of the witness is genuine | next |

"Proved" stands for the safety properties; liveness is model-checked throughout.

`TunnelGateway`, `Credentials` and `TunnelClient` share the generation, the
lease and the bearer. The first treats a rotation as one step, the second opens
that step up, and the third sees both from the client's end, with as much of the
gateway and of the credentials as the client meets.

## 3. The modules

All modules follow one rule: everything between two awaits, or between taking a
row lock and committing, is one step; everything that may happen at an await
(another task, a failure, a crash) is another step.

### DnsReconcile

One installation, since every row, lock, job and DNS name belongs to exactly
one. `state`, `placement`, `uri` are its row; `kind` and `status` are the outbox
(`backoff` is a row whose `next_attempt_at` is in the future); `lock` is the
advisory lock; `values`, `revision`, `ready` are the challenge tables (`lapsed`:
expired but not yet swept); `name` and `txt` are the zone.

The request actions carry the store's names: `allocate`,
`register_acme_account`, `ensure_challenge_value`, `expire_challenge_values`,
`expire_pending_allocations`, `retire`, `relocate`. `retire` and `relocate` wait
for the advisory lock, as `lock_installation_dns` does; the registration and the
challenge calls do not, as in the code.

`now()` is when a transaction began, which may be before it got the row. So
`ensure_challenge_value` and the sweep take only some, `D`, of the values that
have lapsed for expired. A value that an ensure takes for live is refreshed at
the revision the set already has, which brings a lapsed one back: the race the
comment at store `lib.rs:771-774` speaks of, and the reason why
`challenge_target` reads lapsed values too. The second look at the bearer
(`lib.rs:687-691`) is left out; it only refuses more.

A worker attempt is `claim_job` (the outbox row, `FOR UPDATE SKIP LOCKED`),
`claim_lock`, `process_*`, `challenge_target`, the provider's requests,
`observe_visible`, `mark_*` and `complete` or `defer`; `attempt_fails` and
`rollback` may intervene at any of them. Every provider call starts with
`provider_list`. Cloudflare (`Provider = "cloudflare"`) then takes one request,
and one step, per record, `provider_create` or `provider_delete`, in the order of
the ranks; `listed` is what the listing showed plus the attempt's own requests
since, for the attempt decides by that and not by what the zone holds meanwhile.
An attempt may stop between any two requests. Route 53 sends one atomic
`provider_batch`. Left out: record contents (an address record per placement
stands for them, and Cloudflare's PATCH of a record that differs only in its TTL
or proxy flag for none), record ids and duplicates, pagination, and the refusal
to touch foreign records. Route 53 sets a challenge without listing first; the
model's listing is not used there.

`lose_connection` is the loss of the database connection that owns the claim.
PostgreSQL then frees the row and the advisory lock, while the worker, whose
other awaits use other connections, goes on. The constant `ConnectionLoss` says
whether this is allowed.

### TunnelGateway

`active`, `placement`, `generation`, `bearer`, `lease` are the store;
`tunnels` and `tickets` are the two maps of each gateway; `pc` and `req` are the
control connections, `lifecycles` the `tunnel_lifecycle` tasks, `browser` the
browser connections (`attached` until `bridge` ends). POST /v1/tunnel is
`post_authenticate`, `claim_tunnel`,
`insert_tunnel`; CONNECT is `connect_authenticate`, `connect_check` (map, then
lease), `take_ticket`, `connect_recheck` (map, then lease again), `send_claim`.
`connection_fails` ends a control connection at any point and stops its
lifecycles. Tickets and authorities presented by a peer are arbitrary. History
fields (`stale`, `via`, the bearer of a lease) are read by properties only.
Left out: semaphores, the pre-authentication deadline, the ingress quota, the
ClientHello's bytes and the bridged bytes.

### RestoreWitness

`db` is the sequence of security transitions the database holds (so a restore is
a shorter prefix, and later commits *reuse* revision numbers); `local` and
`remote` are the host files and the S3 object; `seen` is the cached remote
revision. `verify_and_advance` is `verify_lock`, `verify_db`, `verify_remote`,
`verify_write`, `verify_local`, with `verify_error` for every error path,
`verify_write_lost` for a put whose answer is lost, and `crash` at any point.
Checkers have no remote witness, as the periodic task has none in the code.
`crash` is the death of a process, `host_rollback` a host replaced by or rolled
back to an older image.

`restore` happens while the services are stopped, which is the documented
procedure (`src/docs/package.md:141-142`). The code is ready for more: a running
service that finds its database below its witness refuses
(`src/docs/operations.md:43-44`, `tests/postgres.rs:809-846`). That refusal is in
the model (`verify_error`); a restore under a running service is not, since
nothing is promised of requests that are in the middle of it.

### Credentials

The tunnel scope of one installation. `creds` and `ops` are tables; a handler
looks the operation id up (`lookup_operation`) and later, under the installation
row, applies it (`issue_bearer`, `renew_bearer`), then waits for the
acknowledgement. The Broker stages a token and an operation id before it calls,
and promotes them on a receipt; the administrator repeats its issue with one
operation id. `claim_tunnel` is the store's transaction alone; the bearer was
checked in an earlier one, a split that `TunnelGateway` is about. Calls time out while their handler is still at work, and answers
are lost. `operation_ages` closes the five-minute replay window;
`credential_ages` moves a bearer into its grace and out of it.

### CtMonitor

One source. `position`, `stale` are its checkpoint row, `observed` the
observations, `alert` and `lagAlert` the two alert tables, `inventory` the
certificates a Broker reported; `log` is what the feed has and `received` what
the sink accepted, both external. A tick is `tick` (read the checkpoint),
`fetch` or `fetch_unavailable`, one `observe_ct` per entry,
`mark_ct_feed_healthy`, `queue_ct_lag_alert`, then for each kind of alert
`pending_*`, `post_alert`, `mark_ct_alert_delivered`. `tick_fails` ends the tick
at any await, before or after that await's effect, and covers the death of the
process. Two workers may serve one source, as when one process replaces
another, so a batch may have been observed by somebody else in the meantime.
`Malformed` are the certificates whose host name or fingerprint `observe_ct`
refuses; `Limit` stands for the 100 of a batch and of a delivery round;
`MaxFailures` bounds the ticks that fail or die. The
feed is append-only; a feed that rewrites its history is left out.

### Admission

The bootstrap challenges of all sources and the enrolments they pay for.
`now` is the database's clock, the one place in this project where time is a
number: the quotas are windows over it. Issuing a challenge is
`challenge_begin` (the transaction and with it `now()`), `challenge_count` (the
quota lock, then the three counts, with the `now()` of the beginning) and
`challenge_insert`. `enroll` is the single UPDATE of
`consume_bootstrap_challenge`; `allocate_lookup`, `allocate_create` and
`enroll_receipt` follow it, each after an await. A client may enrol with any
operation id. `operation` is the table of operation rows and `receipts` every
receipt ever signed; two handlers may both find an operation unknown, and it is
the primary key, the guard of `allocate_create`, that refuses the second. `handler_fails` ends a handler
at any of these, `relocate` may move the installation between them,
`prune_bootstrap_and_nonces` deletes old history. Rows are kept in `challenge`
after they are pruned (`pruned`), so that properties can speak of all challenges
ever issued while the code counts only `Rows`.

Two refusals are left out, since they change nothing: an enrolment whose
challenge is unknown, used or expired (410), and one whose signature or source
does not match. `MaxStall` bounds how long a transaction may wait with its
`now()` in hand; the assumption `MaxStall + Day + Minute <= Retention + 1` is
what the code's two-day retention gives for any wait under a day.

### TunnelClient and ControlChannel

One run of `run_until_ready` after another. `current`, `file` are the accepted
credential and the one in the client's file; `pc`, `held`, `ready` the run;
`link`, `gateway`, `lease` what the other side is doing; `written`, `wire`,
`pending`, `acted` the control stream from the gateway's write to the loop's
action; `streams`, `finished` the JoinSet. `frame(n)` takes the next `n` bytes as
one DATA frame: `TooLarge`, `InvalidEncoding`, `Decoded` and `Rest` are
`ControlDecoder::push` as functions of the buffer and the frame. An OPEN gets a
task if it is unexpired by the client's clock (left open) and a permit is free;
the task is `send_request`, `open_stream`, `stream_ends`, and `join_next` asks
`into_fatal_error` whether its result ends the tunnel. `Return` is what every way
out of a run has in common.

`ControlChannel` is what the control stream promises: the events acted on are a
prefix of those written, and the session restarts as a whole. The refinement
mapping is the identity on `written` and `acted`; bytes, frames and the buffer
are hidden.

### CredentialRegister

What `Credentials` promises: one register with an atomic write (issue) and a
compare-and-swap (renew), each operation at most once. The mapping reads the
register off the tables: the tokens of unrevoked rows, the operations with a
row, and what each renewal's request named as the credential it replaces.

## 4. Runs

| Run | Checks | Instance |
|---|---|---|
| `dns_safety` | `TypeOK`, `NameSettles`, `CleanupIsFinal`, `MoveNeverOvertakesWrite`, `AuthorizationCarriesDenial`, `ReadyValueIsPublished`, `StoredSetIsPublishable` | Cloudflare, 2 sites, 2 serving and 2 challenge workers, 2 accounts, 3 interchangeable values for 2 places, 3 jobs |
| `dns_live` | `RetiredNameGoes`, `BoundNameBecomesReady`, `LiveValueBecomesReady` | Cloudflare, 1 site, both kinds of worker, 3 jobs |
| `dns_lossy_live` | `LiveValueBecomesReady` with connection loss | Route 53, 2 challenge workers of one site, whose attempts may overlap, 2 jobs |
| `tunnel_routing` | `ExactRouting`, `TicketClaimedOnce`, `NoAttachAfterFence`, `DisplacedOnlyByNewer` | 2 installations, 1 gateway, 2 connections, 1 browser, 2 generations used |
| `tunnel_fence` | `NoAttachAfterFence`, `FencedTunnelGoes`, `ClosedConnectionDrains`, `BrowserSettles` | 1 installation, 2 gateways with a connection each, 1 browser, 2 generations used |
| `tunnel_rotation` | `RotationFencesOldSessions` is violated | as `tunnel_fence` |
| `witness` | `AcknowledgedIsWitnessed`, `ServedHoldsAcknowledged`, `WitnessNeverLowered` | 2 hosts, 2 request tasks, 1 checker, 3 commits |
| `credentials` | `OnlyNewestUsable`, `OperationOnce`, `NewestIsHeld`, `LeaseFollowsCredential`, `ImplementsRegister` | 2 issues, 2 renewals, 2 handlers, 6 generations |
| `ct` | `NoIssuanceMissed`, `DeliveredWasReceived`, `LagIsReported`, `AlertsAreDelivered` | 2 workers, 2 entries, 2 quarter hours, 1 failing tick |
| `admission` | `TypeOK`, `IssuanceWithinQuota`, `EnrolmentsPerDayBounded`, `OneInstallationPerOperation`, `ReceiptNamesOwnInstallation` | 2 clients, 2 operation ids, 2 handlers, 2 sites, quotas 2, 2 and 1, 3 challenges, 6 units of time |
| `admission_cap` | `DailyCapHolds` is violated | as `admission` |
| `tunnel_client` | `TypeOK`, `ImplementsControlChannel`, `TunnelComesBack`, `RetiredTunnelIsReplaced` | 4 events of 2 bytes, frames of up to 5, 2 permits, 2 credentials, 3 faults |

Bounds. `MaxJobs` is the number of outbox rows ever inserted. Three are too few
to get from an unallocated installation through a move to a retirement, so
behaviours start either at `Init` or at a ready installation with an empty
outbox (`Settled` in `MCDns`), a state the relay returns to whenever all its jobs
are done: from there three rows hold a publication or a move and the two cleanup
jobs of a retirement, or a re-registration between two changes of the challenge
set, in any order. The proofs have no such bound.
`MaxLive` is 2 with 3 values, so that the limit is reached while lapsed values
still count. Every operation that consumes a generation can happen twice after
enrolment, whose allocation and first bearer take the first two: a claim and the
rotation that fences it, or two claims. In `tunnel_routing` the two installations
share them (`TwoGenerations` in `MCTunnelRouting`). `MaxCommits = 3` gives a
commit, a restore that forgets it and commits that reuse its number; `RemoteAttempts` is 2 rather than 4, so that
exhausted attempts are reached with two hosts. In `ct` two entries and two
workers give batches of no, one and two entries, replays of each, a gap, and an
alert queued while the other worker delivers; two quarter hours tell the lag
alert of one from that of the next; the failing tick may fail at any await. In
`admission` a minute and a day are two units each and the retention four, so that
a window can be entered, left and entered again, a transaction can count with a
clock one unit old, and the oldest rows are pruned, all within six units. A
source gets two challenges in a minute and one enrolment in a day, so that it can
hold a challenge more than the day allows and the bound of
`EnrolmentsPerDayBounded`, `Daily + Local - 1`, is reached. Local and global
quota are equal here, so the source's own never binds first; `IssuanceBounded`
proves both for all values. Two operation ids, two keys and two handlers give
overlapping attempts at one operation by one or by two clients, beside the other
operation's. In `tunnel_client` an event is two bytes, so that a frame may end inside one, at its end, or hold two and a
half; the decoder's bound equals the largest frame, as it does in the code, so a
full frame behind a partial line is refused; three OPENs for two permits exhaust
them; three faults are a loss, a GOAWAY and a shutdown in any order. Challenge
values, in `credentials` operations and handlers, and in `admission` clients,
handlers and operation ids are interchangeable and used as symmetry sets, in
runs without liveness.

`TypeOK` of `TunnelGateway`, `RestoreWitness`, `Credentials` and `CtMonitor`
documents the shape of the state and is part of the invariant their proofs rest on; no run lists it.

Deadlock is not checked: a relay whose jobs are done and whose bounds are used
up waits, and is meant to. Where waiting for ever would be wrong, a liveness
property says so.

### Fairness

*DNS.* The worker loops never end, so a job that can be claimed is (weak
fairness), and each kind of await (the lock, the identity, the target, the
listing, the requests, the observation, the mark, the record) is strongly fair
over the workers together: an await they come back to again and again succeeds
for some worker in the end. This states that the provider, the resolvers and the
database recover, without which nothing the relay does could succeed. Back-off
ends, an await that can only answer no as things stand (`Hopeless`: a record to
delete is gone, a batch names sets that have changed, the zone does not show the
plan) fails, and a claim whose connection is gone ends its attempt because its
commit fails (all weak fairness). No request is forced, and no failure that could
still be a success.

*Gateway.* Tokio runs the tasks that are ready: the heartbeat interval ticks, a
stop flag is noticed, lifecycles exit, a drained connection is dropped, the
deadlines of a browser (setup, bridge) pass. No peer, browser or operator has to act and
no lease has to expire.

*CT monitor.* The loop of `main` goes on after every error and HTTP calls have
timeouts, so each worker keeps stepping (weak fairness per worker), with finitely
many failed ticks. The feed may be away for ever: `fetch_unavailable` counts as
a step. No certificate has to be issued and no time has to pass.

*Tunnel client.* The loop polls every branch of its `select!`, stream tasks are
scheduled, requests and streams have timeouts, the supervisor starts the next run
when one returns, and the gateway answers and renews its lease every 15 seconds.
That Broker gets the receipt of a renewal in the end and installs the credential
is assumed of the environment: the client only repeats the call, and the store
answers a repetition for five minutes (`lib.rs:528`, see section 6). Nothing makes a gateway
write, a link fail or a credential rotate.

## 5. What is proved

Every theorem is about the specification a run checks, without its fairness,
and holds for all values of the constants that satisfy the module's named
assumption. TLC evaluates these assumptions on every run. They give constants
their types, keep the marks for "none" apart from real members, and say what the
code has fixed: among the numbers the quotas and windows of admission, the
length of an event, the attempts at the S3 object and the number of permits are
not zero. Bounds such as `MaxGeneration`, `MaxTime` or `MaxJobs` may be any
number that leaves room for the initial state, so what is proved has no bound.
The inductive invariants were model-checked on small instances before they were
proved.

| Module | Theorem | Statement | Assumes also |
|---|---|---|---|
| `DnsReconcileProofs` | `TypeCorrect` | `Spec => []TypeOK` | |
| | `Publishable` | `Spec => []StoredSetIsPublishable` | |
| | `DenialCarried` | `Spec => []AuthorizationCarriesDenial` | `~ConnectionLoss` |
| | `NoOvertaking` | `Spec => []MoveNeverOvertakesWrite` | `~ConnectionLoss` |
| | `NameSettled` | `Spec => []NameSettles` | `~ConnectionLoss` |
| | `CleanupFinal` | `Spec => []CleanupIsFinal` | `~ConnectionLoss` |
| | `ReadyPublished` | `Spec => []ReadyValueIsPublished` | `~ConnectionLoss` |
| `TunnelGatewayProofs` | `TypeCorrect` | `Spec => []TypeOK` | |
| | `RoutedExactly` | `Spec => []ExactRouting` | |
| | `ClaimedOnce` | `Spec => []TicketClaimedOnce` | |
| | `FencedNotAttached` | `Spec => []NoAttachAfterFence` | |
| | `NewerStays` | `Spec => DisplacedOnlyByNewer` | |
| `RestoreWitnessProofs` | `TypeCorrect` | `Spec => []TypeOK` | |
| | `AckWitnessed` | `Spec => []AcknowledgedIsWitnessed` | |
| | `ServedHolds` | `Spec => ServedHoldsAcknowledged` | `Covered` |
| | `NeverLowered` | `Spec => WitnessNeverLowered` | |
| `CredentialsProofs` | `OnlyNewest` | `Spec => []OnlyNewestUsable` | |
| | `AppliedOnce` | `Spec => []OperationOnce` | |
| | `NewestHeld` | `Spec => []NewestIsHeld` | |
| | `LeaseFenced` | `Spec => []LeaseFollowsCredential` | |
| | `AtomicRegister` | `Spec => ImplementsRegister` | |
| `CtMonitorProofs` | `NothingMissed` | `Spec => []NoIssuanceMissed` | |
| | `DeliveredReceived` | `Spec => []DeliveredWasReceived` | |
| | `SinkHears` | `Spec => []SinkHearsOnlyAlerts` | |
| `AdmissionProofs` | `TypeCorrect` | `Spec => []TypeOK` | |
| | `IssuanceBounded` | `Spec => []IssuanceWithinQuota` | |
| | `DayBounded` | `Spec => []EnrolmentsPerDayBounded` | |
| | `AllocatedOnce` | `Spec => []OneInstallationPerOperation` | |
| | `OwnReceipt` | `Spec => []ReceiptNamesOwnInstallation` | |
| `TunnelClientProofs` | `TypeCorrect` | `Spec => []TypeOK` | |
| | `DecodesTheChannel` | `Spec => ImplementsControlChannel` | |
| | `NeverMalformed` | `Spec => []NothingMalformed` | |

### DnsReconcile

The five theorems about the zone rest on one inductive invariant, `IInv`. None of
them is inductive alone: that the name is right when no job is left depends on
what an attempt still in flight is going to write. The argument is:

* an attempt past its claim owns the advisory lock (`LockInv`) and its own due
  row (`RowInv`), so at most one attempt writes, and what it has listed is what
  the name holds;
* what the attempt read under the lock still holds when it writes
  (`AttemptInv`), since moves and retirements need the lock, except for the two
  things the lock does not cover: a registration, which leaves *another*
  `publish_name` job behind, and a change of the challenge set, which moves its
  revision, so that the attempt's mark no longer matches;
* a refresh that brings a lapsed value back does *not* move the revision. It is
  harmless because the plan of an attempt whose revision is current is the whole
  stored set, lapsed values included (`ReconcileInv`): the value was never left
  out;
* hence the zone is right or a job that will put it right is outstanding
  (`SettleInv`, `CleanInv`), and `ready = revision` only while the stored set is
  in the zone (`ReadyInv`);
* between two requests of an attempt, the denial is in the zone whenever an
  authorization is (`DenialInv`): by the ranks it is created before and deleted
  after, and by the lock nobody else deletes it in between.

`~ConnectionLoss` is exactly what `LockInv` needs. With `ConnectionLoss = TRUE`
TLC refutes `MoveNeverOvertakesWrite`, `NameSettles`, `CleanupIsFinal`,
`ReadyValueIsPublished` and `AuthorizationCarriesDenial` (section 6); what stays
is `TypeCorrect`, `Publishable`, which counts the stored values, lapsed ones
included, at each insertion, and that the outbox goes on (`dns_lossy_live`).

### TunnelGateway

A browser's stream is found through a ticket that moves from a map into a
request's hands, with the checks before and after the move made at different
times. `TicketInv` and `HoldInv` say that in both places it names what its
browser looked up; with `TicketClaimedOnce` they carry `ExactRouting`. For the
fence, no generation that was claimed, published or looked up is ahead of its
installation's (`GenerationInv`), so one that is not current never becomes
current again (`StaleInv`): a request that took its ticket too late fails its
second check, whatever happens in between. `DisplacedOnlyByNewer` needs that a
claimed generation is with the claiming request or with one lifecycle
(`LifecycleInv`); without it the end of one lifecycle could remove an entry that
another one stands for.

### RestoreWitness

After a restore, revision numbers are used again for other transitions, so no
comparison of numbers says by itself what the database holds. The invariant says
what each number in a task's hands is good for (`TaskInv`): the revision it read
is not above the database's, not below the witnesses it has been compared with,
and past the transition the task will acknowledge. A witness above the
database's revision is the trace of a restore, and while there is one no process
is past its startup check (`StuckInv`), so that nothing is committed and the lost
revisions are not used again; hence what was acknowledged is in the database or
such a trace exists (`HeldInv`).

`Covered` is `UseRemote` or a single host. It is what the deployment has to
provide: with two hosts that have only their files TLC finds a run in which a
host without a file serves a database restored to its first revision.

### Credentials

Between looking an operation up and applying it a handler holds nothing, so two
attempts may both find it unknown. Rows correspond to each other (`TableInv`),
a handler carries what its caller sent (`HandlerInv`), and all attempts at one
renewal carry the same request (`RenewalInv`): so a renewal that took effect has
replaced the credential that every other attempt names, and those are refused.
For `NewestIsHeld`, an issue that took effect stays the newest until the
administrator has the receipt, since nobody else has its token yet
(`IssueInv`).

`AtomicRegister` is step simulation: `Init` maps to the register's, the commits
of `issue_bearer` and `renew_bearer` to its write and its swap, the last ageing
of the good credential and a retirement to its own steps for them, and
everything else, retries and replays included, to stuttering. It uses `IInv` for
the swap: that the credential replaced is the one the request names.

### CtMonitor

`NoIssuanceMissed` is inductive once a batch lies inside the feed (`BatchInv`).
`DeliveredWasReceived` needs that the alert a worker is about to mark is the
least of those it has in hand, and is with the sink (`PostedInv`). `SinkHears`
adds the converse direction: nothing is posted that was not queued (`HandInv`),
and nothing is queued ahead of the checkpoint or the clock (`QueuedInv`).

### Admission

The quotas are counts over windows of time made by transactions whose `now()` is
older than rows already there. `IssueInv` says what a transaction that has
counted may rely on until it inserts: the lock is its own (`LockInv`), nothing
was inserted since, and nothing it had to count was pruned (`ClockInv`, where
`MaxStall + Day + Minute <= Retention + 1` is used). `EnrolmentsPerDayBounded`
is not inductive: enrolments are counted when a challenge is issued and happen
later. `DayInv` therefore counts a challenge from its issue until it lapses or a
day after its use, for every moment up to now; using it adds none to any of
these counts.

For the allocation, `EnrolInv` says that every installation is named by an
operation row, that an answer in a handler's hands names what its operation's row
names and an installation of the requester's key, and that every receipt agrees
with its row. A row is written only where there is none, so none of this is
undone by an attempt that looked the operation up too early.

### TunnelClient

The bytes the decoder keeps, followed by those on the wire, are the beginning of
the encoding of the events written and not yet acted on, and the whole of it
while the connection is up; the decoder keeps less than one event (`StreamInv`).
A frame then decodes to the next events of that backlog and leaves a remainder
of the same kind, for every length of event and every place it is cut, which is
the refinement of `ControlChannel`, step by step. `NothingMalformed` says that
no frame so cut reads as malformed. `PhaseInv` says that before a run has posted
there is no session, `TaskInv` that stream tasks are of OPENs and finitely many.

### NaturalLemmas

Induction over data is out of reach with the provers used here: the library's
rules take the statement as an operator. `NaturalLemmas` goes around this with
the library's theorem on least elements of well-founded orders, which takes sets
only: a least counterexample serves in the place of an induction. It gives the
least and greatest element of a set of numbers (which `Min` and `Max` need),
division with remainder, and the number of whole events in a buffer.

### Only model-checked

The liveness properties, since fairness and `ENABLED` are outside the prover:
`RetiredNameGoes`, `BoundNameBecomesReady`, `LiveValueBecomesReady`,
`FencedTunnelGoes`, `ClosedConnectionDrains`, `BrowserSettles`, `LagIsReported`,
`AlertsAreDelivered`, `TunnelComesBack` and `RetiredTunnelIsReplaced`.
`RotationFencesOldSessions` and `DailyCapHolds` are the safety properties without
a theorem: TLC refutes them (section 6).

## 6. Findings

* `tunnel_rotation`: "Credential rotation must fence old sessions"
  (`src/README.md:178`), but POST /v1/tunnel authenticates and claims in two
  transactions. A rotation in between finds no lease to delete, and the revoked
  bearer's session then claims one and keeps renewing it. Seen from the client
  (`late` in `TunnelClient`), such a tunnel reads as ready while every CONNECT
  over it is refused, since CONNECT authenticates the bearer again.

* `admission_cap`: "capped at [...] 20 completed enrollments per source IP per
  day" (`src/docs/operations.md:55-57`, store `lib.rs:301-304`), but the day's
  enrolments are counted when a challenge is issued and never when one is used:
  all challenges a source holds when its count stands one below the quota are
  still good. It can complete `Daily + Local - 1` in a day, 29 rather than 20;
  `EnrolmentsPerDayBounded` says that it is never more, and is proved.

Also seen, without a run:

* The advisory lock of a claim goes with its database connection, while the
  attempt goes on over the provider's own connections and learns of it only when
  it records its outcome. With `ConnectionLoss = TRUE` TLC finds that a move then
  overtakes a claimed write, which the comment at `relocate` (store
  `lib.rs:1106-1107`) rules out: a publication for the old site loses its
  connection, the move commits, the publication goes on
  (`MoveNeverOvertakesWrite`).
* In the same situation Cloudflare's ranks do not protect the wildcard denial,
  since each attempt works off its own listing: a publication that lost its lock
  lists a name on which a removal has only left `issuewild`, the removal deletes
  it, and the publication creates `issue` alone (`AuthorizationCarriesDenial`;
  `cloudflare.rs:285-286` states the order as the safeguard).
* "15 minutes without a successful batch queues a separate lag alert"
  (`src/docs/wire.md:149-150`), but an entry that `observe_ct` refuses ends the
  tick before the lag alert is queued and before pending alerts of either kind
  are delivered, and every later tick fetches the same entry again: the source
  stands still in silence. This is the exception `Refused` of `LagIsReported`
  and `AlertsAreDelivered`: without it TLC refutes both.
* `MAX_CONTROL_BODY` is 16 KiB (`bloom-relay-protocol/src/lib.rs`), which is also
  HTTP/2's default largest frame: a full frame that arrives behind a partial line
  is refused as too large and ends the tunnel although no message in it is long
  ("DATA frame boundaries are deliberately not used as message boundaries"). The
  client reconnects, so `TunnelComesBack` holds.
* The client judges an OPEN's ten seconds by its own clock
  (`bloom-relay-client/src/lib.rs:434`); one more than ten seconds ahead of the
  gateway's skips every OPEN and still reads as ready.
* A Broker whose renewal committed, whose answer was lost and who returns after
  five minutes holds the newest bearer as a staged token, but its operation is
  no longer fresh and its active token is superseded (`src/docs/wire.md:74-77`
  says it recovers on its next attempt).
* A retry that overlaps its first attempt may find the operation unknown and
  then be refused when it applies it, where the documentation promises the first
  answer (`src/docs/wire.md:69-70`); a further retry gets that answer.
* Between two hosts, a check that read the database revision before the other
  host advanced the S3 object is refused as stale although the database is
  current, so no property says that refusals are genuine. The local-only
  periodic check moves the file ahead of the S3 object, which is why
  `AcknowledgedIsWitnessed` speaks of the object and not of the file.

## 7. What is not modelled

* Replay nonces (`consume_nonce`) are one INSERT under a primary key, and the
  ingress quota is one map under one mutex: single steps with nothing to
  interleave.
* Cryptography (signatures, token hashes, receipt keys, KMS) is assumed to do its
  job: a bearer, a ticket and a challenge are distinct values that cannot be
  guessed, except that peers of `TunnelGateway` present arbitrary tickets.
* Byte-level parsing (ClientHello, PROXY v2, hostnames), canonical encodings,
  configuration, metrics, migrations, packaging, fuzz targets and the smoke test
  are sequential and covered by the repository's own tests.
* The pools of database connections and the gateway's semaphores are left out,
  so exhaustion of either is not covered. The client's stream permits are
  modelled.
* Time is a number only in `Admission`. Elsewhere it is nondeterministic: an
  expiry may happen whenever the row exists, and where a transaction's older
  `now()` may still take an expired row for live, as in `DnsReconcile`, the model
  lets it.
