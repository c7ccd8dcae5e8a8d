------------------------- MODULE DnsReconcileProofs -------------------------
(***************************************************************************)
(* Proofs about DnsReconcile, for any number of sites, workers, accounts,  *)
(* challenge values and outbox rows.                                       *)
(*                                                                         *)
(* None of the safety properties is inductive by itself. What makes them   *)
(* hold is that an attempt past its claim owns the installation's advisory *)
(* lock (LockInv), so that what it read under the lock still holds when it *)
(* writes (AttemptInv), except for the two things the lock does not cover: *)
(* a registration, which leaves another publish_name job behind, and a     *)
(* change of the challenge set, which moves its revision.                  *)
(***************************************************************************)
EXTENDS DnsReconcile, FiniteSetTheorems, TLAPS

Writing == {"write", "requests", "observe", "mark"}

(* Records of the name, or values of its challenge name, by the job.       *)
Typed(w, S) ==
  IF job_allowed("serving", kind[job[w]]) THEN S \in SUBSET Record ELSE S \in SUBSET Values

(* A claimed row exists; its plan holds records of the right type.         *)
JobInv ==
  \A w \in Workers :
    pc[w] # "idle" => job[w] \in Jobs /\ status[job[w]] # "none" /\ kind[job[w]] \in Kinds

PlanInv ==
  \A w \in Workers :
    /\ pc[w] = "target" => kind[job[w]] = "reconcile_txt"
    /\ pc[w] \in Writing => Typed(w, plan[w])
    /\ pc[w] = "requests" => Typed(w, listed[w])

TypeInv == TypeOK /\ JobInv /\ PlanInv

(* An attempt owns the lock, and its row is due and its own.               *)
LockInv == \A w \in Workers : pc[w] \notin {"idle", "claimed"} => lock = w

RowInv ==
  /\ \A w \in Workers : pc[w] # "idle" => status[job[w]] = "due"
  /\ \A u, w \in Workers : u # w /\ pc[u] # "idle" /\ pc[w] # "idle" => job[u] # job[w]

StateInv ==
  /\ state = "absent" => \A j \in Jobs : status[j] = "none"
  /\ state = "dns_ready" => uri # NoUri
  /\ state # "dns_ready" => Stored = {}

(* Another publication of the name is outstanding.                         *)
Other(w) == \E j \in Incomplete("publish_name") : j # job[w]

PublishInv(w) ==
  kind[job[w]] = "publish_name" =>
    /\ pc[w] \in Writing =>
         /\ state # "retired"
         /\ placement = PlacementOf[w]
         /\ \E u \in Uris : plan[w] = NameRecords(PlacementOf[w], u)
         /\ plan[w] = NameRecords(placement, uri) \/ Other(w)
    /\ pc[w] = "mark" => name = plan[w]
    /\ pc[w] = "complete" /\ state = "dns_ready"
         => name = NameRecords(placement, uri) \/ Other(w)

ReconcileInv(w) ==
  kind[job[w]] = "reconcile_txt" =>
    /\ pc[w] \in Writing \cup {"target"} => state # "retired"
    /\ pc[w] \in Writing =>
         /\ planRev[w] <= revision
         /\ planRev[w] = revision => plan[w] = Stored
         /\ ready = revision => planRev[w] = revision
    /\ pc[w] = "mark" => plan[w] \subseteq txt

RemoveInv(w) ==
  kind[job[w]] \in {"remove_records", "remove_txt_all"} =>
    /\ pc[w] \in Writing => state = "retired" /\ plan[w] = {}
    /\ pc[w] = "complete" /\ state = "retired"
         => IF kind[job[w]] = "remove_records" THEN name = {} ELSE txt = {}

AttemptInv ==
  \A w \in Workers : pc[w] # "idle" => PublishInv(w) /\ ReconcileInv(w) /\ RemoveInv(w)

SettleInv ==
  state = "dns_ready" => name = NameRecords(placement, uri) \/ Incomplete("publish_name") # {}

CleanInv ==
  state = "retired" =>
    /\ name = {} \/ Incomplete("remove_records") # {}
    /\ txt = {} \/ Incomplete("remove_txt_all") # {}

ReadyInv ==
  /\ ready <= revision
  /\ ready = revision => Stored \subseteq txt

IInv ==
  /\ TypeInv
  /\ LockInv
  /\ RowInv
  /\ StateInv
  /\ AttemptInv
  /\ SettleInv
  /\ CleanInv
  /\ ReadyInv

-----------------------------------------------------------------------------
(***************************************************************************)
(* What queueing does to the outbox.                                       *)
(***************************************************************************)

(* Rows in use keep their kind and status.                                 *)
RowsKept == \A j \in Jobs : status[j] # "none" => kind'[j] = kind[j] /\ status'[j] = status[j]

(* Some row that was unused is now a due job of kind k.                    *)
Queued(k) == \E n \in Jobs : status[n] = "none" /\ kind'[n] = k /\ status'[n] = "due"

OutboxTypeOK ==
  /\ kind \in [Jobs -> Kinds \cup {"none"}]
  /\ status \in [Jobs -> {"none", "due", "backoff", "done"}]

(* An INSERT INTO outbox adds one due job and touches no other row.        *)
LEMMA QueueAdds ==
  ASSUME OutboxTypeOK, NEW k \in Kinds, Queue(k)
  PROVE  OutboxTypeOK' /\ RowsKept /\ Queued(k)
BY DEF OutboxTypeOK, Queue, IsNext, Unused, RowsKept, Queued

(* The two inserts of a retirement add both cleanup jobs.                  *)
LEMMA QueueCleanupAdds ==
  ASSUME OutboxTypeOK, QueueCleanup
  PROVE  OutboxTypeOK' /\ RowsKept /\ Queued("remove_records") /\ Queued("remove_txt_all")
<1>1. PICK j \in Jobs : /\ j \in Unused
                        /\ j + 1 \in Unused
                        /\ kind' = [kind EXCEPT ![j] = "remove_records", ![j + 1] = "remove_txt_all"]
                        /\ status' = [status EXCEPT ![j] = "due", ![j + 1] = "due"]
  BY DEF QueueCleanup, IsNext
<1>2. /\ j \in Jobs /\ j + 1 \in Jobs /\ j # j + 1
      /\ status[j] = "none" /\ status[j + 1] = "none"
  BY <1>1, DnsAssumption DEF Unused, Jobs, DnsAssumption
<1>3. OutboxTypeOK'
  BY <1>1, <1>2 DEF OutboxTypeOK, Kinds
<1>4. RowsKept
  BY <1>1, <1>2 DEF OutboxTypeOK, RowsKept
<1>5. Queued("remove_records") /\ Queued("remove_txt_all")
  BY <1>1, <1>2 DEF OutboxTypeOK, Queued
<1> QED BY <1>3, <1>4, <1>5

-----------------------------------------------------------------------------
(***************************************************************************)
(* Type correctness, with or without lost connections.                     *)
(***************************************************************************)
LEMMA InitType == Init => TypeInv
BY DnsAssumption DEF Init, TypeInv, TypeOK, JobInv, PlanInv, Typed, PCs, Writing, DnsAssumption

(* A step that leaves claims and plans alone and keeps rows in use.        *)
LEMMA ClaimsKept ==
  ASSUME TypeInv, RowsKept, UNCHANGED worker
  PROVE  JobInv' /\ PlanInv'
<1>1. \A w \in Workers : pc[w] # "idle" =>
        /\ job[w] \in Jobs /\ status'[job[w]] # "none"
        /\ kind'[job[w]] = kind[job[w]] /\ kind[job[w]] \in Kinds
  BY DEF TypeInv, JobInv, RowsKept
<1>2. JobInv'
  BY <1>1 DEF JobInv, worker
<1>3. PlanInv'
  BY <1>1 DEF PlanInv, Typed, worker, TypeInv, Writing
<1> QED BY <1>2, <1>3

(* What an ensure does to the set when its value is one it takes for live. *)
Refreshed(v) ==
  /\ v \in Stored
  /\ values' = [values EXCEPT ![v] = "live"]
  /\ UNCHANGED <<outbox, revision, ready>>

LEMMA EnsureEither ==
  ASSUME NEW v \in Values, ensure_challenge_value(v)
  PROVE  \E D \in SUBSET Lapsed : Refreshed(v) \/ challenge_set_changed(D, {v})
BY DEF ensure_challenge_value, Refreshed

LEMMA RequestsType == TypeInv /\ Requests => TypeInv'
<1> SUFFICES ASSUME TypeInv, Requests PROVE TypeInv'
  OBVIOUS
<1>0. OutboxTypeOK
  BY DEF TypeInv, TypeOK, OutboxTypeOK
<1>1. ASSUME NEW p \in Placements, allocate(p) PROVE TypeInv'
  <2>1. OutboxTypeOK' /\ RowsKept
    BY <1>0, <1>1, QueueAdds DEF allocate, Kinds
  <2>2. TypeOK'
    BY <1>1, <2>1 DEF allocate, TypeInv, TypeOK, OutboxTypeOK, challenge, zone, worker
  <2> QED BY <1>1, <2>1, <2>2, ClaimsKept DEF allocate, TypeInv
<1>2. ASSUME NEW p \in Placements, relocate(p) PROVE TypeInv'
  <2>1. OutboxTypeOK' /\ RowsKept
    BY <1>0, <1>2, QueueAdds DEF relocate, Kinds
  <2>2. TypeOK'
    BY <1>2, <2>1 DEF relocate, TypeInv, TypeOK, OutboxTypeOK, challenge, zone, worker
  <2> QED BY <1>2, <2>1, <2>2, ClaimsKept DEF relocate, TypeInv
<1>3. ASSUME NEW u \in Uris, register_acme_account(u) PROVE TypeInv'
  <2>1. OutboxTypeOK' /\ RowsKept
    BY <1>0, <1>3, QueueAdds DEF register_acme_account, Kinds
  <2>2. TypeOK'
    BY <1>3, <2>1 DEF register_acme_account, TypeInv, TypeOK, OutboxTypeOK, challenge, zone, worker
  <2> QED BY <1>3, <2>1, <2>2, ClaimsKept DEF register_acme_account, TypeInv
<1>4. ASSUME NEW v \in Values, ensure_challenge_value(v) PROVE TypeInv'
  <2>1. PICK D \in SUBSET Lapsed : Refreshed(v) \/ challenge_set_changed(D, {v})
    BY <1>4, EnsureEither
  <2>2. OutboxTypeOK' /\ RowsKept
    BY <1>0, <2>1, QueueAdds
       DEF Refreshed, challenge_set_changed, Kinds, outbox, OutboxTypeOK, RowsKept
  <2>3. TypeOK'
    BY <1>4, <2>1, <2>2 DEF ensure_challenge_value, Refreshed, challenge_set_changed, TypeInv,
                            TypeOK, OutboxTypeOK, installation, zone, worker
  <2> QED BY <1>4, <2>2, <2>3, ClaimsKept DEF ensure_challenge_value, TypeInv
<1>5. ASSUME NEW v \in Values, lapse(v) PROVE TypeInv'
  <2>1. OutboxTypeOK' /\ RowsKept
    BY <1>0, <1>5 DEF lapse, outbox, RowsKept, OutboxTypeOK
  <2>2. TypeOK'
    BY <1>5, <2>1 DEF lapse, TypeInv, TypeOK, OutboxTypeOK, installation, outbox, zone, worker
  <2> QED BY <1>5, <2>1, <2>2, ClaimsKept DEF lapse, TypeInv
<1>6. ASSUME expire_challenge_values PROVE TypeInv'
  <2>1. OutboxTypeOK' /\ RowsKept
    BY <1>0, <1>6, QueueAdds DEF expire_challenge_values, challenge_set_changed, Kinds
  <2>2. TypeOK'
    BY <1>6, <2>1 DEF expire_challenge_values, challenge_set_changed, TypeInv, TypeOK,
                      OutboxTypeOK, installation, zone, worker
  <2> QED BY <1>6, <2>1, <2>2, ClaimsKept DEF expire_challenge_values, TypeInv
<1>7. ASSUME expire_pending_allocations PROVE TypeInv'
  <2>1. OutboxTypeOK' /\ RowsKept
    BY <1>0, <1>7, QueueCleanupAdds DEF expire_pending_allocations
  <2>2. TypeOK'
    BY <1>7, <2>1 DEF expire_pending_allocations, TypeInv, TypeOK, OutboxTypeOK, challenge, zone, worker
  <2> QED BY <1>7, <2>1, <2>2, ClaimsKept DEF expire_pending_allocations, TypeInv
<1>8. ASSUME retire PROVE TypeInv'
  <2>1. OutboxTypeOK' /\ RowsKept
    BY <1>0, <1>8, QueueCleanupAdds DEF retire
  <2>2. TypeOK'
    BY <1>8, <2>1 DEF retire, TypeInv, TypeOK, OutboxTypeOK, zone, worker
  <2> QED BY <1>8, <2>1, <2>2, ClaimsKept DEF retire, TypeInv
<1> QED BY <1>1, <1>2, <1>3, <1>4, <1>5, <1>6, <1>7, <1>8 DEF Requests

(* What the requests to either provider have in common: an attempt changes *)
(* only the zone of its own kind, and takes no challenge value of its plan *)
(* back.                                                                   *)
Provides(w) ==
  provider_list(w) \/ provider_create(w) \/ provider_delete(w) \/ provider_batch(w)

ProviderStep(w) ==
  /\ pc[w] \in {"write", "requests"}
  /\ \E l \in {"requests", "observe"} : Goto(w, l)
  /\ \E S : Typed(w, S) /\ listed' = [listed EXCEPT ![w] = S]
  /\ IF job_allowed("serving", kind[job[w]])
     THEN txt' = txt /\ name' \in SUBSET Record
     ELSE name' = name /\ txt' \in SUBSET Values /\ txt \cap plan[w] \subseteq txt'
  /\ UNCHANGED <<installation, outbox, lock, challenge, job, plan, planRev>>

LEMMA AnsweredSets ==
  ASSUME NEW w \in Workers, NEW S, Typed(w, S), Answered(w, S)
  PROVE  /\ \E l \in {"requests", "observe"} : Goto(w, l)
         /\ \E T : Typed(w, T) /\ listed' = [listed EXCEPT ![w] = T]
BY DEF Answered, Typed

LEMMA ProviderSteps ==
  ASSUME TypeInv, NEW w \in Workers, Provides(w) PROVE ProviderStep(w)
<1>1. /\ pc[w] \in {"write", "requests"} => Typed(w, plan[w])
      /\ pc[w] = "requests" => Typed(w, listed[w])
      /\ Typed(w, Zone(w))
  BY DEF TypeInv, TypeOK, PlanInv, Writing, Typed, Zone, Serving
<1>2. CASE provider_list(w)
  <2>1. /\ \E l \in {"requests", "observe"} : Goto(w, l)
        /\ \E T : Typed(w, T) /\ listed' = [listed EXCEPT ![w] = T]
    BY <1>1, <1>2, AnsweredSets DEF provider_list
  <2> QED BY <1>2, <2>1 DEF provider_list, ProviderStep, zone, TypeInv, TypeOK
<1>3. CASE provider_create(w)
  <2>1. PICK r \in Missing(w) : /\ WriteZone(w, Zone(w) \cup {r})
                                /\ Answered(w, listed[w] \cup {r})
    BY <1>3 DEF provider_create
  <2>2. Typed(w, Zone(w) \cup {r}) /\ Typed(w, listed[w] \cup {r})
    BY <1>1, <1>3, <2>1 DEF provider_create, Missing, Typed
  <2> QED
    BY <1>3, <2>1, <2>2, AnsweredSets DEF provider_create, ProviderStep, WriteZone, Zone, Serving, Typed
<1>4. CASE provider_delete(w)
  <2>1. PICK r \in Stale(w) : /\ WriteZone(w, Zone(w) \ {r})
                              /\ Answered(w, listed[w] \ {r})
    BY <1>4 DEF provider_delete
  <2>2. Typed(w, Zone(w) \ {r}) /\ Typed(w, listed[w] \ {r}) /\ r \notin plan[w]
    BY <1>1, <1>4, <2>1 DEF provider_delete, Stale, Typed
  <2> QED
    BY <1>4, <2>1, <2>2, AnsweredSets DEF provider_delete, ProviderStep, WriteZone, Zone, Serving, Typed
<1>5. CASE provider_batch(w)
  BY <1>1, <1>5, AnsweredSets DEF provider_batch, ProviderStep, WriteZone, Serving, Typed
<1> QED BY <1>2, <1>3, <1>4, <1>5 DEF Provides

LEMMA ProviderStepType ==
  ASSUME TypeInv, NEW w \in Workers, ProviderStep(w) PROVE TypeInv'
<1>1. PICK l \in {"requests", "observe"} : \E S :
        Goto(w, l) /\ Typed(w, S) /\ listed' = [listed EXCEPT ![w] = S]
  BY DEF ProviderStep
<1>2. name' \in SUBSET Record /\ txt' \in SUBSET Values
  BY DEF ProviderStep, TypeInv, TypeOK
<1>3. TypeOK'
  BY <1>1, <1>2 DEF ProviderStep, Goto, TypeInv, TypeOK, Typed, PCs, installation, outbox, challenge
<1>4. JobInv'
  BY <1>1 DEF ProviderStep, Goto, TypeInv, TypeOK, JobInv, outbox
<1>5. PlanInv'
  BY <1>1 DEF ProviderStep, Goto, TypeInv, TypeOK, PlanInv, Typed, Writing, outbox
<1> QED BY <1>3, <1>4, <1>5 DEF TypeInv

LEMMA ProgressType ==
  ASSUME TypeInv, NEW w \in Workers, Progress(w) PROVE TypeInv'
<1> USE DnsAssumption DEF TypeInv, Goto
<1>1. CASE claim_job(w)
  <2>1. PICK j \in Claimable(w) : job' = [job EXCEPT ![w] = j]
    BY <1>1 DEF claim_job
  <2>2. j \in Jobs /\ status[j] # "none" /\ kind[j] \in Kinds
    BY <2>1 DEF Claimable, job_allowed, Kinds
  <2>3. TypeOK'
    BY <1>1, <2>1, <2>2 DEF claim_job, TypeOK, PCs, installation, outbox, challenge, zone
  <2>4. JobInv'
    BY <1>1, <2>1, <2>2 DEF claim_job, TypeOK, JobInv, outbox
  <2>5. PlanInv'
    BY <1>1, <2>1, <2>2 DEF claim_job, TypeOK, PlanInv, Typed, Writing, outbox
  <2> QED BY <2>3, <2>4, <2>5
<1>2. CASE claim_lock(w)
  <2>1. TypeOK'
    BY <1>2 DEF claim_lock, TypeOK, PCs, installation, outbox, challenge, zone
  <2>2. JobInv' /\ PlanInv'
    BY <1>2 DEF claim_lock, TypeOK, JobInv, PlanInv, Typed, Writing, outbox
  <2> QED BY <2>1, <2>2
<1>3. CASE process_publish(w)
  <2>1. uri # NoUri => NameRecords(PlacementOf[w], uri) \in SUBSET Record
    BY DEF NameRecords, Record, TypeOK, DnsAssumption
  <2>2. plan' \in [Workers -> SUBSET (Record \cup Values)]
    BY <1>3, <2>1 DEF process_publish, TypeOK
  <2>3. TypeOK'
    BY <1>3, <2>2 DEF process_publish, TypeOK, PCs, installation, outbox, challenge, zone
  <2>4. JobInv'
    BY <1>3 DEF process_publish, TypeOK, JobInv, outbox
  <2>5. PlanInv'
    BY <1>3, <2>1 DEF process_publish, TypeOK, PlanInv, Typed, Writing, outbox, job_allowed
  <2> QED BY <2>3, <2>4, <2>5
<1>4. CASE process_reconcile(w)
  <2>1. TypeOK'
    BY <1>4 DEF process_reconcile, TypeOK, PCs, installation, outbox, challenge, zone
  <2>2. JobInv' /\ PlanInv'
    BY <1>4 DEF process_reconcile, TypeOK, JobInv, PlanInv, Typed, Writing, outbox
  <2> QED BY <2>1, <2>2
<1>5. CASE challenge_target(w)
  <2>1. TypeOK'
    BY <1>5 DEF challenge_target, Stored, TypeOK, PCs, installation, outbox, challenge, zone
  <2>2. JobInv'
    BY <1>5 DEF challenge_target, TypeOK, JobInv, outbox
  <2>3. PlanInv'
    BY <1>5 DEF challenge_target, Stored, TypeOK, PlanInv, Typed, Writing, outbox, job_allowed
  <2> QED BY <2>1, <2>2, <2>3
<1>6. CASE process_remove(w)
  <2>1. TypeOK'
    BY <1>6 DEF process_remove, TypeOK, PCs, installation, outbox, challenge, zone
  <2>2. JobInv' /\ PlanInv'
    BY <1>6 DEF process_remove, TypeOK, JobInv, PlanInv, Typed, Writing, outbox
  <2> QED BY <2>1, <2>2
<1>7. CASE Provides(w)
  BY <1>7, ProviderSteps, ProviderStepType
<1>8. CASE observe_visible(w)
  <2>1. TypeOK'
    BY <1>8 DEF observe_visible, TypeOK, PCs, installation, outbox, challenge, zone
  <2>2. JobInv' /\ PlanInv'
    BY <1>8 DEF observe_visible, TypeOK, JobInv, PlanInv, Typed, Writing, outbox
  <2> QED BY <2>1, <2>2
<1>9. CASE mark_dns_ready(w)
  <2>1. TypeOK'
    BY <1>9 DEF mark_dns_ready, TypeOK, PCs, outbox, challenge, zone
  <2>2. JobInv' /\ PlanInv'
    BY <1>9 DEF mark_dns_ready, TypeOK, JobInv, PlanInv, Typed, Writing, outbox
  <2> QED BY <2>1, <2>2
<1>10. CASE mark_challenge_reconciled(w)
  <2>1. TypeOK'
    BY <1>10 DEF mark_challenge_reconciled, TypeOK, PCs, installation, outbox, zone
  <2>2. JobInv' /\ PlanInv'
    BY <1>10 DEF mark_challenge_reconciled, TypeOK, JobInv, PlanInv, Typed, Writing, outbox
  <2> QED BY <2>1, <2>2
<1>11. CASE complete(w)
  <2>1. TypeOK'
    BY <1>11 DEF complete, Release, TypeOK, PCs, installation, challenge, zone
  <2>2. JobInv' /\ PlanInv'
    BY <1>11 DEF complete, Release, TypeOK, JobInv, PlanInv, Typed, Writing
  <2> QED BY <2>1, <2>2
<1> QED BY <1>1, <1>2, <1>3, <1>4, <1>5, <1>6, <1>7, <1>8, <1>9, <1>10, <1>11 DEF Progress, Provides

LEMMA FailureType ==
  ASSUME TypeInv, NEW w \in Workers, Failure(w) PROVE TypeInv'
<1> USE DnsAssumption DEF TypeInv, Goto
<1>1. CASE attempt_fails(w)
  <2>1. TypeOK'
    BY <1>1 DEF attempt_fails, TypeOK, PCs, installation, outbox, challenge, zone
  <2>2. JobInv' /\ PlanInv'
    BY <1>1 DEF attempt_fails, TypeOK, JobInv, PlanInv, Typed, Writing, outbox
  <2> QED BY <2>1, <2>2
<1>2. CASE defer(w)
  <2>1. TypeOK'
    BY <1>2 DEF defer, Release, TypeOK, PCs, installation, challenge, zone
  <2>2. JobInv' /\ PlanInv'
    BY <1>2 DEF defer, Release, TypeOK, JobInv, PlanInv, Typed, Writing
  <2> QED BY <2>1, <2>2
<1>3. CASE rollback(w)
  <2>1. TypeOK'
    BY <1>3 DEF rollback, Release, TypeOK, PCs, installation, outbox, challenge, zone
  <2>2. JobInv' /\ PlanInv'
    BY <1>3 DEF rollback, Release, TypeOK, JobInv, PlanInv, Typed, Writing, outbox
  <2> QED BY <2>1, <2>2
<1>4. CASE lose_connection(w)
  <2>1. TypeOK'
    BY <1>4 DEF lose_connection, TypeOK, installation, outbox, challenge, zone, worker
  <2>2. JobInv' /\ PlanInv'
    BY <1>4 DEF lose_connection, JobInv, PlanInv, Typed, outbox, worker
  <2> QED BY <2>1, <2>2
<1> QED BY <1>1, <1>2, <1>3, <1>4 DEF Failure

(* A step of the system preserves TypeInv.                                 *)
LEMMA NextType == TypeInv /\ [Next]_vars => TypeInv'
<1> SUFFICES ASSUME TypeInv, [Next]_vars PROVE TypeInv'
  OBVIOUS
<1>1. CASE Requests
  BY <1>1, RequestsType
<1>2. ASSUME NEW j \in Jobs, backoff_over(j) PROVE TypeInv'
  <2>1. TypeOK'
    BY <1>2 DEF backoff_over, TypeInv, TypeOK, installation, challenge, zone, worker
  <2>2. JobInv' /\ PlanInv'
    BY <1>2 DEF backoff_over, TypeInv, TypeOK, JobInv, PlanInv, Typed, worker
  <2> QED BY <2>1, <2>2 DEF TypeInv
<1>3. ASSUME NEW w \in Workers, Progress(w) \/ Failure(w) PROVE TypeInv'
  BY <1>3, ProgressType, FailureType
<1>4. CASE UNCHANGED vars
  BY <1>4 DEF vars, installation, outbox, challenge, zone, worker, TypeInv, TypeOK, JobInv,
              PlanInv, Typed, Writing
<1> QED BY <1>1, <1>2, <1>3, <1>4 DEF Next

(* The store, the outbox, the zone and the workers stay well typed: in     *)
(* particular a serving attempt never writes challenge values into the     *)
(* name's records, nor the other way round, even with lost connections.    *)
THEOREM TypeCorrect == Spec => []TypeOK
<1>1. Init => TypeInv
  BY InitType
<1>2. TypeInv /\ [Next]_vars => TypeInv'
  BY NextType
<1>3. TypeInv => TypeOK
  BY DEF TypeInv
<1> QED BY <1>1, <1>2, <1>3, PTL DEF Spec

-----------------------------------------------------------------------------
(***************************************************************************)
(* The inductive invariant, while no claim loses its connection.           *)
(***************************************************************************)
LEMMA InitInv == Init => IInv
<1> SUFFICES ASSUME Init PROVE IInv
  OBVIOUS
<1>1. TypeInv
  BY InitType
<1>2. LockInv /\ RowInv /\ StateInv /\ AttemptInv /\ SettleInv /\ CleanInv
  BY DEF Init, LockInv, RowInv, StateInv, AttemptInv, SettleInv, CleanInv, Stored
<1>3. ReadyInv
  BY DEF Init, ReadyInv, Stored
<1> QED BY <1>1, <1>2, <1>3 DEF IInv

(* With the lock free, nobody is past its claim.                           *)
LEMMA FreeLock ==
  ASSUME IInv, lock = Nobody
  PROVE  \A w \in Workers : pc[w] \in {"idle", "claimed"}
BY DnsAssumption DEF IInv, LockInv, DnsAssumption

(* With the lock held, nobody but the holder is past its claim.            *)
LEMMA HeldLock ==
  ASSUME IInv, NEW w \in Workers, lock = w
  PROVE  \A u \in Workers : u # w => pc[u] \in {"idle", "claimed"}
BY DEF IInv, LockInv

(* An attempt that is not past its claim has nothing to keep.              *)
LEMMA Quiet ==
  ASSUME \A w \in Workers : pc'[w] \in {"idle", "claimed"}
  PROVE  AttemptInv'
BY DEF AttemptInv, PublishInv, ReconcileInv, RemoveInv, Writing

(* Rows in use stay incomplete jobs of their kind.                         *)
LEMMA IncompleteKept ==
  ASSUME RowsKept, NEW k PROVE Incomplete(k) \subseteq Incomplete(k)'
BY DEF RowsKept, Incomplete

(* A queued job is an incomplete one that no attempt has claimed.          *)
LEMMA QueuedIncomplete ==
  ASSUME TypeInv, NEW k, Queued(k)
  PROVE  \E n \in Incomplete(k)' : \A w \in Workers : pc[w] # "idle" => job[w] # n
<1>1. PICK n \in Jobs : status[n] = "none" /\ kind'[n] = k /\ status'[n] = "due"
  BY DEF Queued
<1>2. n \in Incomplete(k)'
  BY <1>1 DEF Incomplete
<1> QED BY <1>1, <1>2 DEF TypeInv, JobInv

(* Requests leave the claims as they are.                                  *)
LEMMA RequestClaims ==
  ASSUME IInv, RowsKept, UNCHANGED <<lock, worker>>
  PROVE  LockInv' /\ RowInv'
<1>1. LockInv'
  BY DEF IInv, LockInv, worker
<1>2. RowInv'
  BY DEF IInv, TypeInv, JobInv, RowInv, RowsKept, worker
<1> QED BY <1>1, <1>2

LEMMA AllocateInv ==
  ASSUME IInv, NEW p \in Placements, allocate(p) PROVE IInv'
<1>1. RowsKept /\ Queued("publish_name")
  BY QueueAdds DEF allocate, IInv, TypeInv, TypeOK, OutboxTypeOK, Kinds
<1>2. LockInv' /\ RowInv'
  BY <1>1, RequestClaims DEF allocate
<1>3. TypeInv'
  BY RequestsType DEF IInv, Requests
<1>4. \A w \in Workers : pc'[w] \in {"idle", "claimed"}
  BY DEF allocate, IInv, TypeInv, JobInv, StateInv, worker
<1>5. AttemptInv'
  BY <1>4, Quiet
<1>6. StateInv' /\ SettleInv' /\ CleanInv'
  BY DEF allocate, IInv, StateInv, SettleInv, CleanInv, Stored, challenge, zone
<1>7. ReadyInv'
  BY DEF allocate, IInv, ReadyInv, Stored, challenge, zone
<1> QED BY <1>2, <1>3, <1>5, <1>6, <1>7 DEF IInv

LEMMA RelocateInv ==
  ASSUME IInv, NEW p \in Placements, relocate(p) PROVE IInv'
<1>1. RowsKept /\ Queued("publish_name")
  BY QueueAdds DEF relocate, IInv, TypeInv, TypeOK, OutboxTypeOK, Kinds
<1>2. LockInv' /\ RowInv'
  BY <1>1, RequestClaims DEF relocate
<1>3. TypeInv'
  BY RequestsType DEF IInv, Requests
<1>4. AttemptInv'
  BY FreeLock, Quiet DEF relocate, worker
<1>5. StateInv' /\ SettleInv' /\ CleanInv'
  BY <1>1, QueuedIncomplete DEF relocate, IInv, StateInv, SettleInv, CleanInv, Stored, challenge, zone
<1>6. ReadyInv'
  BY DEF relocate, IInv, ReadyInv, Stored, challenge, zone
<1> QED BY <1>2, <1>3, <1>4, <1>5, <1>6 DEF IInv

(* A registration may overtake an attempt: then its own job is the other   *)
(* one that PublishInv speaks of.                                          *)
LEMMA RegisterInv ==
  ASSUME IInv, NEW u \in Uris, register_acme_account(u) PROVE IInv'
<1>1. RowsKept /\ Queued("publish_name")
  BY QueueAdds DEF register_acme_account, IInv, TypeInv, TypeOK, OutboxTypeOK, Kinds
<1>2. LockInv' /\ RowInv'
  BY <1>1, RequestClaims DEF register_acme_account
<1>3. TypeInv'
  BY RequestsType DEF IInv, Requests
<1>4. \A w \in Workers : pc[w] # "idle" => Other(w)' /\ kind'[job[w]] = kind[job[w]]
  BY <1>1, QueuedIncomplete
     DEF Other, IInv, TypeInv, JobInv, RowsKept, register_acme_account, worker
<1>5. AttemptInv'
  <2> SUFFICES ASSUME NEW w \in Workers, pc[w] # "idle"
               PROVE  PublishInv(w)' /\ ReconcileInv(w)' /\ RemoveInv(w)'
    BY DEF AttemptInv, register_acme_account, worker
  <2>1. PublishInv(w) /\ ReconcileInv(w) /\ RemoveInv(w)
    BY DEF IInv, AttemptInv
  <2>2. PublishInv(w)'
    BY <1>4, <2>1 DEF register_acme_account, PublishInv, worker, zone
  <2>3. ReconcileInv(w)'
    BY <1>4, <2>1 DEF register_acme_account, ReconcileInv, worker, zone, challenge, Stored
  <2>4. RemoveInv(w)'
    BY <1>4, <2>1 DEF register_acme_account, RemoveInv, worker, zone
  <2> QED BY <2>2, <2>3, <2>4
<1>6. StateInv'
  BY DnsAssumption DEF register_acme_account, IInv, StateInv, Stored, challenge, DnsAssumption
<1>7. SettleInv' /\ CleanInv'
  BY <1>1, QueuedIncomplete DEF register_acme_account, IInv, SettleInv, CleanInv
<1>8. ReadyInv'
  BY DEF register_acme_account, IInv, ReadyInv, Stored, challenge, zone
<1> QED BY <1>2, <1>3, <1>5, <1>6, <1>7, <1>8 DEF IInv

(* A change of the challenge set moves its revision past every plan, so    *)
(* that neither ready nor an attempt's mark can speak for the new set.     *)
LEMMA ChallengeSetChanged ==
  ASSUME IInv, TypeInv', RowsKept, Queued("reconcile_txt"),
         UNCHANGED <<installation, lock, ready, zone, worker>>,
         revision' = revision + 1,
         state = "dns_ready"
  PROVE  IInv'
<1>1. LockInv' /\ RowInv'
  BY RequestClaims
<1>2. \A w \in Workers : pc[w] # "idle" =>
        kind'[job[w]] = kind[job[w]] /\ (Other(w) => Other(w)')
  <2>1. Incomplete("publish_name") \subseteq Incomplete("publish_name")'
    BY IncompleteKept
  <2> QED BY <2>1 DEF Other, IInv, TypeInv, JobInv, RowsKept, worker
<1>3. AttemptInv'
  <2> SUFFICES ASSUME NEW w \in Workers, pc[w] # "idle"
               PROVE  PublishInv(w)' /\ ReconcileInv(w)' /\ RemoveInv(w)'
    BY DEF AttemptInv, worker
  <2>1. PublishInv(w) /\ ReconcileInv(w) /\ RemoveInv(w)
    BY DEF IInv, AttemptInv
  <2>2. PublishInv(w)'
    BY <1>2, <2>1 DEF PublishInv, worker, zone, installation
  <2>3. ReconcileInv(w)'
    <3>1. ready <= revision /\ ready \in Nat /\ revision \in Nat /\ planRev[w] \in Nat
      BY DEF IInv, ReadyInv, TypeInv, TypeOK
    <3> QED BY <1>2, <2>1, <3>1 DEF ReconcileInv, worker, zone, installation
  <2>4. RemoveInv(w)'
    BY <1>2, <2>1 DEF RemoveInv, worker, zone, installation
  <2> QED BY <2>2, <2>3, <2>4
<1>4. StateInv'
  BY DEF IInv, StateInv, installation
<1>5. SettleInv' /\ CleanInv'
  BY IncompleteKept DEF IInv, SettleInv, CleanInv, installation, zone
<1>6. ReadyInv'
  BY DEF IInv, ReadyInv, TypeInv, TypeOK
<1> QED BY <1>1, <1>3, <1>4, <1>5, <1>6 DEF IInv

LEMMA ExpireValuesInv ==
  ASSUME IInv, expire_challenge_values PROVE IInv'
<1>1. RowsKept /\ Queued("reconcile_txt")
  BY QueueAdds DEF expire_challenge_values, challenge_set_changed, IInv, TypeInv, TypeOK,
                   OutboxTypeOK, Kinds
<1>2. TypeInv'
  BY RequestsType DEF IInv, Requests
<1>3. state = "dns_ready"
  BY DEF expire_challenge_values, IInv, StateInv, Stored, Lapsed
<1> QED BY <1>1, <1>2, <1>3, ChallengeSetChanged DEF expire_challenge_values, challenge_set_changed

(* A step that changes only which of the stored values are live.           *)
LEMMA SameStored ==
  ASSUME IInv, TypeInv', Stored' = Stored,
         UNCHANGED <<installation, outbox, lock, revision, ready, zone, worker>>
  PROVE  IInv'
<1>1. RowsKept
  BY DEF outbox, RowsKept
<1>2. LockInv' /\ RowInv'
  BY <1>1, RequestClaims
<1>3. \A k : Incomplete(k)' = Incomplete(k)
  BY DEF outbox, Incomplete
<1>4. AttemptInv'
  BY <1>3 DEF IInv, AttemptInv, PublishInv, ReconcileInv, RemoveInv, Other, installation, outbox,
              zone, worker
<1>5. StateInv' /\ SettleInv' /\ CleanInv' /\ ReadyInv'
  BY <1>3 DEF IInv, StateInv, SettleInv, CleanInv, ReadyInv, installation, outbox, zone
<1> QED BY <1>2, <1>4, <1>5 DEF IInv

(* A value that lapses stays in the stored set until it is swept.          *)
LEMMA LapseInv ==
  ASSUME IInv, NEW v \in Values, lapse(v) PROVE IInv'
<1>1. Stored' = Stored
  BY DEF lapse, Stored, IInv, TypeInv, TypeOK
<1>2. TypeInv'
  BY RequestsType DEF IInv, Requests
<1> QED BY <1>1, <1>2, SameStored DEF lapse

(* A refresh, one that revives a lapsed value too, keeps the stored set,   *)
(* so what is marked ready at this revision holds the revived value: the   *)
(* set to publish was read with its lapsed members.                        *)
LEMMA EnsureInv ==
  ASSUME IInv, NEW v \in Values, ensure_challenge_value(v) PROVE IInv'
<1>1. PICK D \in SUBSET Lapsed : Refreshed(v) \/ challenge_set_changed(D, {v})
  BY EnsureEither
<1>2. TypeInv'
  BY RequestsType DEF IInv, Requests
<1>3. CASE Refreshed(v)
  <2>1. Stored' = Stored
    BY <1>3 DEF Refreshed, Stored, IInv, TypeInv, TypeOK
  <2> QED BY <1>2, <1>3, <2>1, SameStored DEF ensure_challenge_value, Refreshed
<1>4. CASE challenge_set_changed(D, {v})
  <2>1. RowsKept /\ Queued("reconcile_txt")
    BY <1>4, QueueAdds DEF challenge_set_changed, IInv, TypeInv, TypeOK, OutboxTypeOK, Kinds
  <2> QED BY <1>2, <1>4, <2>1, ChallengeSetChanged DEF ensure_challenge_value, challenge_set_changed
<1> QED BY <1>1, <1>3, <1>4

LEMMA ExpirePendingInv ==
  ASSUME IInv, expire_pending_allocations PROVE IInv'
<1>1. RowsKept /\ Queued("remove_records") /\ Queued("remove_txt_all")
  BY QueueCleanupAdds DEF expire_pending_allocations, IInv, TypeInv, TypeOK, OutboxTypeOK
<1>2. LockInv' /\ RowInv'
  BY <1>1, RequestClaims DEF expire_pending_allocations
<1>3. TypeInv'
  BY RequestsType DEF IInv, Requests
<1>4. AttemptInv'
  BY FreeLock, Quiet DEF expire_pending_allocations, worker
<1>5. StateInv' /\ SettleInv'
  BY DEF expire_pending_allocations, IInv, StateInv, SettleInv, Stored, challenge
<1>6. CleanInv'
  BY <1>1, QueuedIncomplete DEF IInv, CleanInv
<1>7. ReadyInv'
  BY DEF expire_pending_allocations, IInv, ReadyInv, Stored, challenge, zone
<1> QED BY <1>2, <1>3, <1>4, <1>5, <1>6, <1>7 DEF IInv

LEMMA RetireInv ==
  ASSUME IInv, retire PROVE IInv'
<1>1. RowsKept /\ Queued("remove_records") /\ Queued("remove_txt_all")
  BY QueueCleanupAdds DEF retire, IInv, TypeInv, TypeOK, OutboxTypeOK
<1>2. LockInv' /\ RowInv'
  BY <1>1, RequestClaims DEF retire
<1>3. TypeInv'
  BY RequestsType DEF IInv, Requests
<1>4. AttemptInv'
  BY FreeLock, Quiet DEF retire, worker
<1>5. Stored' = {}
  BY DEF retire, Stored
<1>6. StateInv' /\ SettleInv'
  BY <1>5 DEF retire, StateInv, SettleInv
<1>7. CleanInv'
  BY <1>1, QueuedIncomplete DEF IInv, CleanInv
<1>8. ReadyInv'
  BY <1>5 DEF retire, IInv, ReadyInv
<1> QED BY <1>2, <1>3, <1>4, <1>6, <1>7, <1>8 DEF IInv

LEMMA RequestsInv == ASSUME IInv, Requests PROVE IInv'
BY AllocateInv, RelocateInv, RegisterInv, EnsureInv, LapseInv, ExpireValuesInv,
   ExpirePendingInv, RetireInv DEF Requests

LEMMA BackoffInv ==
  ASSUME IInv, NEW j \in Jobs, backoff_over(j) PROVE IInv'
<1>1. TypeInv'
  BY NextType DEF IInv, Next
<1>2. \A k : Incomplete(k)' = Incomplete(k)
  BY DEF backoff_over, Incomplete, IInv, TypeInv, TypeOK
<1>3. LockInv' /\ RowInv'
  BY DEF backoff_over, IInv, LockInv, RowInv, TypeInv, TypeOK, JobInv, worker
<1>4. AttemptInv'
  BY <1>2 DEF backoff_over, IInv, AttemptInv, PublishInv, ReconcileInv, RemoveInv, Other, Stored,
              installation, challenge, zone, worker
<1>5. StateInv'
  BY DEF backoff_over, IInv, StateInv, TypeInv, TypeOK, Stored, installation, challenge
<1>6. SettleInv' /\ CleanInv' /\ ReadyInv'
  BY <1>2 DEF backoff_over, IInv, SettleInv, CleanInv, ReadyInv, Stored, installation, challenge, zone
<1> QED BY <1>1, <1>3, <1>4, <1>5, <1>6 DEF IInv

-----------------------------------------------------------------------------
(***************************************************************************)
(* Steps of an attempt.                                                    *)
(***************************************************************************)

(* Only the attempt that holds the lock has something to keep.             *)
LEMMA InnerStep ==
  ASSUME IInv, NEW w \in Workers, NEW l \in PCs \ {"idle", "claimed"},
         pc[w] \notin {"idle", "claimed"}, Goto(w, l), UNCHANGED <<outbox, lock, job>>,
         PublishInv(w)', ReconcileInv(w)', RemoveInv(w)'
  PROVE  LockInv' /\ RowInv' /\ AttemptInv'
<1>1. /\ lock = w
      /\ pc' \in [Workers -> PCs]
      /\ pc'[w] = l
      /\ \A u \in Workers : u # w => pc'[u] = pc[u]
  BY DEF IInv, LockInv, Goto, TypeInv, TypeOK
<1>2. LockInv'
  BY <1>1 DEF IInv, LockInv
<1>3. RowInv'
  BY <1>1 DEF IInv, RowInv, outbox
<1>4. \A u \in Workers : u # w => pc'[u] \in {"idle", "claimed"}
  BY <1>1, HeldLock
<1>5. AttemptInv'
  <2> SUFFICES ASSUME NEW u \in Workers
               PROVE  PublishInv(u)' /\ ReconcileInv(u)' /\ RemoveInv(u)'
    BY DEF AttemptInv
  <2>1. CASE u = w
    BY <2>1
  <2>2. CASE u # w
    BY <1>4, <2>2 DEF PublishInv, ReconcileInv, RemoveInv, Writing
  <2> QED BY <2>1, <2>2
<1> QED BY <1>2, <1>3, <1>5

(* Steps that touch neither tables nor zone.                               *)
LEMMA StillInv ==
  ASSUME IInv, UNCHANGED <<installation, outbox, challenge, zone>>
  PROVE  StateInv' /\ SettleInv' /\ CleanInv' /\ ReadyInv'
<1>1. \A k : Incomplete(k)' = Incomplete(k)
  BY DEF outbox, Incomplete
<1>2. Stored' = Stored
  BY DEF challenge, Stored
<1>3. StateInv' /\ ReadyInv'
  BY <1>2 DEF IInv, StateInv, ReadyInv, installation, outbox, challenge, zone
<1>4. SettleInv' /\ CleanInv'
  BY <1>1 DEF IInv, SettleInv, CleanInv, installation, zone
<1> QED BY <1>3, <1>4

(* Taking a row: it is nobody else's, because whoever had it either waits  *)
(* for the lock or holds it.                                               *)
LEMMA ClaimJobInv ==
  ASSUME IInv, NEW w \in Workers, claim_job(w) PROVE IInv'
<1>1. PICK j \in Claimable(w) : job' = [job EXCEPT ![w] = j]
  BY DEF claim_job
<1>2. /\ j \in Jobs /\ status[j] = "due"
      /\ \A u \in Workers : pc[u] # "idle" => job[u] # j
  BY <1>1 DEF Claimable, RowLocked, HoldsClaim, IInv, LockInv
<1>3. /\ pc' = [pc EXCEPT ![w] = "claimed"]
      /\ pc \in [Workers -> PCs] /\ job \in [Workers -> Jobs \cup {0}]
  BY DEF claim_job, Goto, IInv, TypeInv, TypeOK
<1>4. TypeInv'
  BY ProgressType DEF IInv, Progress
<1>5. LockInv'
  BY <1>3 DEF claim_job, IInv, LockInv
<1>6. RowInv'
  BY <1>1, <1>2, <1>3 DEF claim_job, IInv, RowInv, outbox
<1>7. AttemptInv'
  <2> SUFFICES ASSUME NEW u \in Workers, pc'[u] # "idle"
               PROVE  PublishInv(u)' /\ ReconcileInv(u)' /\ RemoveInv(u)'
    BY DEF AttemptInv
  <2>1. CASE u = w
    BY <1>3, <2>1 DEF PublishInv, ReconcileInv, RemoveInv, Writing
  <2>2. CASE u # w
    <3>1. pc'[u] = pc[u] /\ job'[u] = job[u]
      BY <1>1, <1>3, <2>2
    <3>2. PublishInv(u) /\ ReconcileInv(u) /\ RemoveInv(u)
      BY <3>1 DEF IInv, AttemptInv
    <3> QED
      BY <3>1, <3>2 DEF claim_job, PublishInv, ReconcileInv, RemoveInv, Other, Incomplete, Stored,
                        installation, outbox, challenge, zone
  <2> QED BY <2>1, <2>2
<1>8. StateInv' /\ SettleInv' /\ CleanInv' /\ ReadyInv'
  BY StillInv DEF claim_job
<1> QED BY <1>4, <1>5, <1>6, <1>7, <1>8 DEF IInv

LEMMA ClaimLockInv ==
  ASSUME IInv, NEW w \in Workers, claim_lock(w) PROVE IInv'
<1>1. \A u \in Workers : pc[u] \in {"idle", "claimed"}
  BY FreeLock DEF claim_lock
<1>2. pc' = [pc EXCEPT ![w] = "locked"] /\ pc \in [Workers -> PCs]
  BY DEF claim_lock, Goto, IInv, TypeInv, TypeOK
<1>3. TypeInv'
  BY ProgressType DEF IInv, Progress
<1>4. LockInv'
  BY <1>1, <1>2 DEF claim_lock, LockInv
<1>5. RowInv'
  BY <1>2 DEF claim_lock, IInv, RowInv, outbox
<1>6. AttemptInv'
  BY <1>1, <1>2 DEF AttemptInv, PublishInv, ReconcileInv, RemoveInv, Writing
<1>7. StateInv' /\ SettleInv' /\ CleanInv' /\ ReadyInv'
  BY StillInv DEF claim_lock
<1> QED BY <1>3, <1>4, <1>5, <1>6, <1>7 DEF IInv

(* What is read under the lock is what the attempt publishes.              *)
LEMMA ProcessPublishInv ==
  ASSUME IInv, NEW w \in Workers, process_publish(w) PROVE IInv'
<1>1. TypeInv'
  BY ProgressType DEF IInv, Progress
<1>2. StateInv' /\ SettleInv' /\ CleanInv' /\ ReadyInv'
  BY StillInv DEF process_publish
<1>3. PICK l \in {"complete", "defer", "write"} : Goto(w, l)
  BY DEF process_publish
<1>4. pc'[w] = l
  BY <1>3 DEF Goto, IInv, TypeInv, TypeOK
<1>5. kind'[job'[w]] = "publish_name"
  BY DEF process_publish, outbox
<1>6. PublishInv(w)'
  <2>1. CASE state = "retired" \/ uri = NoUri
    <3>1. pc'[w] = "complete"
      BY <2>1 DEF process_publish, Goto, IInv, TypeInv, TypeOK
    <3> QED
      BY <2>1, <3>1 DEF process_publish, PublishInv, IInv, StateInv, Writing, installation
  <2>2. CASE state # "retired" /\ uri # NoUri /\ placement # PlacementOf[w]
    <3>1. pc'[w] = "defer"
      BY <2>2 DEF process_publish, Goto, IInv, TypeInv, TypeOK
    <3> QED
      BY <3>1 DEF PublishInv, Writing
  <2>3. CASE state # "retired" /\ uri # NoUri /\ placement = PlacementOf[w]
    <3>1. pc'[w] = "write" /\ plan'[w] = NameRecords(PlacementOf[w], uri) /\ uri \in Uris
      BY <2>3 DEF process_publish, Goto, IInv, TypeInv, TypeOK
    <3> QED
      BY <2>3, <3>1 DEF process_publish, PublishInv, installation
  <2> QED BY <2>1, <2>2, <2>3
<1>7. ReconcileInv(w)' /\ RemoveInv(w)'
  BY <1>5 DEF ReconcileInv, RemoveInv
<1>8. LockInv' /\ RowInv' /\ AttemptInv'
  BY <1>3, <1>6, <1>7, InnerStep DEF process_publish, PCs
<1> QED BY <1>1, <1>2, <1>8 DEF IInv

LEMMA ProcessReconcileInv ==
  ASSUME IInv, NEW w \in Workers, process_reconcile(w) PROVE IInv'
<1>1. TypeInv'
  BY ProgressType DEF IInv, Progress
<1>2. StateInv' /\ SettleInv' /\ CleanInv' /\ ReadyInv'
  BY StillInv DEF process_reconcile
<1>3. PICK l \in {"complete", "defer", "target"} :
        Goto(w, l) /\ (l = "target" => state # "retired")
  BY DEF process_reconcile
<1>4. pc'[w] = l
  BY <1>3 DEF Goto, IInv, TypeInv, TypeOK
<1>5. kind'[job'[w]] = "reconcile_txt"
  BY DEF process_reconcile, outbox
<1>6. PublishInv(w)' /\ RemoveInv(w)'
  BY <1>5 DEF PublishInv, RemoveInv
<1>7. ReconcileInv(w)'
  BY <1>3, <1>4 DEF process_reconcile, ReconcileInv, Writing, installation
<1>8. LockInv' /\ RowInv' /\ AttemptInv'
  BY <1>3, <1>6, <1>7, InnerStep DEF process_reconcile, PCs
<1> QED BY <1>1, <1>2, <1>8 DEF IInv

LEMMA ChallengeTargetInv ==
  ASSUME IInv, NEW w \in Workers, challenge_target(w) PROVE IInv'
<1>1. TypeInv'
  BY ProgressType DEF IInv, Progress
<1>2. StateInv' /\ SettleInv' /\ CleanInv' /\ ReadyInv'
  BY StillInv DEF challenge_target
<1>3. /\ pc'[w] = "write" /\ plan'[w] = Stored' /\ planRev'[w] = revision'
      /\ revision' = revision /\ revision \in Nat /\ ready' = ready
  BY DEF challenge_target, Goto, IInv, TypeInv, TypeOK, Stored, challenge
<1>4. kind'[job'[w]] = "reconcile_txt"
  BY DEF challenge_target, outbox, IInv, TypeInv, PlanInv, Typed
<1>5. PublishInv(w)' /\ RemoveInv(w)'
  BY <1>4 DEF PublishInv, RemoveInv
<1>6. state' # "retired"
  BY <1>4 DEF challenge_target, IInv, AttemptInv, ReconcileInv, installation, outbox
<1>7. ReconcileInv(w)'
  BY <1>3, <1>6 DEF ReconcileInv
<1>8. LockInv' /\ RowInv' /\ AttemptInv'
  BY <1>5, <1>7, InnerStep DEF challenge_target, PCs
<1> QED BY <1>1, <1>2, <1>8 DEF IInv

LEMMA ProcessRemoveInv ==
  ASSUME IInv, NEW w \in Workers, process_remove(w) PROVE IInv'
<1>1. TypeInv'
  BY ProgressType DEF IInv, Progress
<1>2. StateInv' /\ SettleInv' /\ CleanInv' /\ ReadyInv'
  BY StillInv DEF process_remove
<1>3. PICK l \in {"complete", "write"} :
        Goto(w, l) /\ (IF state = "retired" THEN l = "write" ELSE l = "complete")
  BY DEF process_remove
<1>4. pc'[w] = l /\ plan'[w] = {}
  BY <1>3 DEF process_remove, Goto, IInv, TypeInv, TypeOK
<1>5. kind'[job'[w]] \in {"remove_records", "remove_txt_all"}
  BY DEF process_remove, outbox
<1>6. PublishInv(w)' /\ ReconcileInv(w)'
  BY <1>5 DEF PublishInv, ReconcileInv
<1>7. RemoveInv(w)'
  BY <1>3, <1>4 DEF process_remove, RemoveInv, Writing, installation
<1>8. LockInv' /\ RowInv' /\ AttemptInv'
  BY <1>3, <1>6, <1>7, InnerStep DEF process_remove, PCs
<1> QED BY <1>1, <1>2, <1>8 DEF IInv

(* The attempt's own row keeps the outbox incomplete until it is recorded. *)
LEMMA OwnRowIncomplete ==
  ASSUME IInv, NEW w \in Workers, pc[w] # "idle"
  PROVE  /\ job[w] \in Incomplete(kind[job[w]])
         /\ kind[job[w]] \in Kinds
BY DEF IInv, TypeInv, JobInv, RowInv, Incomplete

(* Whatever a write leaves in the zone, the job is still to be done; and   *)
(* no value of the plan that was published is taken back.                  *)
LEMMA WriteKeeps ==
  ASSUME IInv, NEW w \in Workers, pc[w] \in {"write", "requests"},
         UNCHANGED <<installation, outbox, challenge>>,
         IF job_allowed("serving", kind[job[w]])
         THEN txt' = txt
         ELSE name' = name /\ txt \cap plan[w] \subseteq txt'
  PROVE  StateInv' /\ SettleInv' /\ CleanInv' /\ ReadyInv'
<1>1. \A k : Incomplete(k)' = Incomplete(k)
  BY DEF outbox, Incomplete
<1>2. Stored' = Stored
  BY DEF challenge, Stored
<1>3. job[w] \in Incomplete(kind[job[w]]) /\ kind[job[w]] \in Kinds
  BY OwnRowIncomplete
<1>4. PublishInv(w) /\ ReconcileInv(w) /\ RemoveInv(w)
  BY DEF IInv, AttemptInv
<1>5. StateInv'
  BY <1>2 DEF IInv, StateInv, installation, outbox
<1>6. CASE kind[job[w]] = "publish_name"
  <2>1. state # "retired" /\ txt' = txt
    BY <1>4, <1>6 DEF PublishInv, Writing, job_allowed
  <2>2. Incomplete("publish_name")' # {}
    BY <1>1, <1>3, <1>6
  <2>3. SettleInv' /\ CleanInv'
    BY <2>1, <2>2 DEF SettleInv, CleanInv, installation
  <2>4. ReadyInv'
    BY <1>2, <2>1 DEF IInv, ReadyInv, challenge
  <2> QED BY <1>5, <2>3, <2>4
<1>7. CASE kind[job[w]] = "remove_records"
  <2>1. state = "retired" /\ txt' = txt
    BY <1>4, <1>7 DEF RemoveInv, Writing, job_allowed
  <2>2. Incomplete("remove_records")' # {}
    BY <1>1, <1>3, <1>7
  <2>3. SettleInv' /\ CleanInv'
    BY <1>1, <2>1, <2>2 DEF IInv, SettleInv, CleanInv, installation
  <2>4. ReadyInv'
    BY <1>2, <2>1 DEF IInv, ReadyInv, challenge
  <2> QED BY <1>5, <2>3, <2>4
<1>8. CASE kind[job[w]] = "reconcile_txt"
  <2>1. state # "retired" /\ name' = name /\ txt \cap plan[w] \subseteq txt'
    BY <1>4, <1>8 DEF ReconcileInv, Writing, job_allowed
  <2>2. SettleInv' /\ CleanInv'
    BY <1>1, <2>1 DEF IInv, SettleInv, CleanInv, installation
  <2>3. ready = revision => plan[w] = Stored
    BY <1>4, <1>8 DEF ReconcileInv, Writing
  <2>4. ReadyInv'
    BY <1>2, <2>1, <2>3 DEF IInv, ReadyInv, challenge
  <2> QED BY <1>5, <2>2, <2>4
<1>9. CASE kind[job[w]] = "remove_txt_all"
  <2>1. state = "retired" /\ name' = name
    BY <1>4, <1>9 DEF RemoveInv, Writing, job_allowed
  <2>2. Incomplete("remove_txt_all")' # {}
    BY <1>1, <1>3, <1>9
  <2>3. SettleInv' /\ CleanInv'
    BY <1>1, <2>1, <2>2 DEF IInv, SettleInv, CleanInv, installation
  <2>4. Stored = {}
    BY <2>1 DEF IInv, StateInv
  <2>5. ReadyInv'
    BY <1>2, <2>4 DEF IInv, ReadyInv, challenge
  <2> QED BY <1>5, <2>3, <2>5
<1> QED BY <1>3, <1>6, <1>7, <1>8, <1>9 DEF Kinds

LEMMA ProviderInv ==
  ASSUME IInv, NEW w \in Workers, Provides(w) PROVE IInv'
<1>1. ProviderStep(w) /\ TypeInv'
  BY ProviderSteps, ProviderStepType DEF IInv
<1>2. StateInv' /\ SettleInv' /\ CleanInv' /\ ReadyInv'
  BY <1>1, WriteKeeps DEF ProviderStep
<1>3. PublishInv(w) /\ ReconcileInv(w) /\ RemoveInv(w)
  BY <1>1 DEF ProviderStep, IInv, AttemptInv
<1>4. PICK l \in {"requests", "observe"} : Goto(w, l)
  BY <1>1 DEF ProviderStep
<1>5. pc[w] \in {"write", "requests"} /\ pc'[w] = l
  BY <1>1, <1>4 DEF ProviderStep, Goto, IInv, TypeInv, TypeOK
<1>6. Stored' = Stored /\ Incomplete("publish_name")' = Incomplete("publish_name")
  BY <1>1 DEF ProviderStep, Stored, Incomplete, outbox, challenge
<1>7. PublishInv(w)'
  BY <1>1, <1>3, <1>5, <1>6 DEF ProviderStep, PublishInv, Writing, Other, installation, outbox
<1>8. ReconcileInv(w)'
  BY <1>1, <1>3, <1>5, <1>6 DEF ProviderStep, ReconcileInv, Writing, installation, outbox, challenge
<1>9. RemoveInv(w)'
  BY <1>1, <1>3, <1>5 DEF ProviderStep, RemoveInv, Writing, installation, outbox
<1>10. LockInv' /\ RowInv' /\ AttemptInv'
  BY <1>1, <1>4, <1>5, <1>7, <1>8, <1>9, InnerStep DEF ProviderStep, PCs
<1> QED BY <1>1, <1>2, <1>10 DEF IInv

(* A failed attempt claims nothing any more.                               *)
LEMMA DeferKeeps ==
  ASSUME IInv, NEW w \in Workers, Goto(w, "defer"), pc[w] \notin {"idle", "claimed"},
         UNCHANGED <<outbox, lock, job>>
  PROVE  LockInv' /\ RowInv' /\ AttemptInv'
<1>1. pc'[w] = "defer"
  BY DEF Goto, IInv, TypeInv, TypeOK
<1>2. PublishInv(w)' /\ ReconcileInv(w)' /\ RemoveInv(w)'
  BY <1>1 DEF PublishInv, ReconcileInv, RemoveInv, Writing
<1> QED BY <1>2, InnerStep DEF PCs

LEMMA AttemptFailsInv ==
  ASSUME IInv, NEW w \in Workers, attempt_fails(w) PROVE IInv'
<1>1. TypeInv'
  BY FailureType DEF IInv, Failure
<1>2. StateInv' /\ SettleInv' /\ CleanInv' /\ ReadyInv'
  BY StillInv DEF attempt_fails
<1>3. LockInv' /\ RowInv' /\ AttemptInv'
  BY DeferKeeps DEF attempt_fails
<1> QED BY <1>1, <1>2, <1>3 DEF IInv

LEMMA ObserveVisibleInv ==
  ASSUME IInv, NEW w \in Workers, observe_visible(w) PROVE IInv'
<1>1. TypeInv'
  BY ProgressType DEF IInv, Progress
<1>2. StateInv' /\ SettleInv' /\ CleanInv' /\ ReadyInv'
  BY StillInv DEF observe_visible
<1>3. PICK l \in {"mark", "complete"} :
        Goto(w, l) /\ (l = "mark" <=> kind[job[w]] \in {"publish_name", "reconcile_txt"})
  BY DEF observe_visible
<1>4. pc[w] = "observe" /\ pc'[w] = l
  BY <1>3 DEF observe_visible, Goto, IInv, TypeInv, TypeOK
<1>5. PublishInv(w) /\ ReconcileInv(w) /\ RemoveInv(w)
  BY <1>4 DEF IInv, AttemptInv
<1>6. Stored' = Stored /\ Incomplete("publish_name")' = Incomplete("publish_name")
  BY DEF observe_visible, Stored, Incomplete, outbox, challenge
<1>7. PublishInv(w)'
  BY <1>3, <1>4, <1>5, <1>6
     DEF observe_visible, Visible, PublishInv, Writing, Other, installation, outbox, zone
<1>8. ReconcileInv(w)'
  BY <1>3, <1>4, <1>5, <1>6
     DEF observe_visible, Visible, ReconcileInv, Writing, installation, outbox, challenge, zone
<1>9. RemoveInv(w)'
  BY <1>3, <1>4, <1>5 DEF observe_visible, Visible, RemoveInv, Writing, installation, outbox, zone
<1>10. LockInv' /\ RowInv' /\ AttemptInv'
  BY <1>3, <1>4, <1>7, <1>8, <1>9, InnerStep DEF observe_visible, PCs
<1> QED BY <1>1, <1>2, <1>10 DEF IInv

(* Becoming ready: the records observed are the current ones, or a later   *)
(* registration's own job is still to come.                                *)
LEMMA MarkDnsReadyInv ==
  ASSUME IInv, NEW w \in Workers, mark_dns_ready(w) PROVE IInv'
<1>1. TypeInv'
  BY ProgressType DEF IInv, Progress
<1>2. pc[w] = "mark" /\ pc'[w] = "complete" /\ kind[job[w]] = "publish_name"
  BY DEF mark_dns_ready, Goto, IInv, TypeInv, TypeOK
<1>3. PublishInv(w)
  BY <1>2 DEF IInv, AttemptInv
<1>4. /\ state # "retired" /\ state' # "retired"
      /\ name = NameRecords(placement, uri) \/ Other(w)
  BY <1>2, <1>3 DEF mark_dns_ready, PublishInv, Writing
<1>5. /\ Stored' = Stored
      /\ \A k : Incomplete(k)' = Incomplete(k)
  BY DEF mark_dns_ready, Stored, Incomplete, outbox, challenge
<1>6. PublishInv(w)'
  BY <1>2, <1>4, <1>5 DEF mark_dns_ready, PublishInv, Writing, Other, zone
<1>7. ReconcileInv(w)' /\ RemoveInv(w)'
  BY <1>2 DEF mark_dns_ready, ReconcileInv, RemoveInv, outbox
<1>8. LockInv' /\ RowInv' /\ AttemptInv'
  BY <1>2, <1>6, <1>7, InnerStep DEF mark_dns_ready, PCs
<1>9. StateInv'
  BY <1>2, <1>5 DEF mark_dns_ready, IInv, StateInv, outbox
<1>10. SettleInv'
  BY <1>4, <1>5 DEF mark_dns_ready, SettleInv, Other, zone
<1>11. CleanInv'
  BY <1>4 DEF CleanInv
<1>12. ReadyInv'
  BY <1>5 DEF mark_dns_ready, IInv, ReadyInv, challenge, zone
<1> QED BY <1>1, <1>8, <1>9, <1>10, <1>11, <1>12 DEF IInv

(* Marking a revision ready: only the one whose values were observed.      *)
LEMMA MarkReconciledInv ==
  ASSUME IInv, NEW w \in Workers, mark_challenge_reconciled(w) PROVE IInv'
<1>1. TypeInv'
  BY ProgressType DEF IInv, Progress
<1>2. pc[w] = "mark" /\ pc'[w] = "complete" /\ kind[job[w]] = "reconcile_txt"
  BY DEF mark_challenge_reconciled, Goto, IInv, TypeInv, TypeOK
<1>3. ReconcileInv(w)
  BY <1>2 DEF IInv, AttemptInv
<1>4. /\ Stored' = Stored
      /\ \A k : Incomplete(k)' = Incomplete(k)
  BY DEF mark_challenge_reconciled, Stored, Incomplete, outbox
<1>5. ReconcileInv(w)' /\ PublishInv(w)' /\ RemoveInv(w)'
  BY <1>2 DEF mark_challenge_reconciled, ReconcileInv, PublishInv, RemoveInv, Writing, outbox
<1>6. LockInv' /\ RowInv' /\ AttemptInv'
  BY <1>2, <1>5, InnerStep DEF mark_challenge_reconciled, PCs
<1>7. StateInv' /\ SettleInv' /\ CleanInv'
  BY <1>4 DEF mark_challenge_reconciled, IInv, StateInv, SettleInv, CleanInv, installation,
              outbox, zone
<1>8. revision = planRev[w] => Stored \subseteq txt
  BY <1>2, <1>3 DEF ReconcileInv, Writing
<1>9. ReadyInv'
  <2>1. /\ revision' = revision /\ txt' = txt /\ revision \in Nat
        /\ ready' = IF revision = planRev[w] THEN planRev[w] ELSE ready
    BY DEF mark_challenge_reconciled, zone, IInv, TypeInv, TypeOK
  <2> QED BY <1>4, <1>8, <2>1 DEF IInv, ReadyInv
<1> QED BY <1>1, <1>6, <1>7, <1>9 DEF IInv

(* An attempt that is over leaves every other attempt as it was: nobody    *)
(* else is past the lock.                                                  *)
LEMMA ReleaseKeeps ==
  ASSUME IInv, NEW w \in Workers, pc[w] # "idle", Release(w),
         lock' = IF lock = w THEN Nobody ELSE lock,
         kind' = kind, \A j \in Jobs : j # job[w] => status'[j] = status[j],
         lock # w => UNCHANGED <<installation, outbox, challenge, zone>>
  PROVE  LockInv' /\ RowInv' /\ AttemptInv'
<1>1. /\ pc' = [pc EXCEPT ![w] = "idle"] /\ pc \in [Workers -> PCs]
      /\ job' = [job EXCEPT ![w] = 0] /\ job \in [Workers -> Jobs \cup {0}]
      /\ plan' = [plan EXCEPT ![w] = {}] /\ planRev' = [planRev EXCEPT ![w] = 0]
      /\ plan \in [Workers -> SUBSET (Record \cup Values)] /\ planRev \in [Workers -> Nat]
  BY DEF Release, Goto, IInv, TypeInv, TypeOK
<1>2. \A u \in Workers : u # w =>
        pc'[u] = pc[u] /\ job'[u] = job[u] /\ plan'[u] = plan[u] /\ planRev'[u] = planRev[u]
  BY <1>1
<1>3. pc'[w] = "idle"
  BY <1>1
<1>4. LockInv'
  BY <1>2, <1>3 DEF IInv, LockInv
<1>5. RowInv'
  BY <1>2, <1>3 DEF IInv, RowInv, TypeInv, JobInv
<1>6. CASE lock = w
  <2>1. \A u \in Workers : pc'[u] \in {"idle", "claimed"}
    BY <1>2, <1>3, <1>6, HeldLock
  <2> QED BY <1>4, <1>5, <2>1, Quiet
<1>7. CASE lock # w
  <2> SUFFICES ASSUME NEW u \in Workers, pc'[u] # "idle"
               PROVE  PublishInv(u)' /\ ReconcileInv(u)' /\ RemoveInv(u)'
    BY <1>4, <1>5 DEF AttemptInv
  <2>1. u # w
    BY <1>3
  <2>2. PublishInv(u) /\ ReconcileInv(u) /\ RemoveInv(u)
    BY <1>2, <2>1 DEF IInv, AttemptInv
  <2> QED
    BY <1>2, <1>7, <2>1, <2>2 DEF PublishInv, ReconcileInv, RemoveInv, Other, Incomplete, Stored,
                             installation, outbox, challenge, zone
<1> QED BY <1>4, <1>5, <1>6, <1>7

(* A job is crossed off only when its effect is in the zone, or another    *)
(* job of its kind will see to it.                                         *)
LEMMA CompleteInv ==
  ASSUME IInv, NEW w \in Workers, complete(w) PROVE IInv'
<1>1. TypeInv'
  BY ProgressType DEF IInv, Progress
<1>2. /\ pc[w] = "complete" /\ lock = w /\ job[w] \in Jobs
      /\ kind' = kind /\ status' = [status EXCEPT ![job[w]] = "done"]
      /\ \A j \in Jobs : j # job[w] => status'[j] = status[j]
  BY DEF complete, IInv, TypeInv, TypeOK, JobInv
<1>3. PublishInv(w) /\ RemoveInv(w)
  BY <1>2 DEF IInv, AttemptInv
<1>4. LockInv' /\ RowInv' /\ AttemptInv'
  BY <1>2, ReleaseKeeps DEF complete
<1>5. \A k : Incomplete(k) \ {job[w]} \subseteq Incomplete(k)'
  BY <1>2 DEF Incomplete
<1>6. \A k : k # kind[job[w]] => Incomplete(k) \subseteq Incomplete(k)'
  BY <1>5 DEF Incomplete
<1>7. /\ state' = state /\ placement' = placement /\ uri' = uri /\ Stored' = Stored
      /\ name' = name /\ txt' = txt
  BY DEF complete, installation, challenge, zone, Stored
<1>8. StateInv'
  <2>1. state # "absent"
    BY <1>2 DEF IInv, StateInv, RowInv
  <2> QED BY <1>7, <2>1 DEF IInv, StateInv
<1>9. SettleInv'
  <2>1. CASE kind[job[w]] = "publish_name"
    BY <1>2, <1>3, <1>5, <1>7, <2>1 DEF SettleInv, PublishInv, Other
  <2>2. CASE kind[job[w]] # "publish_name"
    BY <1>6, <1>7, <2>2 DEF IInv, SettleInv
  <2> QED BY <2>1, <2>2
<1>10. CleanInv'
  <2>1. state = "retired" => name = {} \/ Incomplete("remove_records")' # {}
    <3>1. CASE kind[job[w]] = "remove_records"
      BY <1>2, <1>3, <3>1 DEF RemoveInv
    <3>2. CASE kind[job[w]] # "remove_records"
      BY <1>6, <3>2 DEF IInv, CleanInv
    <3> QED BY <3>1, <3>2
  <2>2. state = "retired" => txt = {} \/ Incomplete("remove_txt_all")' # {}
    <3>1. CASE kind[job[w]] = "remove_txt_all"
      BY <1>2, <1>3, <3>1 DEF RemoveInv
    <3>2. CASE kind[job[w]] # "remove_txt_all"
      BY <1>6, <3>2 DEF IInv, CleanInv
    <3> QED BY <3>1, <3>2
  <2> QED BY <1>7, <2>1, <2>2 DEF CleanInv
<1>11. ReadyInv'
  BY <1>7 DEF complete, IInv, ReadyInv, challenge
<1> QED BY <1>1, <1>4, <1>8, <1>9, <1>10, <1>11 DEF IInv

LEMMA DeferInv ==
  ASSUME IInv, NEW w \in Workers, defer(w) PROVE IInv'
<1>1. TypeInv'
  BY FailureType DEF IInv, Failure
<1>2. /\ pc[w] = "defer" /\ lock = w /\ job[w] \in Jobs /\ status[job[w]] = "due"
      /\ kind' = kind /\ status' = [status EXCEPT ![job[w]] = "backoff"]
      /\ \A j \in Jobs : j # job[w] => status'[j] = status[j]
  BY DEF defer, IInv, TypeInv, TypeOK, JobInv, RowInv
<1>3. LockInv' /\ RowInv' /\ AttemptInv'
  BY <1>2, ReleaseKeeps DEF defer
<1>4. \A k : Incomplete(k) \subseteq Incomplete(k)'
  BY <1>2 DEF Incomplete, IInv, TypeInv, TypeOK
<1>5. /\ state' = state /\ placement' = placement /\ uri' = uri /\ Stored' = Stored
      /\ name' = name /\ txt' = txt
  BY DEF defer, installation, challenge, zone, Stored
<1>6. StateInv'
  <2>1. state # "absent"
    BY <1>2 DEF IInv, StateInv
  <2> QED BY <1>5, <2>1 DEF IInv, StateInv
<1>7. SettleInv' /\ CleanInv'
  BY <1>4, <1>5 DEF IInv, SettleInv, CleanInv
<1>8. ReadyInv'
  BY <1>5 DEF defer, IInv, ReadyInv, challenge
<1> QED BY <1>1, <1>3, <1>6, <1>7, <1>8 DEF IInv

LEMMA RollbackInv ==
  ASSUME IInv, NEW w \in Workers, rollback(w) PROVE IInv'
<1>1. TypeInv'
  BY FailureType DEF IInv, Failure
<1>2. StateInv' /\ SettleInv' /\ CleanInv' /\ ReadyInv'
  BY StillInv DEF rollback
<1>3. LockInv' /\ RowInv' /\ AttemptInv'
  BY ReleaseKeeps DEF rollback, outbox
<1> QED BY <1>1, <1>2, <1>3 DEF IInv

-----------------------------------------------------------------------------
(***************************************************************************)
(* The invariant of every execution in which claims keep their connection. *)
(***************************************************************************)
LEMMA NextInv ==
  ASSUME ~ConnectionLoss, IInv, [Next]_vars PROVE IInv'
<1>1. CASE UNCHANGED vars
  BY <1>1 DEF vars, installation, outbox, challenge, zone, worker, IInv, TypeInv, TypeOK, JobInv,
     PlanInv, Typed, LockInv, RowInv, StateInv, AttemptInv, PublishInv, ReconcileInv, RemoveInv,
     SettleInv, CleanInv, ReadyInv, Other, Incomplete, Stored, Writing
<1>2. CASE Requests
  BY <1>2, RequestsInv
<1>3. CASE \E j \in Jobs : backoff_over(j)
  BY <1>3, BackoffInv
<1>4. ASSUME NEW w \in Workers, Progress(w) PROVE IInv'
  BY <1>4, ClaimJobInv, ClaimLockInv, ProcessPublishInv, ProcessReconcileInv, ChallengeTargetInv,
     ProcessRemoveInv, ProviderInv, ObserveVisibleInv, MarkDnsReadyInv, MarkReconciledInv,
     CompleteInv DEF Progress, Provides
<1>5. ASSUME NEW w \in Workers, Failure(w) PROVE IInv'
  BY <1>5, AttemptFailsInv, DeferInv, RollbackInv DEF Failure, lose_connection
<1> QED BY <1>1, <1>2, <1>3, <1>4, <1>5 DEF Next

LEMMA SpecInv == ASSUME ~ConnectionLoss PROVE Spec => []IInv
<1>1. Init => IInv
  BY InitInv
<1>2. IInv /\ [Next]_vars => IInv'
  BY NextInv
<1> QED BY <1>1, <1>2, PTL DEF Spec

(* A move or a retirement never overtakes an attempt that is about to      *)
(* write or observe a name: relocate, retire and the sweep wait for the    *)
(* advisory lock every such attempt holds. Without ~ConnectionLoss this is *)
(* false: MCDnsOvertaken.                                                  *)
THEOREM NoOvertaking == ASSUME ~ConnectionLoss PROVE Spec => []MoveNeverOvertakesWrite
<1>1. IInv => MoveNeverOvertakesWrite
  BY DEF IInv, AttemptInv, PublishInv, MoveNeverOvertakesWrite, Writing
<1> QED BY <1>1, SpecInv, PTL

(* With no publish_name job outstanding, a ready name carries its current  *)
(* placement and account, although register_acme_account does not wait for *)
(* the attempt in flight.                                                  *)
THEOREM NameSettled == ASSUME ~ConnectionLoss PROVE Spec => []NameSettles
<1>1. IInv => NameSettles
  BY DEF IInv, SettleInv, NameSettles
<1> QED BY <1>1, SpecInv, PTL

(* Once a retired installation's removal job is done, its records are gone *)
(* and no late attempt brings them back.                                   *)
THEOREM CleanupFinal == ASSUME ~ConnectionLoss PROVE Spec => []CleanupIsFinal
<1>1. IInv => CleanupIsFinal
  BY DEF IInv, CleanInv, CleanupIsFinal
<1> QED BY <1>1, SpecInv, PTL

(* A challenge value the relay reports ready is in the zone, whatever      *)
(* ensures, refreshes that revive a lapsed value at the revision already   *)
(* marked, sweeps and attempts interleaved with its publication.           *)
THEOREM ReadyPublished == ASSUME ~ConnectionLoss PROVE Spec => []ReadyValueIsPublished
<1>1. IInv => ReadyValueIsPublished
  BY DEF IInv, ReadyInv, ReadyValueIsPublished, challenge_value_ready, Stored
<1> QED BY <1>1, SpecInv, PTL

-----------------------------------------------------------------------------
(***************************************************************************)
(* What does not depend on the advisory lock.                              *)
(***************************************************************************)

(* ensure_challenge_value counts the values it takes for live before it    *)
(* adds one, and drops every other.                                        *)
LEMMA EnsurePublishable ==
  ASSUME TypeOK, NEW v \in Values, NEW D \in SUBSET Lapsed, v \notin Stored \ D,
         Cardinality(Stored \ D) < MaxLive, challenge_set_changed(D, {v})
  PROVE  StoredSetIsPublishable'
<1> DEFINE Live == Stored \ D
<1>1. IsFiniteSet(Live)
  BY DnsAssumption, FS_Subset DEF DnsAssumption, Stored
<1>2. Stored' = Live \cup {v}
  BY DEF challenge_set_changed, Stored, TypeOK
<1>3. v \notin Live /\ Cardinality(Live) < MaxLive
  OBVIOUS
<1> HIDE DEF Live
<1>4. Cardinality(Live \cup {v}) = Cardinality(Live) + 1
  BY <1>1, <1>3, FS_AddElement
<1>5. Cardinality(Live) \in Nat
  BY <1>1, FS_CardinalityType
<1>6. Cardinality(Stored') <= MaxLive
  BY <1>2, <1>3, <1>4, <1>5, DnsAssumption DEF DnsAssumption
<1> QED BY <1>6 DEF StoredSetIsPublishable, validate_challenge_values

(* Every other step leaves the stored set alone or shrinks it.             *)
LEMMA StoredShrinks ==
  ASSUME TypeOK, [Next]_vars, \A v \in Values : ensure_challenge_value(v) => Refreshed(v)
  PROVE  Stored' \subseteq Stored
<1>1. CASE Requests
  <2>1. ASSUME NEW v \in Values, ensure_challenge_value(v) PROVE Stored' \subseteq Stored
    BY <2>1 DEF Refreshed, Stored, TypeOK
  <2>2. ASSUME expire_challenge_values PROVE Stored' \subseteq Stored
    BY <2>2 DEF expire_challenge_values, challenge_set_changed, Stored
  <2>3. CASE \E v \in Values : lapse(v)
    BY <2>3 DEF lapse, Stored, TypeOK
  <2>4. CASE retire
    BY <2>4 DEF retire, Stored
  <2>5. CASE \/ \E p \in Placements : allocate(p) \/ relocate(p)
             \/ \E u \in Uris : register_acme_account(u)
             \/ expire_pending_allocations
    BY <2>5 DEF allocate, relocate, register_acme_account, expire_pending_allocations, challenge,
       Stored
  <2> QED BY <1>1, <2>1, <2>2, <2>3, <2>4, <2>5 DEF Requests
<1>2. ASSUME NEW w \in Workers, Progress(w) PROVE values' = values
  BY <1>2 DEF Progress, claim_job, claim_lock, process_publish, process_reconcile,
     challenge_target, process_remove, provider_list, provider_create, provider_delete,
     provider_batch, observe_visible, mark_dns_ready, mark_challenge_reconciled, complete, challenge
<1>3. ASSUME NEW w \in Workers, Failure(w) PROVE values' = values
  BY <1>3 DEF Failure, attempt_fails, defer, rollback, lose_connection, challenge
<1>4. ASSUME NEW j \in Jobs, backoff_over(j) PROVE values' = values
  BY <1>4 DEF backoff_over, challenge
<1>5. CASE UNCHANGED vars
  BY <1>5 DEF vars, challenge, Stored
<1> QED BY <1>1, <1>2, <1>3, <1>4, <1>5 DEF Next, Stored

(* The stored challenge set, lapsed members included, never outgrows       *)
(* MAX_LIVE_CHALLENGE_VALUES, so that providers never refuse it.           *)
THEOREM Publishable == Spec => []StoredSetIsPublishable
<1>1. Init => StoredSetIsPublishable
  <2> SUFFICES ASSUME Init PROVE Cardinality(Stored) <= MaxLive
    BY DEF StoredSetIsPublishable, validate_challenge_values
  <2>1. Stored = {}
    BY DEF Init, Stored
  <2> QED BY <2>1, FS_EmptySet, DnsAssumption DEF DnsAssumption
<1>2. TypeOK /\ StoredSetIsPublishable /\ [Next]_vars => StoredSetIsPublishable'
  <2> SUFFICES ASSUME TypeOK, StoredSetIsPublishable, [Next]_vars
               PROVE  StoredSetIsPublishable'
    OBVIOUS
  <2>1. ASSUME NEW v \in Values, ensure_challenge_value(v), ~Refreshed(v)
        PROVE  StoredSetIsPublishable'
    BY <2>1, EnsurePublishable DEF ensure_challenge_value, Refreshed
  <2>2. CASE \A v \in Values : ensure_challenge_value(v) => Refreshed(v)
    <3>1. IsFiniteSet(Stored)
      BY DnsAssumption, FS_Subset DEF DnsAssumption, Stored
    <3>2. /\ Cardinality(Stored') <= Cardinality(Stored)
          /\ Cardinality(Stored') \in Nat /\ Cardinality(Stored) \in Nat
      BY <2>2, <3>1, StoredShrinks, FS_Subset, FS_CardinalityType
    <3> QED BY <3>2, DnsAssumption DEF DnsAssumption, StoredSetIsPublishable,
                                       validate_challenge_values
  <2> QED BY <2>1, <2>2
<1> QED BY <1>1, <1>2, TypeCorrect, PTL DEF Spec

-----------------------------------------------------------------------------
(***************************************************************************)
(* The wildcard denial. An attempt orders its requests by the records it   *)
(* listed, so the order protects the denial only while the listing is      *)
(* still true, that is under the advisory lock (DenialInv's second part).  *)
(***************************************************************************)

(* A publication's records, or nothing at all for a removal.               *)
Publication(S) == S = {} \/ \E p \in Placements, u \in Uris : S = NameRecords(p, u)

Denied(S) == (\E u \in Uris : <<"issue", u>> \in S) => IssueWild \in S

DenialInv ==
  /\ Denied(name)
  /\ \A w \in Workers :
       pc[w] = "requests" /\ job_allowed("serving", kind[job[w]]) => listed[w] = name

(* What a serving attempt is to publish.                                   *)
LEMMA PlanIsPublication ==
  ASSUME IInv, NEW w \in Workers, pc[w] \in Writing, job_allowed("serving", kind[job[w]])
  PROVE  Publication(plan[w])
<1>1. PublishInv(w) /\ RemoveInv(w)
  BY DEF IInv, AttemptInv, Writing
<1>2. PlacementOf[w] \in Placements
  BY DnsAssumption DEF DnsAssumption
<1> QED BY <1>1, <1>2 DEF PublishInv, RemoveInv, job_allowed, Publication

(* The denial is created before an authorization ...                       *)
LEMMA CreateCarriesDenial ==
  ASSUME NEW old, NEW desired, Denied(old), Publication(desired), NEW r \in desired \ old,
         \A s \in desired \ old : create_rank(r) <= create_rank(s)
  PROVE  Denied(old \cup {r})
<1> SUFFICES ASSUME NEW u \in Uris, r = <<"issue", u>>, IssueWild \notin old PROVE FALSE
  BY DEF Denied
<1>1. create_rank(IssueWild) = 0 /\ create_rank(r) = 1
  BY DEF create_rank, IssueWild
<1>2. IssueWild \in desired
  BY DEF Publication, NameRecords
<1> QED BY <1>1, <1>2

(* ... and deleted after every one.                                        *)
LEMMA DeleteCarriesDenial ==
  ASSUME NEW old, NEW desired, Denied(old), Publication(desired), NEW r \in old \ desired,
         \A s \in old \ desired : delete_rank(r) <= delete_rank(s)
  PROVE  Denied(old \ {r})
<1> SUFFICES ASSUME NEW u \in Uris, <<"issue", u>> \in old, r = IssueWild PROVE FALSE
  BY DEF Denied
<1>1. delete_rank(IssueWild) = 2 /\ delete_rank(<<"issue", u>>) = 0
  BY DEF delete_rank, IssueWild
<1>2. desired = {}
  BY DEF Publication, NameRecords
<1> QED BY <1>1, <1>2

(* A step that writes no name and starts no requests.                      *)
LEMMA DenialKept ==
  ASSUME IInv, DenialInv, UNCHANGED name,
         \A w \in Workers :
           pc'[w] = "requests" =>
             /\ pc[w] = "requests"
             /\ listed'[w] = listed[w] /\ job'[w] = job[w] /\ kind'[job[w]] = kind[job[w]]
  PROVE  DenialInv'
BY DEF DenialInv

LEMMA RequestsDenial ==
  ASSUME IInv, DenialInv, Requests \/ \E j \in Jobs : backoff_over(j) PROVE DenialInv'
<1>1. OutboxTypeOK
  BY DEF IInv, TypeInv, TypeOK, OutboxTypeOK
<1>2. \A k : Queue(k) /\ k \in Kinds => RowsKept
  BY <1>1, QueueAdds
<1>3. QueueCleanup => RowsKept
  BY <1>1, QueueCleanupAdds
<1>4. /\ UNCHANGED <<name, worker>>
      /\ RowsKept \/ UNCHANGED kind
  BY <1>2, <1>3 DEF Requests, allocate, relocate, register_acme_account, ensure_challenge_value,
     challenge_set_changed, lapse, expire_challenge_values, expire_pending_allocations, retire,
     backoff_over, zone, outbox, Kinds
<1>5. \A w \in Workers : pc[w] # "idle" => kind'[job[w]] = kind[job[w]]
  BY <1>4 DEF RowsKept, IInv, TypeInv, JobInv
<1> QED BY <1>4, <1>5, DenialKept DEF worker

(* A provider's answer: what the worker keeps of it is what the name holds.*)
LEMMA AnsweredDenial ==
  ASSUME IInv, NEW w \in Workers, NEW S, pc[w] \in {"write", "requests"},
         Denied(name'), job_allowed("serving", kind[job[w]]) => S = name',
         Goto(w, "observe") \/ (Goto(w, "requests") /\ listed' = [listed EXCEPT ![w] = S]),
         UNCHANGED <<outbox, job>>
  PROVE  DenialInv'
<1>1. lock = w
  BY DEF IInv, LockInv
<1>2. \A u \in Workers : u # w => pc[u] # "requests"
  BY <1>1, HeldLock
<1> QED BY <1>2 DEF DenialInv, Goto, IInv, TypeInv, TypeOK, outbox

LEMMA ProviderDenial ==
  ASSUME IInv, DenialInv, NEW w \in Workers, Provides(w) PROVE DenialInv'
<1> DEFINE serves == job_allowed("serving", kind[job[w]])
<1>1. pc[w] \in {"write", "requests"} /\ UNCHANGED <<outbox, job>>
  BY DEF Provides, provider_list, provider_create, provider_delete, provider_batch
<1>2. serves => Publication(plan[w])
  BY <1>1, PlanIsPublication DEF Writing
<1>3. \A S : Publication(S) => Denied(S)
  BY DEF Publication, Denied, NameRecords, IssueWild
<1>4. Denied(name) /\ (pc[w] = "requests" /\ serves => listed[w] = name)
  BY DEF DenialInv
<1>5. CASE provider_list(w)
  BY <1>1, <1>4, <1>5, AnsweredDenial DEF provider_list, Answered, Zone, Serving, zone
<1>6. CASE provider_create(w)
  <2>1. PICK r \in Missing(w) :
          /\ Serving(w) => \A s \in Missing(w) : create_rank(r) <= create_rank(s)
          /\ WriteZone(w, Zone(w) \cup {r})
          /\ Answered(w, listed[w] \cup {r})
    BY <1>6 DEF provider_create
  <2>2. pc[w] = "requests"
    BY <1>6 DEF provider_create
  <2>3. CASE serves
    <3>1. name' = name \cup {r} /\ listed[w] = name
      BY <1>4, <2>1, <2>2, <2>3 DEF WriteZone, Zone, Serving
    <3>2. Denied(name')
      BY <1>2, <1>4, <2>1, <2>3, <3>1, CreateCarriesDenial DEF Missing, Serving
    <3> QED BY <1>1, <2>1, <3>1, <3>2, AnsweredDenial DEF Answered
  <2>4. CASE ~serves
    <3>1. name' = name
      BY <2>1, <2>4 DEF WriteZone, Serving
    <3> QED BY <1>1, <1>4, <2>1, <2>4, <3>1, AnsweredDenial DEF Answered
  <2> QED BY <2>3, <2>4
<1>7. CASE provider_delete(w)
  <2>1. PICK r \in Stale(w) :
          /\ Serving(w) => \A s \in Stale(w) : delete_rank(r) <= delete_rank(s)
          /\ WriteZone(w, Zone(w) \ {r})
          /\ Answered(w, listed[w] \ {r})
    BY <1>7 DEF provider_delete
  <2>2. pc[w] = "requests"
    BY <1>7 DEF provider_delete
  <2>3. CASE serves
    <3>1. name' = name \ {r} /\ listed[w] = name
      BY <1>4, <2>1, <2>2, <2>3 DEF WriteZone, Zone, Serving
    <3>2. Denied(name')
      BY <1>2, <1>4, <2>1, <2>3, <3>1, DeleteCarriesDenial DEF Stale, Serving
    <3> QED BY <1>1, <2>1, <3>1, <3>2, AnsweredDenial DEF Answered
  <2>4. CASE ~serves
    <3>1. name' = name
      BY <2>1, <2>4 DEF WriteZone, Serving
    <3> QED BY <1>1, <1>4, <2>1, <2>4, <3>1, AnsweredDenial DEF Answered
  <2> QED BY <2>3, <2>4
<1>8. CASE provider_batch(w)
  <2>1. /\ serves => name' = plan[w]
        /\ ~serves => name' = name
        /\ Goto(w, "observe")
    BY <1>8 DEF provider_batch, WriteZone, Serving, Answered
  <2> QED BY <1>1, <1>2, <1>3, <1>4, <2>1, AnsweredDenial
<1> QED BY <1>5, <1>6, <1>7, <1>8 DEF Provides

LEMMA WorkerDenial ==
  ASSUME IInv, DenialInv, NEW w \in Workers, ~ConnectionLoss, Progress(w) \/ Failure(w)
  PROVE  DenialInv'
<1> USE DEF Goto, IInv, TypeInv
<1>1. CASE process_publish(w) \/ process_reconcile(w)
  BY <1>1, DenialKept DEF process_publish, process_reconcile, TypeOK, outbox, zone
<1>2. CASE challenge_target(w) \/ process_remove(w) \/ claim_lock(w)
  BY <1>2, DenialKept DEF challenge_target, process_remove, claim_lock, TypeOK, outbox, zone
<1>3. CASE Provides(w)
  BY <1>3, ProviderDenial
<1>4. CASE observe_visible(w) \/ mark_dns_ready(w) \/ mark_challenge_reconciled(w)
  BY <1>4, DenialKept
     DEF observe_visible, mark_dns_ready, mark_challenge_reconciled, TypeOK, outbox, zone
<1>5. CASE attempt_fails(w)
  BY <1>5, DenialKept DEF attempt_fails, TypeOK, outbox, zone
<1>6. CASE claim_job(w)
  <2>1. PICK j \in Jobs : job' = [job EXCEPT ![w] = j]
    BY <1>6 DEF claim_job, Claimable
  <2> QED BY <1>6, <2>1, DenialKept DEF claim_job, TypeOK, outbox, zone
<1>7. CASE complete(w) \/ defer(w) \/ rollback(w)
  BY <1>7, DenialKept DEF complete, defer, rollback, Release, TypeOK, outbox, zone
<1> QED BY <1>1, <1>2, <1>3, <1>4, <1>5, <1>6, <1>7 DEF Progress, Failure, Provides, lose_connection

(* While claims keep their connection, wherever a publication or a removal *)
(* stops, between any two of its requests, the name never carries an       *)
(* account authorization without the wildcard denial. Two attempts that    *)
(* overlap after a lost connection can leave one: MCDnsUndenied.           *)
THEOREM DenialCarried == ASSUME ~ConnectionLoss PROVE Spec => []AuthorizationCarriesDenial
<1>1. Init => IInv /\ DenialInv
  BY InitInv DEF Init, DenialInv, Denied
<1>2. IInv /\ DenialInv /\ [Next]_vars => (IInv /\ DenialInv)'
  <2> SUFFICES ASSUME IInv, DenialInv, [Next]_vars PROVE DenialInv'
    BY NextInv
  <2>1. CASE UNCHANGED vars
    BY <2>1 DEF vars, outbox, zone, worker, DenialInv
  <2> QED BY <2>1, RequestsDenial, WorkerDenial DEF Next
<1>3. DenialInv => AuthorizationCarriesDenial
  BY DEF DenialInv, Denied, AuthorizationCarriesDenial
<1> QED BY <1>1, <1>2, <1>3, PTL DEF Spec
=============================================================================
