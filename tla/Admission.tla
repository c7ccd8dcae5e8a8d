------------------------------ MODULE Admission ------------------------------
(***************************************************************************)
(* Admission: bootstrap challenges and their quotas, and enrolment by      *)
(* operation id (bloom-relay-store, bloom-relay-control).                  *)
(*                                                                         *)
(* Time is the database's clock. A transaction that issues a challenge     *)
(* reads now() as the time it began, which may be long before it gets the  *)
(* quota lock. Every await of a handler that another task can interleave   *)
(* with ends a step.                                                       *)
(***************************************************************************)
EXTENDS Integers, FiniteSets

CONSTANTS
  Clients,        \* enrolling hosts: each has its source address and admin key
  NoClient,       \* no client
  Operations,     \* operation ids the clients enrol with
  NoOperation,    \* no operation id
  Handlers,       \* API handler tasks
  Nobody,         \* no handler
  PlacementOf,    \* the placement each handler's host is configured with
  Placements,
  Local,          \* challenges per source and minute (10)
  Global,         \* challenges per minute (100)
  Daily,          \* completed enrolments per source and day (20)
  Minute,         \* life of a challenge and window of its quotas
  Day,
  Retention,      \* age at which challenge history is pruned (2 days)
  MaxStall,       \* how long a handler may take between two awaits
  MaxChallenges,  \* bound: challenges ever issued
  MaxInstallations, \* bound: installations ever allocated
  MaxTime         \* bound: the clock

(* The last conjunct is what the intervals of the code leave room for: a   *)
(* pruned row is more than two days old, which is a day, a minute and      *)
(* almost a day of delay.                                                  *)
ASSUME AdmissionAssumption ==
  /\ NoClient \notin Clients
  /\ NoOperation \notin Operations
  /\ Nobody \notin Handlers
  /\ PlacementOf \in [Handlers -> Placements]
  /\ {Local, Global, Daily, Minute, Day, MaxTime} \subseteq Nat \ {0}
  /\ {Retention, MaxStall, MaxChallenges, MaxInstallations} \subseteq Nat
  /\ MaxStall + Day + Minute <= Retention + 1

Nonces == 1 .. MaxChallenges
Ids    == 1 .. MaxInstallations

VARIABLES
  now,            \* the database's clock
  challenge,      \* bootstrap_challenges ever issued, by nonce
  pruned,         \* those the sweeper has deleted
  lock,           \* who holds the bootstrap-quota advisory lock
  installations,  \* the installations
  operation,      \* operations: the installation of each operation id, or 0
  receipts,       \* the signed receipts: which installation for which operation
  task            \* what each handler is doing

allocation == <<installations, operation>>

vars == <<now, challenge, pruned, lock, allocation, receipts, task>>

Unissued == [client |-> NoClient, created |-> 0, consumed |-> 0]
Free == [pc |-> "free", client |-> NoClient, op |-> NoOperation, since |-> 0, ref |-> 0]

Issued == {n \in Nonces : challenge[n].created > 0}
Rows   == Issued \ pruned

Do(h, t) == task' = [task EXCEPT ![h] = t]

-----------------------------------------------------------------------------
(***************************************************************************)
(* POST /v1/bootstrap/challenge: create_bootstrap_challenge.               *)
(***************************************************************************)

(* BEGIN: now() of the whole transaction is the present moment. None       *)
(* begins once MaxChallenges are issued.                                   *)
challenge_begin(h, c) ==
  /\ task[h] = Free
  /\ Issued # Nonces
  /\ Do(h, [Free EXCEPT !.pc = "begun", !.client = c, !.since = now])
  /\ UNCHANGED <<now, challenge, pruned, lock, allocation, receipts>>

(* The three counts, for a transaction of client c that began at t. There  *)
(* is no upper bound on created_at: rows of transactions that began later  *)
(* and committed first are counted too.                                    *)
local_count(c, t) ==
  Cardinality({n \in Rows : challenge[n].client = c /\ challenge[n].created > t - Minute})

global_count(t) == Cardinality({n \in Rows : challenge[n].created > t - Minute})

daily_enrollments(c, t) ==
  Cardinality({n \in Rows : /\ challenge[n].client = c
                            /\ challenge[n].created > t - Day - Minute
                            /\ challenge[n].consumed > 0
                            /\ challenge[n].consumed > t - Day})

OverQuota(c, t) ==
  local_count(c, t) >= Local \/ global_count(t) >= Global \/ daily_enrollments(c, t) >= Daily

Release(h) == lock' = IF lock = h THEN Nobody ELSE lock

(* Slip: the transaction does not wait for the advisory lock.              *)
MutCount(h) ==
  /\ task[h].pc = "begun"
  /\ \/ /\ OverQuota(task[h].client, task[h].since)
        /\ Do(h, Free)
        /\ UNCHANGED lock
     \/ /\ ~OverQuota(task[h].client, task[h].since)
        /\ Do(h, [task[h] EXCEPT !.pc = "issue"])
        /\ lock' = h
  /\ UNCHANGED <<now, challenge, pruned, allocation, receipts>>

(* pg_advisory_xact_lock, then the counts. Over quota, the transaction is  *)
(* rolled back and the answer is 429.                                      *)
challenge_count(h) ==
  /\ task[h].pc = "begun"
  /\ lock = Nobody
  /\ \/ /\ OverQuota(task[h].client, task[h].since)
        /\ Do(h, Free)
        /\ UNCHANGED lock
     \/ /\ ~OverQuota(task[h].client, task[h].since)
        /\ Do(h, [task[h] EXCEPT !.pc = "issue"])
        /\ lock' = h
  /\ UNCHANGED <<now, challenge, pruned, allocation, receipts>>

(* Slip: the row's deadline is written where its creation time belongs.    *)
MutInsert(h) ==
  LET n == Cardinality(Issued) + 1 IN
  /\ task[h].pc = "issue"
  /\ n \in Nonces
  /\ challenge' = [challenge EXCEPT ![n] =
       [client |-> task[h].client, created |-> task[h].since + Minute, consumed |-> 0]]
  /\ Do(h, Free)
  /\ Release(h)
  /\ UNCHANGED <<now, pruned, allocation, receipts>>

(* INSERT and COMMIT, which releases the lock. Nonces are random: new.     *)
challenge_insert(h) ==
  LET n == Cardinality(Issued) + 1 IN
  /\ task[h].pc = "issue"
  /\ n \in Nonces
  /\ challenge' = [challenge EXCEPT ![n] =
       [client |-> task[h].client, created |-> task[h].since, consumed |-> 0]]
  /\ Do(h, Free)
  /\ Release(h)
  /\ UNCHANGED <<now, pruned, allocation, receipts>>

-----------------------------------------------------------------------------
(***************************************************************************)
(* POST /v1/bootstrap/enroll. Any client may enrol with any operation id:  *)
(* one that retries with a new challenge, one set up again with a new key  *)
(* and the operation id it kept, or one that starts a new operation.       *)
(***************************************************************************)

(* A request with challenge n arrives over a connection from c and         *)
(* consume_bootstrap_challenge, one UPDATE, finds the challenge live.      *)
(* Otherwise the answer is 410 and nothing changes.                        *)
enroll(h, n, c, o) ==
  /\ task[h] = Free
  /\ n \in Rows
  /\ challenge[n].client = c
  /\ challenge[n].created + Minute > now
  /\ challenge[n].consumed = 0
  /\ challenge' = [challenge EXCEPT ![n].consumed = now]
  /\ Do(h, [Free EXCEPT !.pc = "lookup", !.client = c, !.op = o])
  /\ UNCHANGED <<now, pruned, lock, allocation, receipts>>

(* Slip: a known operation is answered whoever asks.                       *)
MutLookup(h) ==
  /\ task[h].pc = "lookup"
  /\ \/ /\ operation[task[h].op] = 0
        /\ Do(h, [task[h] EXCEPT !.pc = "create"])
     \/ \E i \in installations :
          /\ i.id = operation[task[h].op]
          /\ Do(h, [task[h] EXCEPT !.pc = "acknowledge", !.ref = i.id])
  /\ UNCHANGED <<now, challenge, pruned, lock, allocation, receipts>>

(* allocate: the operation is looked up and joined with its installation.  *)
(* Another key or placement is a conflict.                                 *)
allocate_lookup(h) ==
  /\ task[h].pc = "lookup"
  /\ \/ /\ operation[task[h].op] = 0
        /\ Do(h, [task[h] EXCEPT !.pc = "create"])
     \/ \E i \in installations :
          /\ i.id = operation[task[h].op]
          /\ IF i.key = task[h].client /\ i.placement = PlacementOf[h]
             THEN Do(h, [task[h] EXCEPT !.pc = "acknowledge", !.ref = i.id])
             ELSE Do(h, Free)
  /\ UNCHANGED <<now, challenge, pruned, lock, allocation, receipts>>

NewInstallation(h) ==
  [id |-> Cardinality(installations) + 1, key |-> task[h].client,
   placement |-> PlacementOf[h]]

(* The installation, its operation row and its publication job are         *)
(* inserted and committed, and the new allocation is the answer.           *)
Allocated(h) ==
  /\ NewInstallation(h).id \in Ids
  /\ installations' = installations \cup {NewInstallation(h)}
  /\ operation' = [operation EXCEPT ![task[h].op] = NewInstallation(h).id]
  /\ Do(h, [task[h] EXCEPT !.pc = "acknowledge", !.ref = NewInstallation(h).id])

(* Slip: operations has no primary key to refuse the second row.           *)
MutCreate(h) ==
  /\ task[h].pc = "create"
  /\ Allocated(h)
  /\ UNCHANGED <<now, challenge, pruned, lock, receipts>>

(* allocate, once the look-up found nothing. The primary key of operations *)
(* refuses the row when another attempt inserted one meanwhile, and the    *)
(* whole transaction is rolled back.                                       *)
allocate_create(h) ==
  /\ task[h].pc = "create"
  /\ \/ /\ operation[task[h].op] = 0
        /\ Allocated(h)
     \/ /\ operation[task[h].op] # 0
        /\ Do(h, Free)
        /\ UNCHANGED allocation
  /\ UNCHANGED <<now, challenge, pruned, lock, receipts>>

(* The witness passed and the receipt is signed for the operation id and   *)
(* the key of the request. Whether it reaches the client is another matter.*)
enroll_receipt(h) ==
  /\ task[h].pc = "acknowledge"
  /\ receipts' = receipts \cup {[op |-> task[h].op, id |-> task[h].ref]}
  /\ Do(h, Free)
  /\ UNCHANGED <<now, challenge, pruned, lock, allocation>>

(* bloom-relay-relocate moves an installation to another placement.        *)
relocate(i, p) ==
  /\ i \in installations
  /\ i.placement # p
  /\ installations' = (installations \ {i}) \cup {[i EXCEPT !.placement = p]}
  /\ UNCHANGED <<now, challenge, pruned, lock, operation, receipts, task>>

-----------------------------------------------------------------------------
(* Slip: challenge history goes as soon as the challenge has expired.      *)
MutPrune ==
  LET old == {n \in Rows : challenge[n].created + Minute <= now} IN
  /\ old # {}
  /\ pruned' = pruned \cup old
  /\ UNCHANGED <<now, challenge, lock, allocation, receipts, task>>

(* The sweeper's prune_bootstrap_and_nonces; its batch of 1000 is more     *)
(* than the bound on challenges.                                           *)
prune_bootstrap_and_nonces ==
  LET old == {n \in Rows : challenge[n].created < now - Retention} IN
  /\ old # {}
  /\ pruned' = pruned \cup old
  /\ UNCHANGED <<now, challenge, lock, allocation, receipts, task>>

(* An await fails or the process dies: an open transaction is rolled back, *)
(* what was committed stays, the caller learns nothing.                    *)
handler_fails(h) ==
  /\ task[h] # Free
  /\ Do(h, Free)
  /\ Release(h)
  /\ UNCHANGED <<now, challenge, pruned, allocation, receipts>>

(* No handler that has a time in hand is stalled longer than MaxStall.     *)
clock_advances ==
  /\ now < MaxTime
  /\ \A h \in Handlers : task[h].since > 0 => now < task[h].since + MaxStall
  /\ now' = now + 1
  /\ UNCHANGED <<challenge, pruned, lock, allocation, receipts, task>>

-----------------------------------------------------------------------------
Init ==
  /\ now = 1
  /\ challenge = [n \in Nonces |-> Unissued]
  /\ pruned = {}
  /\ lock = Nobody
  /\ installations = {}
  /\ operation = [o \in Operations |-> 0]
  /\ receipts = {}
  /\ task = [h \in Handlers |-> Free]

HandlerStep(h) ==
  \/ \E c \in Clients : challenge_begin(h, c)
  \/ \E c \in Clients, n \in Nonces, o \in Operations : enroll(h, n, c, o)
  \/ challenge_count(h) \/ challenge_insert(h)
  \/ allocate_lookup(h) \/ allocate_create(h) \/ enroll_receipt(h)
  \/ handler_fails(h)

Next ==
  \/ clock_advances
  \/ prune_bootstrap_and_nonces
  \/ \E i \in installations, p \in Placements : relocate(i, p)
  \/ \E h \in Handlers : HandlerStep(h)

Spec == Init /\ [][Next]_vars

-----------------------------------------------------------------------------
(***************************************************************************)
(* Properties.                                                             *)
(***************************************************************************)
Challenge ==
  [client : Clients \cup {NoClient}, created : 0 .. MaxTime, consumed : 0 .. MaxTime]
Installation == [id : Ids, key : Clients, placement : Placements]
Receipt == [op : Operations, id : Ids]
Task ==
  [pc : {"free", "begun", "issue", "lookup", "create", "acknowledge"},
   client : Clients \cup {NoClient}, op : Operations \cup {NoOperation},
   since : 0 .. MaxTime, ref : Ids \cup {0}]

(* Every variable keeps the shape its table, clock or task gives it.       *)
TypeOK ==
  /\ now \in 1 .. MaxTime
  /\ challenge \in [Nonces -> Challenge]
  /\ pruned \subseteq Nonces
  /\ lock \in Handlers \cup {Nobody}
  /\ installations \subseteq Installation
  /\ operation \in [Operations -> Ids \cup {0}]
  /\ receipts \subseteq Receipt
  /\ task \in [Handlers -> Task]

(* In no minute does a source get more than Local challenges, or everyone  *)
(* together more than Global, however requests overlap and however long    *)
(* some of them waited for the lock; consumed and pruned ones count.       *)
IssuanceWithinQuota ==
  \A n \in Issued :
    LET minute == {m \in Issued : /\ challenge[m].created <= challenge[n].created
                                  /\ challenge[m].created > challenge[n].created - Minute}
    IN /\ Cardinality(minute) <= Global
       /\ Cardinality({m \in minute : challenge[m].client = challenge[n].client}) <= Local

(* The enrolments of n's source in the day that ends with the one of n.    *)
DayOf(n) ==
  {m \in Issued : /\ challenge[m].client = challenge[n].client
                  /\ challenge[m].consumed > 0
                  /\ challenge[m].consumed <= challenge[n].consumed
                  /\ challenge[m].consumed > challenge[n].consumed - Day}

(* In no day does a source complete more than Daily enrolments and those   *)
(* for which it already had challenges when the last of Daily was counted: *)
(* what was issued stays good, and pruning forgets none that counts.       *)
EnrolmentsPerDayBounded ==
  \A n \in Issued :
    challenge[n].consumed > 0 => Cardinality(DayOf(n)) <= Daily + Local - 1

(* What is documented of the day's quota: no source completes more than    *)
(* Daily enrolments in a day. The count is taken when a challenge is       *)
(* issued and never when one is used, so it does not hold.                 *)
DailyCapHolds ==
  \A n \in Issued : challenge[n].consumed > 0 => Cardinality(DayOf(n)) <= Daily

(* An operation id allocates one installation, however many attempts of it *)
(* overlap or are repeated after a lost answer: every installation belongs *)
(* to an operation, no two to the same one, and every receipt ever signed  *)
(* for an operation names the installation that is still the operation's.  *)
OneInstallationPerOperation ==
  /\ \A i \in installations : \E o \in Operations : operation[o] = i.id
  /\ \A r \in receipts : operation[r.op] = r.id

(* Every receipt that is signed names the installation whose admin key is  *)
(* the requester's own.                                                    *)
ReceiptNamesOwnInstallation ==
  \A h \in Handlers : task[h].pc = "acknowledge" =>
    \E i \in installations : i.id = task[h].ref /\ i.key = task[h].client
=============================================================================
