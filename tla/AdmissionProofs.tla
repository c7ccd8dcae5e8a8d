--------------------------- MODULE AdmissionProofs ---------------------------
(***************************************************************************)
(* Proofs about Admission, for any number of clients and handlers and any  *)
(* quotas, windows and delays that leave history long enough.              *)
(*                                                                         *)
(* The quota lock makes the counts of a transaction hold until it inserts  *)
(* its row (IssueInv), and pruning removes no row that a transaction may   *)
(* still have to count (ClockInv). For the day's quota a challenge counts  *)
(* from the time it is issued until it can no longer be used, or a day     *)
(* after its use (DayInv): that it is used then adds none to any count.    *)
(* An answer in hand names what the operation's row names (EnrolInv), and  *)
(* a row that is there is never written again.                             *)
(***************************************************************************)
EXTENDS Admission, FiniteSetTheorems, TLAPS

(* The issued nonces are the first ones; a challenge is used while it      *)
(* lives, and after it was created.                                        *)
RowInv ==
  /\ Issued = 1 .. Cardinality(Issued)
  /\ \A n \in Nonces :
       /\ challenge[n].created <= now
       /\ challenge[n].consumed <= now
       /\ IF challenge[n].created = 0 THEN challenge[n].consumed = 0
                                      ELSE challenge[n].client \in Clients
       /\ challenge[n].consumed > 0 =>
            /\ challenge[n].created <= challenge[n].consumed
            /\ challenge[n].consumed < challenge[n].created + Minute

(* What is pruned is old; a transaction's time is not.                     *)
ClockInv ==
  /\ \A n \in pruned : n \in Issued /\ challenge[n].created < now - Retention
  /\ \A h \in Handlers :
       /\ task[h].since > 0 => task[h].since <= now /\ now <= task[h].since + MaxStall
       /\ task[h].pc \in {"begun", "issue"} => task[h].since > 0

LockInv == \A h \in Handlers : task[h].pc = "issue" => lock = h

(* The challenges a transaction that began at t has to count: everyone's,  *)
(* client c's, and those of c that were or may yet be used within a day.   *)
Recent(t) == {n \in Issued : challenge[n].created > t - Minute}
RecentOf(c, t) == {n \in Recent(t) : challenge[n].client = c}
UsableOf(c, t) ==
  {n \in Issued : /\ challenge[n].client = c
                  /\ IF challenge[n].consumed > 0 THEN challenge[n].consumed > t - Day
                                                  ELSE challenge[n].created > t - Minute}

Times == 1 .. MaxTime

IssueInv ==
  \A h \in Handlers, c \in Clients, t \in Times :
    task[h].pc = "issue" /\ task[h].client = c /\ task[h].since = t =>
      /\ Cardinality(Recent(t)) < Global
      /\ Cardinality(RecentOf(c, t)) < Local
      /\ Cardinality(UsableOf(c, t)) <= Daily + Local - 2

(* Of client c's challenges those issued by t that count for the day then. *)
OpenOf(c, t) == {n \in UsableOf(c, t) : challenge[n].created <= t}
DayInv ==
  \A c \in Clients, t \in Times :
    t <= now => Cardinality(OpenOf(c, t)) <= Daily + Local - 1

(* A handler at work has its client, one that enrols has its operation     *)
(* too, and one with an answer has the installation of the operation's row.*)
InstallationInv ==
  \A h \in Handlers :
    /\ task[h].pc # "free" => task[h].client \in Clients
    /\ task[h].pc \in {"lookup", "create", "acknowledge"} => task[h].op \in Operations
    /\ task[h].pc = "acknowledge" => operation[task[h].op] = task[h].ref

(* Enrolment: what a handler has in hand, and what the operations have.    *)
EnrolInv ==
  /\ InstallationInv
  /\ OneInstallationPerOperation
  /\ ReceiptNamesOwnInstallation

IInv ==
  /\ TypeOK
  /\ RowInv
  /\ ClockInv
  /\ LockInv
  /\ IssueInv
  /\ IssuanceWithinQuota
  /\ DayInv
  /\ EnrolInv
-----------------------------------------------------------------------------
(***************************************************************************)
(* Type correctness.                                                       *)
(***************************************************************************)
LEMMA Constants ==
  /\ Local \in Nat \ {0} /\ Global \in Nat \ {0} /\ Daily \in Nat \ {0}
  /\ Minute \in Nat \ {0} /\ Day \in Nat \ {0} /\ MaxTime \in Nat \ {0}
  /\ Retention \in Nat /\ MaxStall \in Nat /\ MaxChallenges \in Nat /\ MaxInstallations \in Nat
  /\ NoClient \notin Clients /\ Nobody \notin Handlers
  /\ MaxStall + Day + Minute <= Retention + 1
  /\ \A h \in Handlers : PlacementOf[h] \in Placements
BY AdmissionAssumption DEF AdmissionAssumption

LEMMA FreeType == Free \in Task /\ Free.pc = "free" /\ Free.since = 0
BY Constants DEF Free, Task

(* What a handler is given to do, field by field.                          *)
LEMMA MovedTask ==
  ASSUME NEW x \in Task, NEW p \in {"issue", "create"}
  PROVE  /\ [x EXCEPT !.pc = p] \in Task
         /\ [x EXCEPT !.pc = p].pc = p
         /\ [x EXCEPT !.pc = p].client = x.client
         /\ [x EXCEPT !.pc = p].op = x.op
         /\ [x EXCEPT !.pc = p].since = x.since
BY DEF Task

LEMMA AnsweredTask ==
  ASSUME NEW x \in Task, NEW i \in Ids
  PROVE  /\ [x EXCEPT !.pc = "acknowledge", !.ref = i] \in Task
         /\ [x EXCEPT !.pc = "acknowledge", !.ref = i].pc = "acknowledge"
         /\ [x EXCEPT !.pc = "acknowledge", !.ref = i].client = x.client
         /\ [x EXCEPT !.pc = "acknowledge", !.ref = i].op = x.op
         /\ [x EXCEPT !.pc = "acknowledge", !.ref = i].since = x.since
         /\ [x EXCEPT !.pc = "acknowledge", !.ref = i].ref = i
BY DEF Task

LEMMA BegunTask ==
  ASSUME NEW c \in Clients, NEW t \in 0 .. MaxTime
  PROVE  /\ [Free EXCEPT !.pc = "begun", !.client = c, !.since = t] \in Task
         /\ [Free EXCEPT !.pc = "begun", !.client = c, !.since = t].pc = "begun"
         /\ [Free EXCEPT !.pc = "begun", !.client = c, !.since = t].client = c
         /\ [Free EXCEPT !.pc = "begun", !.client = c, !.since = t].since = t
BY FreeType, Constants DEF Task, Free

LEMMA LookupTask ==
  ASSUME NEW c \in Clients, NEW o \in Operations
  PROVE  /\ [Free EXCEPT !.pc = "lookup", !.client = c, !.op = o] \in Task
         /\ [Free EXCEPT !.pc = "lookup", !.client = c, !.op = o].pc = "lookup"
         /\ [Free EXCEPT !.pc = "lookup", !.client = c, !.op = o].client = c
         /\ [Free EXCEPT !.pc = "lookup", !.client = c, !.op = o].op = o
         /\ [Free EXCEPT !.pc = "lookup", !.client = c, !.op = o].since = 0
BY FreeType, Constants DEF Task, Free

(* A handler step sets its own task and no other's.                        *)
LEMMA DoFacts ==
  ASSUME TypeOK, NEW h \in Handlers, NEW x \in Task, Do(h, x)
  PROVE  /\ task' \in [Handlers -> Task]
         /\ task'[h] = x
         /\ \A k \in Handlers : k # h => task'[k] = task[k]
BY DEF Do, TypeOK

LEMMA NewType ==
  ASSUME TypeOK, NEW h \in Handlers, task[h].client \in Clients, NewInstallation(h).id \in Ids
  PROVE  /\ NewInstallation(h) \in Installation
         /\ NewInstallation(h).key = task[h].client
BY Constants DEF NewInstallation, Installation
LEMMA ShapeInit == Init => TypeOK
BY FreeType, Constants DEF Init, TypeOK, Challenge, Unissued

(* What the steps of a handler that touch no challenge and do not pass the *)
(* quota have in common.                                                   *)
Quiet(h) ==
  /\ UNCHANGED <<now, challenge, pruned>>
  /\ task' \in [Handlers -> Task]
  /\ \A k \in Handlers : k # h => task'[k] = task[k]
  /\ task'[h].pc # "issue"
  /\ task'[h].since \in {0, task[h].since, now}
  /\ task'[h].pc = "begun" => task'[h].since = now
  /\ task'[h].pc # "free" => task'[h].client \in Clients
  /\ lock' = lock \/ (lock = h /\ lock' = Nobody)

LEMMA QuietSteps ==
  ASSUME TypeOK, InstallationInv, NEW h \in Handlers,
         \/ \E c \in Clients : challenge_begin(h, c)
         \/ challenge_count(h) /\ task' = [task EXCEPT ![h] = Free] /\ UNCHANGED lock
         \/ allocate_lookup(h) \/ allocate_create(h) \/ enroll_receipt(h) \/ handler_fails(h)
  PROVE  Quiet(h)
<1>1. task[h] \in Task /\ Free \in Task /\ now \in 0 .. MaxTime /\ Free.pc = "free" /\ Free.since = 0
  BY FreeType, Constants DEF TypeOK
<1>2. ASSUME UNCHANGED <<now, challenge, pruned>>, lock' = lock \/ (lock = h /\ lock' = Nobody), Do(h, Free)
      PROVE  Quiet(h)
  BY <1>1, <1>2, DoFacts DEF Quiet
<1>3. ASSUME NEW c \in Clients, challenge_begin(h, c) PROVE Quiet(h)
  <2> DEFINE x == [Free EXCEPT !.pc = "begun", !.client = c, !.since = now]
  <2>1. x \in Task /\ x.pc = "begun" /\ x.client = c /\ x.since = now
    <3>1. now \in 0 .. MaxTime
      BY <1>1
    <3> QED BY <3>1, BegunTask
  <2>2. UNCHANGED <<now, challenge, pruned, lock>> /\ Do(h, x)
    BY <1>3 DEF challenge_begin
  <2> HIDE DEF x
  <2>3. task' \in [Handlers -> Task] /\ task'[h] = x /\ \A k \in Handlers : k # h => task'[k] = task[k]
    BY <2>1, <2>2, DoFacts
  <2> QED BY <2>1, <2>2, <2>3 DEF Quiet
<1>4. CASE challenge_count(h) /\ task' = [task EXCEPT ![h] = Free] /\ UNCHANGED lock
  BY <1>2, <1>4 DEF challenge_count, Do
<1>5. ASSUME UNCHANGED <<now, challenge, pruned, lock>>, task[h].pc # "free",
             NEW x \in Task, Do(h, x), x.pc \in {"create", "acknowledge"},
             x.client = task[h].client, x.since = task[h].since
      PROVE  Quiet(h)
  <2>1. task' \in [Handlers -> Task] /\ task'[h] = x /\ \A k \in Handlers : k # h => task'[k] = task[k]
    BY <1>5, DoFacts
  <2> QED BY <1>5, <2>1 DEF Quiet, InstallationInv
<1>6. CASE allocate_lookup(h)
  <2>1. UNCHANGED <<now, challenge, pruned, lock>> /\ task[h].pc = "lookup"
    BY <1>6 DEF allocate_lookup
  <2>2. CASE Do(h, [task[h] EXCEPT !.pc = "create"])
    <3> DEFINE x == [task[h] EXCEPT !.pc = "create"]
    <3>1. x \in Task /\ x.pc = "create" /\ x.client = task[h].client /\ x.since = task[h].since
      BY <1>1, MovedTask
    <3> QED BY <1>5, <2>1, <2>2, <3>1
  <2>3. ASSUME NEW i \in installations, Do(h, [task[h] EXCEPT !.pc = "acknowledge", !.ref = i.id])
        PROVE  Quiet(h)
    <3> DEFINE x == [task[h] EXCEPT !.pc = "acknowledge", !.ref = i.id]
    <3>1. i.id \in Ids
      BY DEF TypeOK, Installation
    <3>2. x \in Task /\ x.pc = "acknowledge" /\ x.client = task[h].client /\ x.since = task[h].since
      BY <1>1, <3>1, AnsweredTask
    <3> QED BY <1>5, <2>1, <2>3, <3>2
  <2>4. CASE Do(h, Free)
    BY <1>2, <2>1, <2>4
  <2> QED BY <1>6, <2>2, <2>3, <2>4 DEF allocate_lookup
<1>7. CASE allocate_create(h)
  <2>1. UNCHANGED <<now, challenge, pruned, lock>> /\ task[h].pc = "create"
    BY <1>7 DEF allocate_create
  <2>2. ASSUME NewInstallation(h).id \in Ids,
               Do(h, [task[h] EXCEPT !.pc = "acknowledge", !.ref = NewInstallation(h).id])
        PROVE  Quiet(h)
    <3> DEFINE x == [task[h] EXCEPT !.pc = "acknowledge", !.ref = NewInstallation(h).id]
    <3>1. x \in Task /\ x.pc = "acknowledge" /\ x.client = task[h].client /\ x.since = task[h].since
      BY <1>1, <2>2, AnsweredTask
    <3> QED BY <1>5, <2>1, <2>2, <3>1
  <2>3. CASE Do(h, Free)
    BY <1>2, <2>1, <2>3
  <2> QED BY <1>7, <2>2, <2>3 DEF allocate_create, Allocated
<1>8. CASE enroll_receipt(h)
  BY <1>2, <1>8 DEF enroll_receipt
<1>9. CASE handler_fails(h)
  BY <1>2, <1>9 DEF handler_fails, Release
<1> QED BY <1>3, <1>4, <1>6, <1>7, <1>8, <1>9

(* A handler that is under quota takes the lock.                           *)
LEMMA PassFacts ==
  ASSUME TypeOK, NEW h \in Handlers, challenge_count(h),
         ~(task' = [task EXCEPT ![h] = Free] /\ UNCHANGED lock)
  PROVE  /\ UNCHANGED <<now, challenge, pruned, allocation, receipts>>
         /\ task[h].pc = "begun" /\ lock = Nobody /\ lock' = h
         /\ ~OverQuota(task[h].client, task[h].since)
         /\ task' \in [Handlers -> Task]
         /\ \A k \in Handlers : k # h => task'[k] = task[k]
         /\ task'[h].pc = "issue" /\ task'[h].client = task[h].client /\ task'[h].since = task[h].since
<1> DEFINE x == [task[h] EXCEPT !.pc = "issue"]
<1>1. /\ UNCHANGED <<now, challenge, pruned, allocation, receipts>>
      /\ task[h].pc = "begun" /\ lock = Nobody /\ lock' = h
      /\ ~OverQuota(task[h].client, task[h].since) /\ Do(h, x)
  BY DEF challenge_count, Do
<1>2. task[h] \in Task
  BY DEF TypeOK
<1>3. x \in Task /\ x.pc = "issue" /\ x.client = task[h].client /\ x.since = task[h].since
  BY <1>2, MovedTask
<1> HIDE DEF x
<1> QED BY <1>1, <1>3, DoFacts
(* The next nonce is fresh, and then it is the last one issued.            *)
LEMMA InsertFacts ==
  ASSUME TypeOK, RowInv, ClockInv, InstallationInv, NEW h \in Handlers, challenge_insert(h)
  PROVE  \E n \in Nonces :
         /\ n = Cardinality(Issued) + 1 /\ n \notin Issued /\ Issued' = Issued \cup {n}
         /\ \A m \in Issued : m < n
         /\ IsFiniteSet(Issued)
         /\ Issued' = 1 .. Cardinality(Issued')
         /\ challenge' \in [Nonces -> Challenge]
         /\ challenge'[n].client = task[h].client /\ challenge'[n].created = task[h].since
         /\ challenge'[n].consumed = 0
         /\ \A m \in Nonces : m # n => challenge'[m] = challenge[m]
         /\ task[h].since \in Times /\ task[h].since <= now /\ task[h].client \in Clients
<1> DEFINE k == Cardinality(Issued)
           c == [client |-> task[h].client, created |-> task[h].since, consumed |-> 0]
<1>0. task[h].pc = "issue" /\ k + 1 \in Nonces /\ challenge' = [challenge EXCEPT ![k + 1] = c]
  BY DEF challenge_insert
<1>1. MaxChallenges \in Nat /\ MaxTime \in Nat
  BY Constants
<1>2. Issued \subseteq Nonces /\ Nonces \subseteq Nat /\ IsFiniteSet(Nonces)
  BY <1>1, FS_Interval DEF Issued, Nonces
<1>3. IsFiniteSet(Issued)
  BY <1>2, FS_Subset
<1>4. k \in Nat /\ Issued = 1 .. k
  BY <1>3, FS_CardinalityType DEF RowInv
<1> HIDE DEF k
<1>5. k + 1 \notin Issued /\ \A m \in Issued : m < k + 1
  BY <1>4
<1>6. task[h] \in Task /\ task[h].since > 0 /\ task[h].since <= now /\ task[h].client \in Clients
  BY <1>0 DEF TypeOK, ClockInv, InstallationInv
<1>7. c \in Challenge /\ c.created = task[h].since /\ c.client = task[h].client /\ c.consumed = 0
  BY <1>1, <1>6 DEF Challenge, Task
<1> HIDE DEF c
<1>8. /\ challenge' \in [Nonces -> Challenge]
      /\ challenge'[k + 1] = c
      /\ \A m \in Nonces : m # k + 1 => challenge'[m] = challenge[m]
  BY <1>0, <1>7 DEF TypeOK
<1>9. Issued' = Issued \cup {k + 1}
  BY <1>0, <1>2, <1>6, <1>7, <1>8 DEF Issued
<1>10. Issued' = 1 .. (k + 1)
  BY <1>4, <1>9
<1>11. Cardinality(Issued') = k + 1
  BY <1>4, <1>10, FS_Interval
<1>12. task[h].since \in Times
  BY <1>1, <1>6 DEF Task, Times
<1> QED BY <1>0, <1>3, <1>5, <1>6, <1>7, <1>8, <1>9, <1>10, <1>11, <1>12 DEF k

(* Using a challenge changes when it was used and nothing else.            *)
LEMMA EnrollFacts ==
  ASSUME TypeOK, RowInv, NEW h \in Handlers, NEW n \in Nonces, NEW c \in Clients,
         NEW o \in Operations, enroll(h, n, c, o)
  PROVE  /\ n \in Issued /\ challenge[n].consumed = 0 /\ challenge[n].created + Minute > now
         /\ challenge' \in [Nonces -> Challenge]
         /\ challenge'[n].client = challenge[n].client /\ challenge'[n].created = challenge[n].created
         /\ challenge'[n].consumed = now
         /\ \A m \in Nonces : m # n => challenge'[m] = challenge[m]
         /\ Issued' = Issued
<1>1. n \in Issued /\ challenge[n].consumed = 0 /\ challenge[n].created + Minute > now
      /\ challenge' = [challenge EXCEPT ![n] = [challenge[n] EXCEPT !.consumed = now]]
  BY DEF enroll, Rows
<1>2. now \in 0 .. MaxTime /\ challenge[n] \in Challenge
  BY Constants DEF TypeOK
<1>3. ASSUME NEW x \in Challenge, NEW t \in 0 .. MaxTime
      PROVE  /\ [x EXCEPT !.consumed = t] \in Challenge
             /\ [x EXCEPT !.consumed = t].client = x.client
             /\ [x EXCEPT !.consumed = t].created = x.created
             /\ [x EXCEPT !.consumed = t].consumed = t
  BY DEF Challenge
<1> DEFINE y == [challenge[n] EXCEPT !.consumed = now]
<1>4. y \in Challenge /\ y.client = challenge[n].client /\ y.created = challenge[n].created /\ y.consumed = now
  BY <1>2, <1>3
<1> HIDE DEF y
<1>5. /\ challenge' \in [Nonces -> Challenge] /\ challenge'[n] = y
      /\ \A m \in Nonces : m # n => challenge'[m] = challenge[m]
  BY <1>1, <1>4 DEF TypeOK, y
<1>6. Issued' = Issued
  BY <1>4, <1>5 DEF Issued
<1> QED BY <1>1, <1>4, <1>5, <1>6
(* Relocation leaves an installation its id and its key.                   *)
LEMMA RelocateFacts ==
  ASSUME TypeOK, NEW i \in installations, NEW p \in Placements, relocate(i, p)
  PROVE  /\ UNCHANGED <<now, challenge, pruned, lock, operation, receipts, task>>
         /\ installations' = (installations \ {i}) \cup {[i EXCEPT !.placement = p]}
         /\ [i EXCEPT !.placement = p] \in Installation
         /\ [i EXCEPT !.placement = p].id = i.id
         /\ [i EXCEPT !.placement = p].key = i.key
<1>1. i \in Installation
  BY DEF TypeOK
<1>2. /\ [i EXCEPT !.placement = p] \in Installation
      /\ [i EXCEPT !.placement = p].id = i.id
      /\ [i EXCEPT !.placement = p].key = i.key
  BY <1>1 DEF Installation
<1> QED BY <1>2 DEF relocate

(* Either the operation had no row, and gets the new installation, or      *)
(* nothing is written.                                                     *)
LEMMA CreateFacts ==
  ASSUME TypeOK, InstallationInv, NEW h \in Handlers, allocate_create(h)
  PROVE  /\ UNCHANGED receipts
         /\ \/ UNCHANGED allocation /\ task'[h] = Free
            \/ \E i \in Installation, o \in Operations :
                 /\ operation[o] = 0
                 /\ installations' = installations \cup {i}
                 /\ operation' = [operation EXCEPT ![o] = i.id]
                 /\ i.key = task[h].client
                 /\ task'[h].client = task[h].client /\ task'[h].op = o /\ task'[h].ref = i.id
<1>1. /\ task[h].client \in Clients /\ task[h] \in Task /\ task[h].op \in Operations
      /\ UNCHANGED receipts
  BY DEF allocate_create, InstallationInv, TypeOK
<1>2. CASE UNCHANGED allocation /\ Do(h, Free)
  BY <1>1, <1>2, DoFacts, FreeType
<1>3. CASE operation[task[h].op] = 0 /\ Allocated(h)
  <2> DEFINE x == [task[h] EXCEPT !.pc = "acknowledge", !.ref = NewInstallation(h).id]
  <2>1. /\ NewInstallation(h).id \in Ids /\ Do(h, x)
        /\ installations' = installations \cup {NewInstallation(h)}
        /\ operation' = [operation EXCEPT ![task[h].op] = NewInstallation(h).id]
    BY <1>3 DEF Allocated
  <2>2. x \in Task /\ x.client = task[h].client /\ x.op = task[h].op /\ x.ref = NewInstallation(h).id
    BY <1>1, <2>1, AnsweredTask
  <2> HIDE DEF x
  <2>3. task'[h] = x
    BY <2>1, <2>2, DoFacts
  <2>4. NewInstallation(h) \in Installation /\ NewInstallation(h).key = task[h].client
    BY <1>1, <2>1, NewType
  <2>5. PICK i \in Installation : i = NewInstallation(h)
    BY <2>4
  <2> QED BY <1>1, <1>3, <2>1, <2>2, <2>3, <2>4, <2>5
<1> QED BY <1>2, <1>3 DEF allocate_create

LEMMA TypeStep ==
  ASSUME TypeOK, RowInv, ClockInv, InstallationInv, ReceiptNamesOwnInstallation, [Next]_vars
  PROVE  TypeOK'
<1> USE DEF vars, allocation
<1>1. CASE UNCHANGED vars
  BY <1>1 DEF TypeOK
<1>2. CASE clock_advances
  BY <1>2, Constants DEF clock_advances, TypeOK
<1>3. CASE prune_bootstrap_and_nonces
  BY <1>3 DEF prune_bootstrap_and_nonces, Rows, Issued, TypeOK
<1>4. ASSUME NEW i \in installations, NEW p \in Placements, relocate(i, p) PROVE TypeOK'
  <2> DEFINE j == [i EXCEPT !.placement = p]
  <2>1. /\ UNCHANGED <<now, challenge, pruned, lock, operation, receipts, task>>
        /\ installations' = (installations \ {i}) \cup {j}
        /\ j \in Installation
    BY <1>4, RelocateFacts
  <2> HIDE DEF j
  <2> QED BY <2>1 DEF TypeOK
<1>5. ASSUME NEW h \in Handlers, Quiet(h), UNCHANGED <<allocation, receipts>> PROVE TypeOK'
  BY <1>5 DEF TypeOK, Quiet
<1>6. ASSUME NEW h \in Handlers, allocate_create(h) PROVE TypeOK'
  <2>1. Quiet(h)
    BY <1>6, QuietSteps
  <2>2. CASE UNCHANGED <<allocation, receipts>>
    BY <1>5, <2>1, <2>2
  <2>3. ASSUME NEW i \in Installation, NEW o \in Operations, UNCHANGED receipts,
               installations' = installations \cup {i}, operation' = [operation EXCEPT ![o] = i.id]
        PROVE  TypeOK'
    <3>1. i.id \in Ids
      BY DEF Installation
    <3> QED BY <2>1, <2>3, <3>1 DEF TypeOK, Quiet
  <2> QED BY <1>6, <2>2, <2>3, CreateFacts
<1>11. ASSUME NEW h \in Handlers, enroll_receipt(h) PROVE TypeOK'
  <2>1. Quiet(h)
    BY <1>11, QuietSteps
  <2>2. task[h].op \in Operations /\ task[h].ref \in Ids
    BY <1>11 DEF enroll_receipt, InstallationInv, ReceiptNamesOwnInstallation, TypeOK, Installation
  <2>3. UNCHANGED allocation /\ receipts' = receipts \cup {[op |-> task[h].op, id |-> task[h].ref]}
    BY <1>11 DEF enroll_receipt
  <2> QED BY <2>1, <2>2, <2>3 DEF TypeOK, Quiet, Receipt
<1>7. ASSUME NEW h \in Handlers,
             \/ \E c \in Clients : challenge_begin(h, c)
             \/ challenge_count(h) \/ allocate_lookup(h) \/ handler_fails(h)
      PROVE  TypeOK'
  <2>1. UNCHANGED <<allocation, receipts>>
    BY <1>7 DEF challenge_begin, challenge_count, allocate_lookup, handler_fails
  <2>2. CASE challenge_count(h) /\ ~(task' = [task EXCEPT ![h] = Free] /\ UNCHANGED lock)
    BY <2>2, PassFacts DEF TypeOK
  <2>3. CASE ~challenge_count(h) \/ (task' = [task EXCEPT ![h] = Free] /\ UNCHANGED lock)
    <3>1. Quiet(h)
      BY <1>7, <2>3, QuietSteps
    <3> QED BY <1>5, <2>1, <3>1
  <2> QED BY <2>2, <2>3
<1>8. ASSUME NEW h \in Handlers, challenge_insert(h) PROVE TypeOK'
  <2>1. challenge' \in [Nonces -> Challenge]
    BY <1>8, InsertFacts
  <2>2. /\ UNCHANGED <<now, pruned, allocation, receipts>>
        /\ Do(h, Free) /\ lock' \in {Nobody, lock}
    BY <1>8 DEF challenge_insert, Release
  <2>3. task' \in [Handlers -> Task]
    BY <2>2, DoFacts, FreeType
  <2> QED BY <2>1, <2>2, <2>3 DEF TypeOK
<1>9. ASSUME NEW h \in Handlers, NEW n \in Nonces, NEW c \in Clients, NEW o \in Operations,
             enroll(h, n, c, o)
      PROVE  TypeOK'
  <2>1. challenge' \in [Nonces -> Challenge]
    BY <1>9, EnrollFacts
  <2>2. UNCHANGED <<now, pruned, lock, allocation, receipts>>
        /\ Do(h, [Free EXCEPT !.pc = "lookup", !.client = c, !.op = o])
    BY <1>9 DEF enroll
  <2>3. task' \in [Handlers -> Task]
    BY <2>2, DoFacts, LookupTask
  <2> QED BY <2>1, <2>2, <2>3 DEF TypeOK
<1> QED BY <1>1, <1>2, <1>3, <1>4, <1>6, <1>11, <1>7, <1>8, <1>9 DEF Next, HandlerStep
-----------------------------------------------------------------------------
(***************************************************************************)
(* Quotas.                                                                 *)
(***************************************************************************)

(* Sets of challenges are finite.                                          *)
LEMMA Finite ==
  ASSUME NEW S, S \subseteq Nonces
  PROVE  /\ IsFiniteSet(S) /\ Cardinality(S) \in Nat
         /\ \A T : T \subseteq S => Cardinality(T) \in Nat /\ Cardinality(T) <= Cardinality(S)
<1>1. IsFiniteSet(Nonces)
  BY Constants, FS_Interval DEF Nonces
<1>2. IsFiniteSet(S)
  BY <1>1, FS_Subset
<1>3. Cardinality(S) \in Nat
  BY <1>2, FS_CardinalityType
<1>4. ASSUME NEW T, T \subseteq S PROVE Cardinality(T) \in Nat /\ Cardinality(T) <= Cardinality(S)
  BY <1>2, <1>4, FS_Subset, FS_CardinalityType
<1> QED BY <1>2, <1>3, <1>4

(* Two such sets together are no larger than their sum.                    *)
LEMMA UnionBound ==
  ASSUME NEW S, S \subseteq Nonces, NEW T, T \subseteq Nonces
  PROVE  Cardinality(S \cup T) <= Cardinality(S) + Cardinality(T)
<1>1. IsFiniteSet(S) /\ IsFiniteSet(T) /\ Cardinality(S) \in Nat /\ Cardinality(T) \in Nat
  BY Finite
<1>2. Cardinality(S \cap T) \in Nat
  BY Finite
<1>3. Cardinality(S \cup T) = Cardinality(S) + Cardinality(T) - Cardinality(S \cap T)
  BY <1>1, FS_Union
<1> QED BY <1>1, <1>2, <1>3

(* One more challenge.                                                     *)
LEMMA OneMore ==
  ASSUME NEW S, S \subseteq Nonces, NEW n \in Nonces, NEW T, T \subseteq S \cup {n}
  PROVE  Cardinality(T) <= Cardinality(S) + 1
<1>1. IsFiniteSet({n}) /\ Cardinality({n}) = 1 /\ {n} \subseteq Nonces
  BY FS_Singleton
<1>2. Cardinality(S \cup {n}) <= Cardinality(S) + Cardinality({n})
  BY <1>1, UnionBound
<1>3. Cardinality(T) <= Cardinality(S \cup {n})
  BY Finite
<1>4. Cardinality(T) \in Nat /\ Cardinality(S \cup {n}) \in Nat /\ Cardinality(S) \in Nat
  BY Finite
<1> QED BY <1>1, <1>2, <1>3, <1>4

(* No row that a transaction still counts has been pruned.                 *)
LEMMA NothingPruned ==
  ASSUME TypeOK, ClockInv, NEW h \in Handlers, task[h].since > 0,
         NEW n \in Issued, challenge[n].created > task[h].since - Day - Minute
  PROVE  n \in Rows
<1>1. now \in Nat /\ task[h].since \in Nat /\ challenge[n].created \in Nat
  BY Constants DEF TypeOK, Task, Challenge, Issued
<1>2. now <= task[h].since + MaxStall
  BY DEF ClockInv
<1>3. ~(challenge[n].created < now - Retention)
  BY <1>1, <1>2, Constants
<1> QED BY <1>3 DEF ClockInv, Rows

(* A transaction that is under quota may issue: what it counted covers     *)
(* every challenge that its own could make one too many.                   *)
LEMMA UnderQuota ==
  ASSUME TypeOK, RowInv, ClockInv, NEW h \in Handlers, task[h].since > 0,
         NEW c \in Clients, NEW t \in Times, c = task[h].client, t = task[h].since,
         ~OverQuota(c, t)
  PROVE  /\ Cardinality(Recent(t)) < Global
         /\ Cardinality(RecentOf(c, t)) < Local
         /\ Cardinality(UsableOf(c, t)) <= Daily + Local - 2
<1> DEFINE daily == {n \in Rows : /\ challenge[n].client = c
                                  /\ challenge[n].created > t - Day - Minute
                                  /\ challenge[n].consumed > 0
                                  /\ challenge[n].consumed > t - Day}
<1>1. Issued \subseteq Nonces /\ Rows \subseteq Issued
  BY DEF Issued, Rows
<1>2. \A n \in Issued : challenge[n].created \in Nat /\ challenge[n].consumed \in Nat
  BY Constants DEF TypeOK, Challenge, Issued
<1>3. t \in Nat /\ Day \in Nat /\ Minute \in Nat /\ Local \in Nat /\ Daily \in Nat /\ Global \in Nat
  BY Constants DEF Times
<1>4. \A n \in Issued : challenge[n].created > t - Day - Minute => n \in Rows
  BY NothingPruned
<1>5. Recent(t) = {n \in Rows : challenge[n].created > t - Minute}
  BY <1>1, <1>2, <1>3, <1>4 DEF Recent
<1>6. RecentOf(c, t) = {n \in Rows : challenge[n].client = c /\ challenge[n].created > t - Minute}
  BY <1>5 DEF RecentOf
<1>7. UsableOf(c, t) \subseteq daily \cup RecentOf(c, t)
  <2> SUFFICES ASSUME NEW n \in UsableOf(c, t) PROVE n \in daily \cup RecentOf(c, t)
    OBVIOUS
  <2>1. n \in Issued /\ challenge[n].client = c
    BY DEF UsableOf
  <2>2. CASE challenge[n].consumed > 0
    <3>1. challenge[n].consumed > t - Day
      BY <2>2 DEF UsableOf
    <3>2. challenge[n].consumed < challenge[n].created + Minute
      BY <1>1, <2>1, <2>2 DEF RowInv
    <3>3. challenge[n].created > t - Day - Minute
      BY <1>2, <1>3, <2>1, <3>1, <3>2
    <3> QED BY <1>4, <2>1, <2>2, <3>1, <3>3
  <2>3. CASE ~(challenge[n].consumed > 0)
    BY <2>1, <2>3 DEF UsableOf, RecentOf, Recent
  <2> QED BY <2>2, <2>3
<1>8. daily \subseteq Nonces /\ RecentOf(c, t) \subseteq Nonces /\ Recent(t) \subseteq Nonces
      /\ UsableOf(c, t) \subseteq Nonces
  BY <1>1 DEF Recent, RecentOf, UsableOf
<1>9. Cardinality(daily) \in Nat /\ Cardinality(RecentOf(c, t)) \in Nat /\ Cardinality(Recent(t)) \in Nat
      /\ Cardinality(UsableOf(c, t)) \in Nat
  BY <1>8, Finite
<1>10. Cardinality(daily) = daily_enrollments(c, t)
       /\ Cardinality(RecentOf(c, t)) = local_count(c, t) /\ Cardinality(Recent(t)) = global_count(t)
  BY <1>5, <1>6 DEF daily_enrollments, local_count, global_count
<1> HIDE DEF daily
<1>11. Cardinality(daily) < Daily /\ Cardinality(RecentOf(c, t)) < Local /\ Cardinality(Recent(t)) < Global
  BY <1>3, <1>9, <1>10 DEF OverQuota
<1>12. Cardinality(UsableOf(c, t)) <= Cardinality(daily \cup RecentOf(c, t))
  BY <1>7, <1>8, Finite
<1>13. Cardinality(daily \cup RecentOf(c, t)) <= Cardinality(daily) + Cardinality(RecentOf(c, t))
  BY <1>8, UnionBound
<1>14. Cardinality(daily \cup RecentOf(c, t)) \in Nat
  BY <1>8, Finite
<1> QED BY <1>3, <1>9, <1>11, <1>12, <1>13, <1>14
(* Steps that touch no challenge.                                          *)
LEMMA SetsKept ==
  ASSUME UNCHANGED challenge
  PROVE  /\ Issued' = Issued
         /\ \A t \in Times : Recent(t)' = Recent(t)
         /\ \A c \in Clients, t \in Times : RecentOf(c, t)' = RecentOf(c, t)
         /\ \A c \in Clients, t \in Times : UsableOf(c, t)' = UsableOf(c, t)
         /\ \A c \in Clients, t \in Times : OpenOf(c, t)' = OpenOf(c, t)
<1>1. Issued' = Issued
  BY DEF Issued
<1>2. \A t \in Times : Recent(t)' = Recent(t)
  BY <1>1 DEF Recent
<1>3. \A c \in Clients, t \in Times : RecentOf(c, t)' = RecentOf(c, t)
  BY <1>2 DEF RecentOf
<1>4. \A c \in Clients, t \in Times : UsableOf(c, t)' = UsableOf(c, t)
  BY <1>1 DEF UsableOf
<1>5. \A c \in Clients, t \in Times : OpenOf(c, t)' = OpenOf(c, t)
  BY <1>4 DEF OpenOf
<1> QED BY <1>1, <1>2, <1>3, <1>4, <1>5

LEMMA RowsKept ==
  ASSUME TypeOK, TypeOK', RowInv, IssuanceWithinQuota, DayInv, UNCHANGED challenge, now' \in {now, now + 1}
  PROVE  RowInv' /\ IssuanceWithinQuota' /\ DayInv'
<1>1. Issued' = Issued
  BY SetsKept
<1>2. RowInv'
  <2>1. \A n \in Nonces : challenge[n].created \in Nat /\ challenge[n].consumed \in Nat
    BY Constants DEF TypeOK, Challenge
  <2>2. now \in Nat
    BY Constants DEF TypeOK
  <2>3. \A n \in Nonces : challenge[n].created <= now' /\ challenge[n].consumed <= now'
    BY <2>1, <2>2 DEF RowInv
  <2> QED BY <1>1, <2>3 DEF RowInv
<1>3. IssuanceWithinQuota'
  BY <1>1 DEF IssuanceWithinQuota
<1>4. DayInv'
  <2> SUFFICES ASSUME NEW c \in Clients, NEW t \in Times, t <= now'
               PROVE  Cardinality(OpenOf(c, t)) <= Daily + Local - 1
    BY SetsKept DEF DayInv
  <2>1. now \in Times /\ t \in Nat /\ now \in Nat /\ Day \in Nat /\ Minute \in Nat /\ Issued \subseteq Nonces
    BY Constants DEF TypeOK, Times, Issued
  <2>2. CASE t <= now
    BY <2>2 DEF DayInv
  <2>3. CASE ~(t <= now)
    <3>1. t = now + 1
      BY <2>1, <2>3
    <3>2. \A n \in Nonces : challenge[n].created \in Nat /\ challenge[n].consumed \in Nat
      BY Constants DEF TypeOK, Challenge
    <3>3. \A n \in UsableOf(c, t) : n \in UsableOf(c, now)
      BY <2>1, <3>1, <3>2 DEF UsableOf
    <3>4. \A n \in UsableOf(c, now) : challenge[n].created <= now
      BY <2>1 DEF UsableOf, RowInv
    <3>5. OpenOf(c, t) \subseteq OpenOf(c, now) /\ OpenOf(c, now) \subseteq Nonces
      BY <2>1, <3>3, <3>4 DEF OpenOf, UsableOf
    <3>6. Cardinality(OpenOf(c, t)) <= Cardinality(OpenOf(c, now))
          /\ Cardinality(OpenOf(c, t)) \in Nat /\ Cardinality(OpenOf(c, now)) \in Nat
      BY <3>5, Finite
    <3>7. Cardinality(OpenOf(c, now)) <= Daily + Local - 1
      BY <2>1 DEF DayInv
    <3> QED BY <3>6, <3>7, Constants
  <2> QED BY <2>2, <2>3
<1> QED BY <1>2, <1>3, <1>4

(* Using a challenge puts none into a transaction's count that was not     *)
(* there: it was created within the minute before.                         *)
LEMMA UsableKept ==
  ASSUME TypeOK, RowInv, NEW h \in Handlers, NEW n \in Nonces, NEW d \in Clients,
         NEW o \in Operations, enroll(h, n, d, o),
         NEW c \in Clients, NEW t \in Times, t <= now
  PROVE  UsableOf(c, t)' \subseteq UsableOf(c, t)
<1>1. /\ n \in Issued /\ challenge[n].consumed = 0 /\ challenge[n].created + Minute > now
      /\ challenge'[n].client = challenge[n].client /\ challenge'[n].created = challenge[n].created
      /\ challenge'[n].consumed = now
      /\ \A m \in Nonces : m # n => challenge'[m] = challenge[m]
      /\ Issued' = Issued
  BY EnrollFacts
<1>2. Issued \subseteq Nonces
  BY DEF Issued
<1>3. now \in Nat /\ t \in Nat /\ challenge[n].created \in Nat /\ Minute \in Nat /\ Day \in Nat
  BY Constants DEF TypeOK, Challenge, Times
<1> SUFFICES ASSUME NEW m \in UsableOf(c, t)' PROVE m \in UsableOf(c, t)
  OBVIOUS
<1>4. CASE m = n
  <2>1. n \in Issued /\ challenge[n].client = c
    BY <1>1, <1>4 DEF UsableOf
  <2>2. challenge[n].created > t - Minute
    BY <1>1, <1>3
  <2> QED BY <1>1, <1>4, <2>1, <2>2 DEF UsableOf
<1>5. CASE m # n
  BY <1>1, <1>2, <1>5 DEF UsableOf
<1> QED BY <1>4, <1>5

LEMMA EnrollStep ==
  ASSUME IInv, TypeOK', NEW h \in Handlers, NEW n \in Nonces, NEW d \in Clients,
         NEW o \in Operations, enroll(h, n, d, o)
  PROVE  RowInv' /\ IssuanceWithinQuota' /\ DayInv' /\ IssueInv'
<1>1. /\ n \in Issued /\ challenge[n].consumed = 0 /\ challenge[n].created + Minute > now
      /\ challenge'[n].client = challenge[n].client /\ challenge'[n].created = challenge[n].created
      /\ challenge'[n].consumed = now
      /\ \A m \in Nonces : m # n => challenge'[m] = challenge[m]
      /\ Issued' = Issued
  BY EnrollFacts DEF IInv
<1>2. Issued \subseteq Nonces
  BY DEF Issued
<1>3. \A m \in Nonces : challenge'[m].client = challenge[m].client /\ challenge'[m].created = challenge[m].created
  BY <1>1
<1>4. UNCHANGED now /\ now \in Times
  BY DEF enroll, IInv, TypeOK, Times
<1>5. RowInv'
  <2>1. challenge[n].created <= now /\ challenge[n].created > 0 /\ challenge[n].created \in Nat /\ now \in Nat
    BY <1>1, Constants DEF IInv, RowInv, Issued, TypeOK, Challenge
  <2>2. now < challenge[n].created + Minute /\ now # 0
    BY <1>1, <1>4, <2>1, Constants DEF Times
  <2>3. challenge[n].client \in Clients
    BY <2>1 DEF IInv, RowInv
  <2>4. ASSUME NEW m \in Nonces
        PROVE  (/\ challenge[m].created <= now
                /\ challenge[m].consumed <= now
                /\ IF challenge[m].created = 0 THEN challenge[m].consumed = 0
                                               ELSE challenge[m].client \in Clients
                /\ challenge[m].consumed > 0 =>
                     /\ challenge[m].created <= challenge[m].consumed
                     /\ challenge[m].consumed < challenge[m].created + Minute)'
    <3>1. CASE m = n
      BY <1>1, <1>4, <2>1, <2>2, <2>3, <3>1
    <3>2. CASE m # n
      BY <1>1, <1>4, <3>2 DEF IInv, RowInv
    <3> QED BY <3>1, <3>2
  <2> QED BY <1>1, <2>4 DEF IInv, RowInv
<1>6. IssuanceWithinQuota'
  <2> SUFFICES ASSUME NEW m \in Issued
               PROVE  LET minute == {q \in Issued' : /\ challenge'[q].created <= challenge'[m].created
                                                    /\ challenge'[q].created > challenge'[m].created - Minute}
                      IN /\ Cardinality(minute) <= Global
                         /\ Cardinality({q \in minute : challenge'[q].client = challenge'[m].client}) <= Local
    BY <1>1 DEF IssuanceWithinQuota
  <2> DEFINE W == {q \in Issued : /\ challenge[q].created <= challenge[m].created
                                  /\ challenge[q].created > challenge[m].created - Minute}
             V == {q \in Issued' : /\ challenge'[q].created <= challenge'[m].created
                                   /\ challenge'[q].created > challenge'[m].created - Minute}
  <2>1. V = W
    BY <1>1, <1>2, <1>3
  <2>2. {q \in V : challenge'[q].client = challenge'[m].client}
          = {q \in W : challenge[q].client = challenge[m].client}
    BY <1>2, <1>3, <2>1
  <2>3. Cardinality(W) <= Global /\ Cardinality({q \in W : challenge[q].client = challenge[m].client}) <= Local
    BY DEF IInv, IssuanceWithinQuota
  <2> HIDE DEF V, W
  <2>4. Cardinality(V) <= Global /\ Cardinality({q \in V : challenge'[q].client = challenge'[m].client}) <= Local
    BY <2>1, <2>2, <2>3
  <2> QED BY <2>4 DEF V
<1>7. \A c \in Clients, t \in Times : t <= now => UsableOf(c, t)' \subseteq UsableOf(c, t)
  BY UsableKept DEF IInv
<1>8. \A c \in Clients, t \in Times : UsableOf(c, t) \subseteq Nonces
  BY <1>2 DEF UsableOf
<1>9. DayInv'
  <2> SUFFICES ASSUME NEW c \in Clients, NEW t \in Times, t <= now
               PROVE  Cardinality(OpenOf(c, t)') <= Daily + Local - 1
    BY <1>4 DEF DayInv
  <2>1. OpenOf(c, t)' \subseteq OpenOf(c, t) /\ OpenOf(c, t) \subseteq Nonces
    BY <1>3, <1>7, <1>8 DEF OpenOf
  <2>2. Cardinality(OpenOf(c, t)) <= Daily + Local - 1
    BY DEF IInv, DayInv
  <2>3. Cardinality(OpenOf(c, t)') <= Cardinality(OpenOf(c, t))
        /\ Cardinality(OpenOf(c, t)') \in Nat /\ Cardinality(OpenOf(c, t)) \in Nat
    BY <2>1, Finite
  <2> QED BY <2>2, <2>3, Constants
<1>10. IssueInv'
  <2> SUFFICES ASSUME NEW k \in Handlers, NEW c \in Clients, NEW t \in Times,
                      task'[k].pc = "issue", task'[k].client = c, task'[k].since = t
               PROVE  /\ Cardinality(Recent(t)') < Global
                      /\ Cardinality(RecentOf(c, t)') < Local
                      /\ Cardinality(UsableOf(c, t)') <= Daily + Local - 2
    BY DEF IssueInv
  <2>1. task'[h].pc = "lookup" /\ \A j \in Handlers : j # h => task'[j] = task[j]
    <3> DEFINE x == [Free EXCEPT !.pc = "lookup", !.client = d, !.op = o]
    <3>0. d \in Clients /\ o \in Operations
      OBVIOUS
    <3>1. x \in Task /\ x.pc = "lookup"
      BY ONLY <3>0, LookupTask
    <3>2. Do(h, x) /\ TypeOK
      BY DEF enroll, IInv
    <3> HIDE DEF x
    <3> QED BY <3>1, <3>2, DoFacts
  <2>2. task[k].pc = "issue" /\ task[k].client = c /\ task[k].since = t
    BY <2>1
  <2>3. /\ Cardinality(Recent(t)) < Global
        /\ Cardinality(RecentOf(c, t)) < Local
        /\ Cardinality(UsableOf(c, t)) <= Daily + Local - 2
    BY <2>2 DEF IInv, IssueInv
  <2>4. Recent(t)' = Recent(t)
    BY <1>1, <1>2, <1>3 DEF Recent
  <2>5. RecentOf(c, t)' = RecentOf(c, t)
    BY <1>2, <1>3, <2>4 DEF RecentOf, Recent
  <2>6. t <= now
    BY <2>2 DEF IInv, ClockInv
  <2>7. Cardinality(UsableOf(c, t)') <= Cardinality(UsableOf(c, t))
        /\ Cardinality(UsableOf(c, t)') \in Nat /\ Cardinality(UsableOf(c, t)) \in Nat
    BY <1>7, <1>8, <2>6, Finite
  <2>8. Cardinality(UsableOf(c, t)') <= Daily + Local - 2
    BY <2>3, <2>7, Constants
  <2> QED BY <2>3, <2>4, <2>5, <2>8
<1> QED BY <1>5, <1>6, <1>9, <1>10
(* A new challenge is within every window it falls into, for it was        *)
(* counted under the lock that is held to the end.                         *)
LEMMA InsertStep ==
  ASSUME IInv, TypeOK', NEW h \in Handlers, challenge_insert(h)
  PROVE  RowInv' /\ IssuanceWithinQuota' /\ DayInv' /\ IssueInv'
<1>1. PICK n \in Nonces :
         /\ n = Cardinality(Issued) + 1 /\ n \notin Issued /\ Issued' = Issued \cup {n}
         /\ \A m \in Issued : m < n
         /\ IsFiniteSet(Issued)
         /\ Issued' = 1 .. Cardinality(Issued')
         /\ challenge' \in [Nonces -> Challenge]
         /\ challenge'[n].client = task[h].client /\ challenge'[n].created = task[h].since
         /\ challenge'[n].consumed = 0
         /\ \A m \in Nonces : m # n => challenge'[m] = challenge[m]
         /\ task[h].since \in Times /\ task[h].since <= now /\ task[h].client \in Clients
  BY InsertFacts DEF IInv, EnrolInv
<1>2. PICK c \in Clients, t \in Times : c = task[h].client /\ t = task[h].since
  BY <1>1
<1>3. /\ Issued \subseteq Nonces
      /\ \A m \in Issued : m # n /\ challenge'[m] = challenge[m]
      /\ Recent(t) \subseteq Nonces /\ RecentOf(c, t) \subseteq Nonces
  BY <1>1 DEF Issued, Recent, RecentOf
<1>4. /\ Cardinality(Recent(t)) < Global
      /\ Cardinality(RecentOf(c, t)) < Local
      /\ Cardinality(UsableOf(c, t)) <= Daily + Local - 2
  BY <1>2 DEF IInv, IssueInv, challenge_insert
<1>5. /\ \A m \in Issued : challenge[m].created \in Nat
      /\ t \in Nat /\ Minute \in Nat \ {0} /\ Global \in Nat /\ Local \in Nat
  BY <1>3, Constants DEF IInv, TypeOK, Challenge, Times
<1>6. RowInv'
  <2>1. UNCHANGED now /\ t <= now /\ t # 0 /\ 0 <= now
    BY <1>1, <1>2 DEF challenge_insert, Times, IInv, TypeOK
  <2>2. ASSUME NEW m \in Nonces
        PROVE  (/\ challenge[m].created <= now
                /\ challenge[m].consumed <= now
                /\ IF challenge[m].created = 0 THEN challenge[m].consumed = 0
                                               ELSE challenge[m].client \in Clients
                /\ challenge[m].consumed > 0 =>
                     /\ challenge[m].created <= challenge[m].consumed
                     /\ challenge[m].consumed < challenge[m].created + Minute)'
    <3>1. CASE m = n
      BY <1>1, <1>2, <2>1, <3>1
    <3>2. CASE m # n
      BY <1>1, <2>1, <3>2 DEF IInv, RowInv
    <3> QED BY <3>1, <3>2
  <2> QED BY <1>1, <2>2 DEF RowInv
<1>7. IssuanceWithinQuota'
  <2> SUFFICES ASSUME NEW m \in Issued'
               PROVE  LET minute == {q \in Issued' : /\ challenge'[q].created <= challenge'[m].created
                                                    /\ challenge'[q].created > challenge'[m].created - Minute}
                      IN /\ Cardinality(minute) <= Global
                         /\ Cardinality({q \in minute : challenge'[q].client = challenge'[m].client}) <= Local
    BY DEF IssuanceWithinQuota
  <2> DEFINE W == {q \in Issued : /\ challenge[q].created <= challenge[m].created
                                  /\ challenge[q].created > challenge[m].created - Minute}
             WC == {q \in W : challenge[q].client = challenge[m].client}
             V == {q \in Issued' : /\ challenge'[q].created <= challenge'[m].created
                                   /\ challenge'[q].created > challenge'[m].created - Minute}
             VC == {q \in V : challenge'[q].client = challenge'[m].client}
  <2>1. CASE n \notin V
    <3>1. m \in Issued
      BY <1>1, <1>2, <1>5, <2>1
    <3>2. \A q \in Issued' : q \in V => q \in Issued
      BY <1>1, <2>1
    <3>3. V = W
      BY <1>1, <1>3, <3>1, <3>2
    <3>4. VC = WC
      BY <1>3, <3>1, <3>3
    <3>5. Cardinality(W) <= Global /\ Cardinality(WC) <= Local
      BY <3>1 DEF IInv, IssuanceWithinQuota
    <3> HIDE DEF V, W, VC, WC
    <3>6. Cardinality(V) <= Global /\ Cardinality(VC) <= Local
      BY <3>3, <3>4, <3>5
    <3> QED BY <3>6 DEF V, VC
  <2>2. CASE n \in V
    <3>1. challenge'[m].created >= t /\ challenge'[m].created \in Nat
      BY <1>1, <1>2, <1>3, <1>5, <2>2
    <3>2. V \subseteq Recent(t) \cup {n}
      <4> SUFFICES ASSUME NEW q \in V, q # n PROVE q \in Recent(t)
        OBVIOUS
      <4>1. q \in Issued /\ challenge'[q] = challenge[q] /\ challenge'[q].created > challenge'[m].created - Minute
        BY <1>1, <1>3
      <4>2. challenge[q].created > t - Minute
        BY <1>5, <3>1, <4>1
      <4> QED BY <4>1, <4>2 DEF Recent
    <3>3. Cardinality(V) <= Cardinality(Recent(t)) + 1 /\ Cardinality(V) \in Nat
      <4>1. V \subseteq Nonces
        BY <1>3, <3>2
      <4> HIDE DEF V
      <4> QED BY <1>3, <3>2, <4>1, OneMore, Finite
    <3>4. Cardinality(Recent(t)) \in Nat /\ Cardinality(RecentOf(c, t)) \in Nat
      BY <1>3, Finite
    <3>5. Cardinality(VC) <= Local
      <4>0. VC \subseteq V
        OBVIOUS
      <4>1. CASE challenge'[m].client = c
        <5>1. VC \subseteq RecentOf(c, t) \cup {n}
          BY <1>1, <1>3, <3>2, <4>1 DEF RecentOf
        <5>2. VC \subseteq Nonces
          BY <1>3, <5>1
        <5> HIDE DEF VC
        <5>3. Cardinality(VC) <= Cardinality(RecentOf(c, t)) + 1 /\ Cardinality(VC) \in Nat
          BY <1>3, <5>1, <5>2, OneMore, Finite
        <5> QED BY <1>4, <1>5, <3>4, <5>3
      <4>2. CASE challenge'[m].client # c
        <5>1. n \notin VC /\ m # n
          BY <1>1, <1>2, <4>2
        <5>2. m \in Issued
          BY <1>1, <5>1
        <5>3. VC = WC
          <6>1. ASSUME NEW q \in VC PROVE q \in WC
            BY <1>1, <1>3, <5>1, <5>2, <6>1
          <6>2. ASSUME NEW q \in WC PROVE q \in VC
            BY <1>1, <1>3, <5>2, <6>2
          <6> HIDE DEF VC, WC
          <6> QED BY <6>1, <6>2
        <5>4. Cardinality(WC) <= Local
          BY <5>2 DEF IInv, IssuanceWithinQuota
        <5> HIDE DEF VC, WC
        <5> QED BY <5>3, <5>4
      <4> QED BY <4>1, <4>2
    <3> HIDE DEF V, VC
    <3>6. Cardinality(V) <= Global
      BY <1>4, <1>5, <3>3, <3>4
    <3> QED BY <3>5, <3>6 DEF V, VC
  <2> QED BY <2>1, <2>2
<1>8. \A d \in Clients, s \in Times, m \in Issued : m \in UsableOf(d, s)' <=> m \in UsableOf(d, s)
  BY <1>1, <1>3 DEF UsableOf
<1>9. DayInv'
  <2> SUFFICES ASSUME NEW d \in Clients, NEW s \in Times, s <= now
               PROVE  Cardinality(OpenOf(d, s)') <= Daily + Local - 1
    BY DEF DayInv, challenge_insert
  <2>1. \A q \in UsableOf(d, s)' : q \in Issued \/ q = n
    BY <1>1 DEF UsableOf
  <2>2. UsableOf(c, t) \subseteq Nonces /\ OpenOf(d, s) \subseteq Nonces
    BY <1>3 DEF UsableOf, OpenOf
  <2>3. CASE n \in OpenOf(d, s)'
    <3>1. d = c /\ t <= s
      BY <1>1, <1>2, <2>3 DEF OpenOf, UsableOf
    <3>2. \A m \in Issued : challenge[m].consumed \in Nat
      BY <1>3, Constants DEF IInv, TypeOK, Challenge
    <3>3. \A m \in UsableOf(c, s) : m \in UsableOf(c, t)
      BY <1>5, <3>1, <3>2, Constants DEF UsableOf, Times
    <3>4. OpenOf(d, s)' \subseteq UsableOf(c, t) \cup {n}
      BY <1>8, <2>1, <3>1, <3>3 DEF OpenOf
    <3>5. Cardinality(OpenOf(d, s)') <= Cardinality(UsableOf(c, t)) + 1
      BY <2>2, <3>4, OneMore
    <3>6. Cardinality(OpenOf(d, s)') \in Nat /\ Cardinality(UsableOf(c, t)) \in Nat
      BY <2>2, <3>4, Finite
    <3> QED BY <1>4, <3>5, <3>6, Constants
  <2>4. CASE n \notin OpenOf(d, s)'
    <3>1. \A q \in OpenOf(d, s)' : q \in Issued /\ q \in OpenOf(d, s)
      BY <1>3, <1>8, <2>1, <2>4 DEF OpenOf
    <3>2. Cardinality(OpenOf(d, s)') <= Cardinality(OpenOf(d, s))
          /\ Cardinality(OpenOf(d, s)') \in Nat /\ Cardinality(OpenOf(d, s)) \in Nat
      BY <2>2, <3>1, Finite
    <3>3. Cardinality(OpenOf(d, s)) <= Daily + Local - 1
      BY DEF IInv, DayInv
    <3> QED BY <3>2, <3>3, Constants
  <2> QED BY <2>3, <2>4
<1>10. IssueInv'
  <2>1. task'[h] = Free /\ \A k \in Handlers : k # h => task'[k] = task[k]
    BY DoFacts, FreeType DEF challenge_insert, IInv
  <2>2. \A k \in Handlers : task'[k].pc # "issue"
    BY <2>1, FreeType DEF IInv, LockInv, challenge_insert
  <2> QED BY <2>2 DEF IssueInv
<1> QED BY <1>6, <1>7, <1>9, <1>10
(* A transaction that passed the quota, with the lock to itself.           *)
LEMMA PassStep ==
  ASSUME IInv, TypeOK', NEW h \in Handlers, challenge_count(h),
         ~(task' = [task EXCEPT ![h] = Free] /\ UNCHANGED lock)
  PROVE  IInv'
<1>1. /\ UNCHANGED <<now, challenge, pruned, allocation, receipts>>
      /\ task[h].pc = "begun" /\ lock = Nobody /\ lock' = h
      /\ ~OverQuota(task[h].client, task[h].since)
      /\ \A k \in Handlers : k # h => task'[k] = task[k]
      /\ task'[h].pc = "issue" /\ task'[h].client = task[h].client /\ task'[h].since = task[h].since
  BY PassFacts DEF IInv
<1>2. RowInv' /\ IssuanceWithinQuota' /\ DayInv'
  BY <1>1, RowsKept DEF IInv
<1>3. \A k \in Handlers : task[k].pc # "issue"
  BY <1>1, Constants DEF IInv, LockInv
<1>4. ClockInv' /\ LockInv'
  BY <1>1, <1>3, SetsKept DEF IInv, ClockInv, LockInv
<1>5. IssueInv'
  <2> SUFFICES ASSUME NEW k \in Handlers, NEW c \in Clients, NEW t \in Times,
                      task'[k].pc = "issue", task'[k].client = c, task'[k].since = t
               PROVE  /\ Cardinality(Recent(t)') < Global
                      /\ Cardinality(RecentOf(c, t)') < Local
                      /\ Cardinality(UsableOf(c, t)') <= Daily + Local - 2
    BY DEF IssueInv
  <2>1. k = h /\ c = task[h].client /\ t = task[h].since /\ task[h].since > 0
    BY <1>1, <1>3 DEF IInv, ClockInv
  <2>2. /\ Cardinality(Recent(t)) < Global
        /\ Cardinality(RecentOf(c, t)) < Local
        /\ Cardinality(UsableOf(c, t)) <= Daily + Local - 2
    BY <1>1, <2>1, UnderQuota DEF IInv
  <2> QED BY <1>1, <2>2, SetsKept
<1>6. EnrolInv'
  <2>1. UNCHANGED <<installations, operation, receipts>>
    BY <1>1 DEF allocation
  <2>2. InstallationInv'
    BY <1>1, <2>1 DEF IInv, EnrolInv, InstallationInv
  <2> QED BY <1>1, <2>1, <2>2 DEF IInv, EnrolInv, OneInstallationPerOperation, ReceiptNamesOwnInstallation
<1> QED BY <1>2, <1>4, <1>5, <1>6 DEF IInv

(* Steps that touch no challenge and start no issue.                       *)
LEMMA IssueKept ==
  ASSUME IInv, UNCHANGED challenge,
         \A k \in Handlers : task'[k].pc = "issue" => task'[k] = task[k]
  PROVE  IssueInv'
<1> SUFFICES ASSUME NEW k \in Handlers, NEW c \in Clients, NEW t \in Times,
                    task'[k].pc = "issue", task'[k].client = c, task'[k].since = t
             PROVE  /\ Cardinality(Recent(t)') < Global
                    /\ Cardinality(RecentOf(c, t)') < Local
                    /\ Cardinality(UsableOf(c, t)') <= Daily + Local - 2
  BY DEF IssueInv
<1>1. task[k].pc = "issue" /\ task[k].client = c /\ task[k].since = t
  OBVIOUS
<1>2. /\ Cardinality(Recent(t)) < Global
      /\ Cardinality(RecentOf(c, t)) < Local
      /\ Cardinality(UsableOf(c, t)) <= Daily + Local - 2
  BY <1>1 DEF IInv, IssueInv
<1> QED BY <1>2, SetsKept

LEMMA QuietStep ==
  ASSUME IInv, TypeOK', NEW h \in Handlers, Quiet(h)
  PROVE  RowInv' /\ IssuanceWithinQuota' /\ DayInv' /\ IssueInv' /\ ClockInv' /\ LockInv'
<1>1. RowInv' /\ IssuanceWithinQuota' /\ DayInv'
  BY RowsKept DEF Quiet, IInv
<1>2. IssueInv'
  BY IssueKept DEF Quiet
<1>3. ClockInv'
  <2>1. now \in Nat /\ now > 0 /\ MaxStall \in Nat
    BY Constants DEF IInv, TypeOK
  <2>2. Issued' = Issued
    BY SetsKept DEF Quiet
  <2> QED BY <2>1, <2>2 DEF Quiet, IInv, ClockInv
<1>4. LockInv'
  BY DEF Quiet, IInv, LockInv
<1> QED BY <1>1, <1>2, <1>3, <1>4

(* Enrolment is about tasks, allocations and receipts alone.               *)
LEMMA EnrolKept ==
  ASSUME EnrolInv, UNCHANGED <<task, allocation, receipts>>
  PROVE  EnrolInv'
<1>1. UNCHANGED <<installations, operation>>
  BY DEF allocation
<1> QED BY <1>1 DEF EnrolInv, InstallationInv, OneInstallationPerOperation, ReceiptNamesOwnInstallation

(* The clock, the sweeper and the operator.                                *)
LEMMA AmbientStep ==
  ASSUME IInv, TypeOK',
         \/ clock_advances \/ prune_bootstrap_and_nonces
         \/ \E i \in installations, p \in Placements : relocate(i, p)
  PROVE  IInv'
<1>1. UNCHANGED <<challenge, task, lock>> /\ now' \in {now, now + 1}
  BY DEF clock_advances, prune_bootstrap_and_nonces, relocate
<1>2. RowInv' /\ IssuanceWithinQuota' /\ DayInv' /\ IssueInv' /\ LockInv'
  BY <1>1, RowsKept, IssueKept DEF IInv, LockInv
<1>3. ClockInv'
  <2>1. now \in Nat /\ Retention \in Nat /\ MaxStall \in Nat /\ pruned \subseteq Nonces
        /\ (\A n \in Nonces : challenge[n].created \in Nat)
        /\ (\A h \in Handlers : task[h].since \in Nat)
    BY Constants DEF IInv, TypeOK, Challenge, Task
  <2>2. CASE clock_advances
    <3>1. UNCHANGED pruned /\ now' = now + 1 /\ \A h \in Handlers : task[h].since > 0 => now < task[h].since + MaxStall
      BY <2>2 DEF clock_advances
    <3>2. \A n \in pruned : n \in Issued' /\ challenge[n].created < (now + 1) - Retention
      BY <1>1, <2>1, SetsKept DEF IInv, ClockInv
    <3>3. \A h \in Handlers : task[h].since > 0 => task[h].since <= now + 1 /\ now + 1 <= task[h].since + MaxStall
      BY <2>1, <3>1 DEF IInv, ClockInv
    <3> QED BY <1>1, <3>1, <3>2, <3>3 DEF IInv, ClockInv
  <2>3. CASE /\ UNCHANGED now
             /\ \A n \in pruned' : n \in pruned \/ (n \in Issued /\ challenge[n].created < now - Retention)
    BY <1>1, <2>3, SetsKept DEF IInv, ClockInv
  <2>4. prune_bootstrap_and_nonces \/ (\E i \in installations, p \in Placements : relocate(i, p)) =>
          /\ UNCHANGED now
          /\ \A n \in pruned' : n \in pruned \/ (n \in Issued /\ challenge[n].created < now - Retention)
    BY DEF prune_bootstrap_and_nonces, relocate, Rows
  <2> QED BY <2>2, <2>3, <2>4
<1>4. EnrolInv'
  <2>1. CASE UNCHANGED <<allocation, receipts>>
    BY <1>1, <2>1, EnrolKept DEF IInv
  <2>2. ASSUME NEW i \in installations, NEW p \in Placements, relocate(i, p)
        PROVE  EnrolInv'
    <3> DEFINE j == [i EXCEPT !.placement = p]
    <3>1. /\ installations' = (installations \ {i}) \cup {j}
          /\ j.id = i.id /\ j.key = i.key /\ UNCHANGED <<operation, receipts>>
      BY <2>2, RelocateFacts DEF IInv
    <3> HIDE DEF j
    <3>2. ReceiptNamesOwnInstallation'
      BY <1>1, <3>1 DEF IInv, EnrolInv, ReceiptNamesOwnInstallation
    <3>3. OneInstallationPerOperation'
      BY <3>1 DEF IInv, EnrolInv, OneInstallationPerOperation
    <3> QED BY <1>1, <3>1, <3>2, <3>3 DEF IInv, EnrolInv, InstallationInv
  <2> QED BY <2>1, <2>2 DEF clock_advances, prune_bootstrap_and_nonces
<1> QED BY <1>2, <1>3, <1>4 DEF IInv, EnrolInv

-----------------------------------------------------------------------------
(***************************************************************************)
(* Installations, and the invariant.                                       *)
(***************************************************************************)

(* Steps of one handler that write no allocation and sign no receipt.      *)
LEMMA OtherReceipts ==
  ASSUME IInv, NEW h \in Handlers, UNCHANGED <<allocation, receipts>>,
         \A k \in Handlers : k # h => task'[k] = task[k],
         task'[h].pc # "free" => task'[h].client \in Clients,
         task'[h].pc \in {"lookup", "create", "acknowledge"} => task'[h].op \in Operations,
         task'[h].pc = "acknowledge" =>
           /\ operation[task'[h].op] = task'[h].ref
           /\ \E i \in installations : i.id = task'[h].ref /\ i.key = task'[h].client
  PROVE  EnrolInv'
<1>1. UNCHANGED <<installations, operation, receipts>>
  BY DEF allocation
<1>2. InstallationInv'
  BY <1>1 DEF IInv, EnrolInv, InstallationInv
<1>3. ReceiptNamesOwnInstallation'
  BY <1>1 DEF IInv, EnrolInv, ReceiptNamesOwnInstallation
<1> QED BY <1>1, <1>2, <1>3 DEF IInv, EnrolInv, OneInstallationPerOperation

LEMMA LookupReceipts ==
  ASSUME IInv, NEW h \in Handlers, allocate_lookup(h)
  PROVE  EnrolInv'
<1>1. UNCHANGED <<allocation, receipts>> /\ task[h].pc = "lookup" /\ task[h] \in Task
  BY DEF allocate_lookup, IInv, TypeOK
<1>2. task[h].client \in Clients /\ task[h].op \in Operations
  BY <1>1 DEF IInv, EnrolInv, InstallationInv
<1>3. ASSUME NEW x \in Task, Do(h, x), (x.client = task[h].client /\ x.op = task[h].op) \/ x = Free,
             x.pc = "acknowledge" =>
               /\ operation[x.op] = x.ref
               /\ \E i \in installations : i.id = x.ref /\ i.key = x.client
      PROVE  EnrolInv'
  <2>1. task'[h] = x /\ \A k \in Handlers : k # h => task'[k] = task[k]
    BY <1>3, DoFacts DEF IInv
  <2> QED BY <1>1, <1>2, <1>3, <2>1, OtherReceipts, FreeType
<1>4. CASE Do(h, [task[h] EXCEPT !.pc = "create"])
  <2> DEFINE x == [task[h] EXCEPT !.pc = "create"]
  <2>1. x \in Task /\ x.pc = "create" /\ x.client = task[h].client /\ x.op = task[h].op
    BY <1>1, MovedTask
  <2>2. Do(h, x)
    BY <1>4
  <2> HIDE DEF x
  <2> QED BY <1>3, <2>1, <2>2
<1>5. ASSUME NEW i \in installations, i.key = task[h].client, i.id = operation[task[h].op],
             Do(h, [task[h] EXCEPT !.pc = "acknowledge", !.ref = i.id])
      PROVE  EnrolInv'
  <2> DEFINE x == [task[h] EXCEPT !.pc = "acknowledge", !.ref = i.id]
  <2>1. i.id \in Ids
    BY DEF IInv, TypeOK, Installation
  <2>2. x \in Task /\ x.ref = i.id /\ x.client = task[h].client /\ x.op = task[h].op
    BY <1>1, <2>1, AnsweredTask
  <2>3. operation[x.op] = x.ref /\ \E j \in installations : j.id = x.ref /\ j.key = x.client
    BY <1>5, <2>2
  <2>4. Do(h, x)
    BY <1>5
  <2> HIDE DEF x
  <2> QED BY <1>3, <2>2, <2>3, <2>4
<1>6. CASE Do(h, Free)
  BY <1>3, <1>6, FreeType
<1> QED BY <1>4, <1>5, <1>6 DEF allocate_lookup

(* No other handler has an answer for an operation that had no row, and no *)
(* receipt is for it.                                                      *)
LEMMA CreateReceipts ==
  ASSUME IInv, NEW h \in Handlers, allocate_create(h)
  PROVE  EnrolInv'
<1>1. Quiet(h)
  BY QuietSteps DEF IInv, EnrolInv
<1>2. CASE UNCHANGED <<allocation, receipts>> /\ task'[h] = Free
  BY <1>1, <1>2, OtherReceipts, FreeType DEF Quiet
<1>3. ASSUME NEW i \in Installation, NEW o \in Operations, operation[o] = 0, UNCHANGED receipts,
             installations' = installations \cup {i}, operation' = [operation EXCEPT ![o] = i.id],
             i.key = task[h].client,
             task'[h].client = task[h].client, task'[h].op = o, task'[h].ref = i.id
      PROVE  EnrolInv'
  <2>1. /\ operation'[o] = i.id
        /\ \A q \in Operations : q # o => operation'[q] = operation[q]
        /\ \A j \in installations : j.id # 0
    BY <1>3 DEF IInv, TypeOK, Installation, Ids
  <2>2. \A k \in Handlers : task[k].pc = "acknowledge" => task[k].op # o /\ task[k].op \in Operations
    BY <1>3, <2>1 DEF IInv, EnrolInv, ReceiptNamesOwnInstallation, InstallationInv
  <2>3. ReceiptNamesOwnInstallation'
    BY <1>1, <1>3 DEF IInv, EnrolInv, ReceiptNamesOwnInstallation, Quiet
  <2>4. InstallationInv'
    BY <1>1, <1>3, <2>1, <2>2 DEF IInv, EnrolInv, InstallationInv, Quiet
  <2>5. OneInstallationPerOperation'
    <3>1. \A r \in receipts : r.op \in Operations /\ r.id # 0
      BY DEF IInv, TypeOK, Receipt, Ids
    <3>2. \A r \in receipts : r.op # o
      BY <1>3, <3>1 DEF IInv, EnrolInv, OneInstallationPerOperation
    <3>3. \A r \in receipts' : operation'[r.op] = r.id
      BY <1>3, <2>1, <3>1, <3>2 DEF IInv, EnrolInv, OneInstallationPerOperation
    <3>4. \A j \in installations' : \E q \in Operations : operation'[q] = j.id
      BY <1>3, <2>1 DEF IInv, EnrolInv, OneInstallationPerOperation
    <3> QED BY <3>3, <3>4 DEF OneInstallationPerOperation
  <2> QED BY <2>3, <2>4, <2>5 DEF EnrolInv
<1>4. TypeOK /\ InstallationInv
  BY DEF IInv, EnrolInv
<1> QED BY <1>2, <1>3, <1>4, CreateFacts

LEMMA SignReceipts ==
  ASSUME IInv, NEW h \in Handlers, enroll_receipt(h)
  PROVE  EnrolInv'
<1>1. /\ task[h].pc = "acknowledge" /\ task'[h] = Free
      /\ \A k \in Handlers : k # h => task'[k] = task[k]
      /\ UNCHANGED <<installations, operation>>
      /\ receipts' = receipts \cup {[op |-> task[h].op, id |-> task[h].ref]}
  BY DoFacts, FreeType DEF enroll_receipt, allocation, IInv
<1>2. operation[task[h].op] = task[h].ref
  BY <1>1 DEF IInv, EnrolInv, InstallationInv
<1>3. OneInstallationPerOperation'
  BY <1>1, <1>2 DEF IInv, EnrolInv, OneInstallationPerOperation
<1>4. InstallationInv' /\ ReceiptNamesOwnInstallation'
  BY <1>1, FreeType DEF IInv, EnrolInv, InstallationInv, ReceiptNamesOwnInstallation
<1> QED BY <1>3, <1>4 DEF EnrolInv

LEMMA HandlerInv ==
  ASSUME IInv, TypeOK', NEW h \in Handlers, HandlerStep(h)
  PROVE  IInv'
<1>1. ASSUME Quiet(h), EnrolInv' PROVE IInv'
  BY <1>1, QuietStep DEF IInv
<1>2. ASSUME Quiet(h), UNCHANGED <<allocation, receipts>>, task'[h].pc \in {"free", "begun"} PROVE IInv'
  <2>1. EnrolInv'
    BY <1>2, OtherReceipts DEF Quiet
  <2> QED BY <1>1, <1>2, <2>1
<1>3. ASSUME NEW c \in Clients, challenge_begin(h, c) PROVE IInv'
  <2> DEFINE x == [Free EXCEPT !.pc = "begun", !.client = c, !.since = now]
  <2>1. now \in 0 .. MaxTime /\ TypeOK
    BY Constants DEF IInv, TypeOK
  <2>2. x \in Task /\ x.pc = "begun"
    BY <2>1, BegunTask
  <2>3. Do(h, x) /\ UNCHANGED <<allocation, receipts>>
    BY <1>3 DEF challenge_begin
  <2> HIDE DEF x
  <2>4. task'[h].pc = "begun"
    BY <2>1, <2>2, <2>3, DoFacts
  <2>5. Quiet(h)
    BY <1>3, QuietSteps DEF IInv, EnrolInv
  <2> QED BY <1>2, <2>3, <2>4, <2>5
<1>4. CASE /\ task' = [task EXCEPT ![h] = Free]
           /\ (challenge_count(h) /\ UNCHANGED lock) \/ handler_fails(h)
  <2>1. task'[h].pc = "free"
    BY <1>4, FreeType DEF IInv, TypeOK
  <2>2. Quiet(h)
    BY <1>4, QuietSteps DEF IInv, EnrolInv
  <2>3. UNCHANGED <<allocation, receipts>>
    BY <1>4 DEF challenge_count, handler_fails
  <2> QED BY <1>2, <2>1, <2>2, <2>3
<1>5. ASSUME challenge_count(h) PROVE IInv'
  BY <1>4, <1>5, PassStep
<1>11. ASSUME handler_fails(h) PROVE IInv'
  BY <1>4, <1>11 DEF handler_fails, Do
<1>6. ASSUME enroll_receipt(h) PROVE IInv'
  BY <1>1, <1>6, QuietSteps, SignReceipts DEF IInv, EnrolInv
<1>7. ASSUME allocate_lookup(h) PROVE IInv'
  BY <1>1, <1>7, QuietSteps, LookupReceipts DEF IInv, EnrolInv
<1>8. ASSUME allocate_create(h) PROVE IInv'
  BY <1>1, <1>8, QuietSteps, CreateReceipts DEF IInv, EnrolInv
<1>9. ASSUME challenge_insert(h) PROVE IInv'
  <2>1. RowInv' /\ IssuanceWithinQuota' /\ DayInv' /\ IssueInv'
    BY <1>9, InsertStep
  <2>2. /\ UNCHANGED <<now, pruned, allocation, receipts>> /\ task[h].pc = "issue"
        /\ task'[h] = Free /\ \A k \in Handlers : k # h => task'[k] = task[k]
    BY <1>9, DoFacts, FreeType DEF challenge_insert, IInv
  <2>3. lock' = IF lock = h THEN Nobody ELSE lock
    BY <1>9 DEF challenge_insert, Release
  <2>4. LockInv'
    BY <2>2, <2>3, FreeType DEF IInv, LockInv
  <2>5. ClockInv'
    <3>1. \A n \in pruned : challenge'[n].created = challenge[n].created
      <4>1. PICK m \in Nonces : m \notin Issued /\ \A n \in Nonces : n # m => challenge'[n] = challenge[n]
        BY <1>9, InsertFacts DEF IInv, EnrolInv
      <4> QED BY <4>1 DEF IInv, ClockInv, Issued
    <3>2. \A n \in pruned : n \in Issued'
      BY <1>9, InsertFacts DEF IInv, EnrolInv, ClockInv
    <3> QED BY <2>2, <3>1, <3>2, FreeType DEF IInv, ClockInv
  <2>6. EnrolInv'
    BY <2>2, OtherReceipts, FreeType
  <2> QED BY <2>1, <2>4, <2>5, <2>6 DEF IInv
<1>10. ASSUME NEW n \in Nonces, NEW c \in Clients, NEW o \in Operations, enroll(h, n, c, o) PROVE IInv'
  <2> DEFINE x == [Free EXCEPT !.pc = "lookup", !.client = c, !.op = o]
  <2>1. RowInv' /\ IssuanceWithinQuota' /\ DayInv' /\ IssueInv'
    BY <1>10, EnrollStep
  <2>2. x \in Task /\ x.pc = "lookup" /\ x.client = c /\ x.op = o /\ x.since = 0
    BY LookupTask
  <2>3. UNCHANGED <<now, pruned, lock, allocation, receipts>> /\ Do(h, x) /\ task[h] = Free
    BY <1>10 DEF enroll
  <2> HIDE DEF x
  <2>4. task'[h] = x /\ \A k \in Handlers : k # h => task'[k] = task[k]
    BY <2>2, <2>3, DoFacts DEF IInv
  <2>5. LockInv'
    BY <2>2, <2>3, <2>4 DEF IInv, LockInv
  <2>6. ClockInv'
    <3>1. Issued' = Issued /\ \A m \in Nonces : challenge'[m].created = challenge[m].created
      BY <1>10, EnrollFacts DEF IInv
    <3>2. pruned \subseteq Nonces
      BY DEF IInv, TypeOK
    <3> QED BY <2>2, <2>3, <2>4, <3>1, <3>2 DEF IInv, ClockInv
  <2>7. EnrolInv'
    BY <2>2, <2>3, <2>4, OtherReceipts
  <2> QED BY <2>1, <2>5, <2>6, <2>7 DEF IInv
<1> QED BY <1>3, <1>5, <1>6, <1>11, <1>7, <1>8, <1>9, <1>10 DEF HandlerStep

LEMMA InvInit == Init => IInv
<1> SUFFICES ASSUME Init PROVE IInv
  OBVIOUS
<1>1. TypeOK
  BY ShapeInit
<1>2. \A n \in Nonces : challenge[n].created = 0 /\ challenge[n].consumed = 0
  BY DEF Init, Unissued
<1>3. Issued = {} /\ Cardinality({}) = 0
  BY <1>2, FS_EmptySet DEF Issued
<1>4. \A h \in Handlers : task[h].pc = "free" /\ task[h].since = 0
  BY FreeType DEF Init
<1>5. RowInv
  BY <1>2, <1>3, Constants DEF RowInv, Init
<1>6. ClockInv /\ LockInv /\ IssueInv /\ IssuanceWithinQuota
  BY <1>3, <1>4 DEF Init, ClockInv, LockInv, IssueInv, IssuanceWithinQuota
<1>7. DayInv
  <2>1. \A c \in Clients, t \in Times : OpenOf(c, t) = {}
    BY <1>3 DEF OpenOf, UsableOf
  <2> QED BY <1>3, <2>1, Constants DEF DayInv
<1>8. EnrolInv
  BY <1>4 DEF Init, EnrolInv, InstallationInv, OneInstallationPerOperation, ReceiptNamesOwnInstallation
<1> QED BY <1>1, <1>5, <1>6, <1>7, <1>8 DEF IInv

LEMMA InvStep == IInv /\ [Next]_vars => IInv'
<1> SUFFICES ASSUME IInv, [Next]_vars PROVE IInv'
  OBVIOUS
<1>1. TypeOK'
  BY TypeStep DEF IInv, EnrolInv
<1>2. CASE \E h \in Handlers : HandlerStep(h)
  BY <1>1, <1>2, HandlerInv
<1>3. CASE \/ clock_advances \/ prune_bootstrap_and_nonces
           \/ \E i \in installations, p \in Placements : relocate(i, p)
  BY <1>1, <1>3, AmbientStep
<1>4. CASE UNCHANGED vars
  <2>1. UNCHANGED <<now, challenge, pruned, lock, allocation, receipts, task>>
    BY <1>4 DEF vars
  <2>2. RowInv' /\ IssuanceWithinQuota' /\ DayInv' /\ IssueInv'
    BY <1>1, <2>1, RowsKept, IssueKept DEF IInv
  <2>3. ClockInv' /\ LockInv'
    BY <2>1, SetsKept DEF IInv, ClockInv, LockInv
  <2>4. EnrolInv'
    BY <2>1, EnrolKept DEF IInv
  <2> QED BY <1>1, <2>2, <2>3, <2>4 DEF IInv
<1> QED BY <1>2, <1>3, <1>4 DEF Next

LEMMA Invariant == Spec => []IInv
<1> QED BY InvInit, InvStep, PTL DEF Spec

-----------------------------------------------------------------------------
(***************************************************************************)
(* The theorems.                                                           *)
(***************************************************************************)

(* Clock, challenges, installations and tasks keep their types.            *)
THEOREM TypeCorrect == Spec => []TypeOK
<1>1. IInv => TypeOK
  BY DEF IInv
<1> QED BY <1>1, Invariant, PTL

(* However requests overlap and wait for the lock, and whatever is pruned  *)
(* meanwhile, no minute holds more challenges than the quotas allow.       *)
THEOREM IssuanceBounded == Spec => []IssuanceWithinQuota
<1>1. IInv => IssuanceWithinQuota
  BY DEF IInv
<1> QED BY <1>1, Invariant, PTL

(* However attempts at an operation overlap, it allocates once, and every  *)
(* receipt ever signed for it names what it allocated.                     *)
THEOREM AllocatedOnce == Spec => []OneInstallationPerOperation
<1>1. IInv => OneInstallationPerOperation
  BY DEF IInv, EnrolInv
<1> QED BY <1>1, Invariant, PTL

(* A receipt is for an installation of the key that asked.                 *)
THEOREM OwnReceipt == Spec => []ReceiptNamesOwnInstallation
<1>1. IInv => ReceiptNamesOwnInstallation
  BY DEF IInv, EnrolInv
<1> QED BY <1>1, Invariant, PTL

(* In no day does a source complete more enrolments than the day's quota   *)
(* and the challenges it had open when the last of them was counted.       *)
THEOREM DayBounded == Spec => []EnrolmentsPerDayBounded
<1>1. IInv => EnrolmentsPerDayBounded
  <2> SUFFICES ASSUME IInv, NEW n \in Issued, challenge[n].consumed > 0
               PROVE  Cardinality(DayOf(n)) <= Daily + Local - 1
    BY DEF EnrolmentsPerDayBounded
  <2>1. Issued \subseteq Nonces /\ Nonces \subseteq Nat
    BY Constants DEF Issued, Nonces
  <2>2. /\ \A m \in Issued : /\ challenge[m].created \in Times /\ challenge[m].created \in Nat
                             /\ challenge[m].consumed \in Nat /\ challenge[m].client \in Clients
        /\ Day \in Nat \ {0} /\ Daily \in Nat /\ Local \in Nat
    BY Constants DEF IInv, TypeOK, RowInv, Challenge, Issued, Times
  <2>3. PICK c \in Clients, t \in Times : c = challenge[n].client /\ t = challenge[n].consumed /\ t <= now
    BY <2>1, <2>2, Constants DEF IInv, TypeOK, RowInv, Challenge, Times
  <2>4. DayOf(n) \subseteq OpenOf(c, t)
    <3> SUFFICES ASSUME NEW m \in DayOf(n) PROVE m \in OpenOf(c, t)
      OBVIOUS
    <3>1. challenge[m].created <= challenge[m].consumed
      BY <2>1 DEF IInv, RowInv, DayOf
    <3>2. challenge[m].created <= t
      BY <2>1, <2>2, <2>3, <3>1 DEF DayOf
    <3> QED BY <2>3, <3>2 DEF OpenOf, UsableOf, DayOf
  <2>5. OpenOf(c, t) \subseteq Nonces
    BY <2>1 DEF OpenOf, UsableOf
  <2>6. Cardinality(OpenOf(c, t)) <= Daily + Local - 1
    BY <2>3 DEF IInv, DayInv
  <2>7. /\ Cardinality(DayOf(n)) <= Cardinality(OpenOf(c, t))
        /\ Cardinality(DayOf(n)) \in Nat /\ Cardinality(OpenOf(c, t)) \in Nat
    BY <2>4, <2>5, Finite
  <2>8. Cardinality(DayOf(n)) <= Daily + Local - 1
    BY <2>2, <2>6, <2>7
  <2> QED BY <2>8
<1> QED BY <1>1, Invariant, PTL
=============================================================================
