------------------------ MODULE RestoreWitnessProofs ------------------------
(***************************************************************************)
(* Proofs about RestoreWitness, for any number of hosts, processes, tasks  *)
(* and transitions.                                                        *)
(*                                                                         *)
(* The numbers a task holds are tied to what it will do with them: the     *)
(* revision it read is the database's or an older one, not below the       *)
(* witnesses it has compared it with, and past the transition it is going  *)
(* to acknowledge (TaskInv). A witness above the database's revision is    *)
(* the trace of a restore, and then no process is past its startup check   *)
(* (StuckInv): so the lost revisions are not reused, and what was          *)
(* acknowledged is in the database or nobody is served (HeldInv).          *)
(***************************************************************************)
EXTENDS RestoreWitness, TLAPS

Quiet  == {"off", "idle", "served"}
Inside == {"db", "remote", "write", "local"}

(* The database holds distinct transitions.                                *)
DbInv ==
  /\ Len(db) <= commits
  /\ \A k \in 1 .. Len(db) : db[k] <= commits
  /\ \A j, k \in 1 .. Len(db) : db[j] = db[k] => j = k
  /\ \A a \in acked : a <= commits

(* Only the startup check of a starting process runs.                      *)
PhaseInv ==
  /\ \A p \in Procs : up[p] = "down" => seen[p] = 0
  /\ \A t \in Tasks : up[ProcOf[t]] = "down" => pc[t] = "off"
  /\ \A t \in Tasks : up[ProcOf[t]] = "starting" =>
       pc[t] = "off" \/ (t = BootOf[ProcOf[t]] /\ pc[t] \in Inside \cup {"lock"})

(* A task inside verify_and_advance has its host's file lock.              *)
LockInv == \A t \in Tasks : pc[t] \in Inside => lock[Host(t)] = t

(* What a task remembers.                                                  *)
TaskInv(t) ==
  /\ pc[t] \in Quiet => mine[t] = 0 /\ rev[t] = 0
  /\ t \in Checkers => mine[t] = 0
  /\ pc[t] \in {"remote", "write"} => HasRemote(t)
  /\ rev[t] <= Len(db) + 1
  /\ pc[t] \in {"write", "local"} => local[Host(t)] <= rev[t]
  /\ pc[t] = "write" => read[t] <= rev[t]
  /\ pc[t] = "local" /\ HasRemote(t) => rev[t] <= remote
  /\ mine[t] # 0 => \E k \in 1 .. Len(db) :
       db[k] = mine[t] /\ (pc[t] \in {"remote", "write", "local"} => k + 1 <= rev[t])

SeenInv == \A p \in Procs : seen[p] <= remote

(* The witness that decides: the S3 object, or without one the file.       *)
Mark(h) == IF UseRemote THEN remote ELSE local[h]

(* Files alone protect one host; several share the S3 object.              *)
Covered == UseRemote \/ \A g, h \in Hosts : g = h

(* What was acknowledged is below the witness.                             *)
WitnessedInv ==
  \A k \in 1 .. Len(db) : db[k] \in acked => \E h \in Hosts : k + 1 <= Mark(h)

(* After a restore below the witness nobody gets past the startup check.   *)
StuckInv ==
  \A h \in Hosts : Mark(h) > Len(db) + 1 =>
    /\ \A p \in Procs : up[p] # "up" /\ seen[p] = 0
    /\ \A t \in Tasks : pc[t] \in {"off", "lock", "db", "remote"}

(* What was acknowledged is there, or the restore is noticed.              *)
HeldInv == acked \subseteq Held \/ \E h \in Hosts : Mark(h) > Len(db) + 1

BaseInv == TypeOK /\ DbInv /\ PhaseInv /\ LockInv /\ (\A t \in Tasks : TaskInv(t)) /\ SeenInv
MarkInv == Covered => WitnessedInv /\ StuckInv /\ HeldInv
IInv == BaseInv /\ MarkInv
-----------------------------------------------------------------------------
(***************************************************************************)
(* Constants, and what the steps do to a task and to its process.          *)
(***************************************************************************)
Pcs == {"off", "idle", "served", "lock", "db", "remote", "write", "local"}

LEMMA Constants ==
  /\ MaxCommits \in Nat /\ RemoteAttempts \in Nat \ {0} /\ Nobody \notin Tasks
  /\ UseRemote \in BOOLEAN
  /\ 0 \in Revisions /\ Revisions \subseteq Nat
  /\ \A t \in Tasks : ProcOf[t] \in Procs /\ Host(t) \in Hosts
  /\ \A p \in Procs : BootOf[p] \in Tasks \ Checkers /\ ProcOf[BootOf[p]] = p /\ HostOf[p] \in Hosts
BY WitnessAssumption DEF WitnessAssumption, Revisions, Host

(* The shape of what a task remembers, of the locks and of the processes.  *)
TaskTypes ==
  /\ pc \in [Tasks -> Pcs]
  /\ mine \in [Tasks -> 0 .. MaxCommits]
  /\ rev \in [Tasks -> Revisions]
  /\ read \in [Tasks -> Revisions]
  /\ tries \in [Tasks -> 0 .. RemoteAttempts]
ProcTypes ==
  /\ lock \in [Hosts -> Tasks \cup {Nobody}]
  /\ up \in [Procs -> {"down", "starting", "up"}]
  /\ seen \in [Procs -> Revisions]
DataTypes ==
  /\ db \in Seq(1 .. MaxCommits)
  /\ commits \in 0 .. MaxCommits
  /\ acked \subseteq 1 .. MaxCommits
  /\ local \in [Hosts -> Revisions]
  /\ remote \in Revisions

LEMMA TypeParts == TypeOK <=> TaskTypes /\ ProcTypes /\ DataTypes
BY DEF TypeOK, TaskTypes, ProcTypes, DataTypes, Pcs

Kept(t) == pc'[t] = pc[t] /\ mine'[t] = mine[t] /\ rev'[t] = rev[t] /\ read'[t] = read[t]
Settled(t) == pc'[t] \in Quiet /\ mine'[t] = 0 /\ rev'[t] = 0

(* A process exits: its tasks stop and its locks are free.                 *)
LEMMA ExitFacts ==
  ASSUME BaseInv, NEW p \in Procs, Exit(p)
  PROVE  /\ TaskTypes' /\ ProcTypes'
         /\ up'[p] = "down" /\ seen'[p] = 0
         /\ \A q \in Procs : q # p => up'[q] = up[q] /\ seen'[q] = seen[q]
         /\ \A t \in Tasks : IF ProcOf[t] = p THEN Settled(t) /\ pc'[t] = "off" ELSE Kept(t)
         /\ LockInv' /\ PhaseInv'
<1>1. /\ pc' = [t \in Tasks |-> IF ProcOf[t] = p THEN "off" ELSE pc[t]]
      /\ mine' = [t \in Tasks |-> IF ProcOf[t] = p THEN 0 ELSE mine[t]]
      /\ rev' = [t \in Tasks |-> IF ProcOf[t] = p THEN 0 ELSE rev[t]]
      /\ read' = [t \in Tasks |-> IF ProcOf[t] = p THEN 0 ELSE read[t]]
      /\ tries' = [t \in Tasks |-> IF ProcOf[t] = p THEN 0 ELSE tries[t]]
      /\ lock' = [h \in Hosts |-> IF lock[h] \in Tasks /\ ProcOf[lock[h]] = p THEN Nobody ELSE lock[h]]
  BY DEF Exit, TasksOf
<1>2. up' = [up EXCEPT ![p] = "down"] /\ seen' = [seen EXCEPT ![p] = 0]
  BY DEF Exit
<1>3. TaskTypes /\ ProcTypes
  BY TypeParts DEF BaseInv
<1>4. TaskTypes'
  <2>1. pc' \in [Tasks -> Pcs]
    BY <1>1, <1>3 DEF TaskTypes, Pcs
  <2>2. mine' \in [Tasks -> 0 .. MaxCommits] /\ rev' \in [Tasks -> Revisions]
    BY <1>1, <1>3, Constants DEF TaskTypes
  <2>3. read' \in [Tasks -> Revisions] /\ tries' \in [Tasks -> 0 .. RemoteAttempts]
    BY <1>1, <1>3, Constants DEF TaskTypes
  <2> QED BY <2>1, <2>2, <2>3 DEF TaskTypes
<1>5. ProcTypes'
  BY <1>1, <1>2, <1>3, Constants DEF ProcTypes
<1>6. /\ up'[p] = "down" /\ seen'[p] = 0
      /\ \A q \in Procs : q # p => up'[q] = up[q] /\ seen'[q] = seen[q]
  BY <1>2, <1>3 DEF ProcTypes
<1>7. \A t \in Tasks : IF ProcOf[t] = p THEN Settled(t) /\ pc'[t] = "off" ELSE Kept(t)
  BY <1>1 DEF Settled, Kept, Quiet
<1>8. LockInv'
  <2> SUFFICES ASSUME NEW t \in Tasks, pc'[t] \in Inside PROVE lock'[Host(t)] = t
    BY DEF LockInv
  <2>1. ProcOf[t] # p /\ pc[t] \in Inside
    BY <1>1 DEF Inside
  <2>2. lock[Host(t)] = t
    BY <2>1 DEF BaseInv, LockInv
  <2> QED BY <1>1, <2>1, <2>2, Constants
<1>9. PhaseInv'
  <2>1. \A q \in Procs : up'[q] = "down" => seen'[q] = 0
    BY <1>6 DEF BaseInv, PhaseInv
  <2>2. \A t \in Tasks : up'[ProcOf[t]] = "down" => pc'[t] = "off"
    BY <1>6, <1>7, Constants DEF BaseInv, PhaseInv, Kept
  <2>3. \A t \in Tasks : up'[ProcOf[t]] = "starting" =>
          pc'[t] = "off" \/ (t = BootOf[ProcOf[t]] /\ pc'[t] \in Inside \cup {"lock"})
    BY <1>6, <1>7, Constants DEF BaseInv, PhaseInv, Kept
  <2> QED BY <2>1, <2>2, <2>3 DEF PhaseInv
<1> QED BY <1>4, <1>5, <1>6, <1>7, <1>8, <1>9

(* A task leaves verify_and_advance and gives its lock back.               *)
LEMMA UnlockFacts ==
  ASSUME BaseInv, NEW t \in Tasks, Unlock(t)
  PROVE  /\ lock' \in [Hosts -> Tasks \cup {Nobody}]
         /\ \A s \in Tasks : s # t /\ pc[s] \in Inside => lock'[Host(s)] = s
<1>1. lock \in [Hosts -> Tasks \cup {Nobody}]
  BY DEF BaseInv, TypeOK
<1>2. \A s \in Tasks : pc[s] \in Inside => lock[Host(s)] = s
  BY DEF BaseInv, LockInv
<1> QED BY <1>1, <1>2, Constants DEF Unlock

LEMMA SucceedFacts ==
  ASSUME BaseInv, NEW t \in Tasks, Succeed(t), UNCHANGED seen, pc[t] \in Inside
  PROVE  /\ TaskTypes' /\ ProcTypes'
         /\ acked' = IF mine[t] # 0 THEN acked \cup {mine[t]} ELSE acked
         /\ pc'[t] = "served" /\ Settled(t)
         /\ \A s \in Tasks : s # t => Kept(s) \/ (Settled(s) /\ pc'[s] = "idle")
         /\ LockInv' /\ PhaseInv'
<1> DEFINE p == ProcOf[t]
<1>1. TaskTypes /\ ProcTypes /\ p \in Procs
  BY TypeParts, Constants DEF BaseInv
<1>2. /\ mine' = [mine EXCEPT ![t] = 0] /\ rev' = [rev EXCEPT ![t] = 0]
      /\ read' = [read EXCEPT ![t] = 0] /\ tries' = [tries EXCEPT ![t] = 0]
      /\ acked' = IF mine[t] # 0 THEN acked \cup {mine[t]} ELSE acked
      /\ Unlock(t)
  BY DEF Succeed
<1>3. \/ /\ up[p] = "starting" /\ up' = [up EXCEPT ![p] = "up"]
         /\ pc' = [s \in Tasks |-> IF s = t THEN "served" ELSE IF ProcOf[s] = p THEN "idle" ELSE pc[s]]
      \/ up[p] # "starting" /\ UNCHANGED up /\ pc' = [pc EXCEPT ![t] = "served"]
  BY DEF Succeed, TasksOf
<1>4. up[p] # "down"
  BY DEF BaseInv, PhaseInv, Inside
<1>5. /\ mine' \in [Tasks -> 0 .. MaxCommits] /\ rev' \in [Tasks -> Revisions]
      /\ read' \in [Tasks -> Revisions] /\ tries' \in [Tasks -> 0 .. RemoteAttempts]
      /\ mine'[t] = 0 /\ rev'[t] = 0
      /\ \A s \in Tasks : s # t => mine'[s] = mine[s] /\ rev'[s] = rev[s] /\ read'[s] = read[s]
  BY <1>1, <1>2, Constants DEF TaskTypes
<1>6. /\ pc' \in [Tasks -> Pcs] /\ pc'[t] = "served"
      /\ \A s \in Tasks : s # t => pc'[s] = pc[s]
            \/ (ProcOf[s] = p /\ up[p] = "starting" /\ pc'[s] = "idle")
  BY <1>1, <1>3 DEF TaskTypes, Pcs
<1>7. ASSUME NEW s \in Tasks, s # t, ProcOf[s] = p, up[p] = "starting" PROVE mine[s] = 0 /\ rev[s] = 0
  <2>1. t = BootOf[p]
    BY <1>7 DEF BaseInv, PhaseInv, Inside
  <2>2. pc[s] = "off"
    BY <1>7, <2>1 DEF BaseInv, PhaseInv
  <2> QED BY <2>2 DEF BaseInv, TaskInv, Quiet
<1>8. /\ Settled(t)
      /\ \A s \in Tasks : s # t => Kept(s) \/ (Settled(s) /\ pc'[s] = "idle")
  BY <1>5, <1>6, <1>7 DEF Settled, Kept, Quiet
<1>9. TaskTypes' /\ ProcTypes'
  BY <1>1, <1>2, <1>3, <1>5, <1>6, UnlockFacts DEF TaskTypes, ProcTypes
<1>10. LockInv'
  <2>1. \A s \in Tasks : pc'[s] \in Inside => s # t /\ pc[s] \in Inside
    BY <1>6 DEF Inside
  <2> QED BY <1>2, <2>1, UnlockFacts DEF LockInv
<1>11. PhaseInv'
  <2>1. up'[p] = "up" /\ \A q \in Procs : q # p => up'[q] = up[q]
    BY <1>1, <1>3, <1>4 DEF ProcTypes
  <2>2. \A q \in Procs : up'[q] = "down" => seen'[q] = 0
    BY <2>1 DEF BaseInv, PhaseInv
  <2>3. \A s \in Tasks : ProcOf[s] # p => pc'[s] = pc[s] /\ up'[ProcOf[s]] = up[ProcOf[s]]
    BY <1>6, <2>1, Constants
  <2> QED BY <2>1, <2>2, <2>3 DEF BaseInv, PhaseInv
<1> QED BY <1>2, <1>6, <1>8, <1>9, <1>10, <1>11

(* An error: the process exits, or an up process's request goes idle.      *)
LEMMA FailFacts ==
  ASSUME BaseInv, NEW t \in Tasks, Fail(t), pc[t] \in Inside \cup {"lock"}
  PROVE  /\ TaskTypes' /\ ProcTypes' /\ UNCHANGED acked
         /\ \A p \in Procs : up'[p] \in {up[p], "down"} /\ seen'[p] \in {seen[p], 0}
         /\ Settled(t)
         /\ \A s \in Tasks : Kept(s) \/ Settled(s)
         /\ \A s \in Tasks : pc'[s] # pc[s] => pc'[s] = "off" \/ up[ProcOf[t]] = "up"
         /\ \A s \in Tasks : pc'[s] # pc[s] => pc'[s] # "served"
         /\ LockInv' /\ PhaseInv'
<1> DEFINE p == ProcOf[t]
<1>1. TaskTypes /\ ProcTypes /\ p \in Procs /\ UNCHANGED acked
  BY TypeParts, Constants DEF BaseInv, Fail
<1>2. CASE Exit(p)
  BY <1>1, <1>2, ExitFacts DEF Kept
<1>3. CASE ~Exit(p)
  <2>1. /\ up[p] # "starting" /\ Unlock(t) /\ UNCHANGED <<up, seen>>
        /\ mine' = [mine EXCEPT ![t] = 0] /\ rev' = [rev EXCEPT ![t] = 0]
        /\ read' = [read EXCEPT ![t] = 0] /\ tries' = [tries EXCEPT ![t] = 0]
        /\ pc' = [pc EXCEPT ![t] = "idle"]
    BY <1>3 DEF Fail
  <2>2. up[p] = "up"
    BY <1>1, <2>1 DEF BaseInv, PhaseInv, Inside, ProcTypes
  <2>3. TaskTypes'
    BY <1>1, <2>1, Constants DEF TaskTypes, Pcs
  <2>4. /\ pc'[t] = "idle" /\ mine'[t] = 0 /\ rev'[t] = 0
        /\ \A s \in Tasks : s # t => pc'[s] = pc[s] /\ mine'[s] = mine[s] /\ rev'[s] = rev[s] /\ read'[s] = read[s]
    BY <1>1, <2>1 DEF TaskTypes
  <2>5. Settled(t) /\ \A s \in Tasks : Kept(s) \/ Settled(s)
    BY <2>4 DEF Kept, Settled, Quiet
  <2>6. ProcTypes'
    BY <1>1, <2>1, UnlockFacts DEF ProcTypes
  <2>7. LockInv'
    <3>1. \A s \in Tasks : pc'[s] \in Inside => s # t /\ pc[s] \in Inside
      BY <2>4 DEF Inside
    <3> QED BY <2>1, <3>1, UnlockFacts DEF LockInv
  <2>8. PhaseInv'
    BY <2>1, <2>2, <2>4 DEF BaseInv, PhaseInv
  <2> QED BY <1>1, <2>1, <2>2, <2>3, <2>4, <2>5, <2>6, <2>7, <2>8
<1> QED BY <1>2, <1>3
(* Task t goes on to q.                                                    *)
LEMMA MoveFacts ==
  ASSUME BaseInv, NEW t \in Tasks, NEW q \in Inside \cup {"lock"}, pc[t] # "off",
         pc' = [pc EXCEPT ![t] = q], UNCHANGED up,
         \A p \in Procs : p # ProcOf[t] => seen'[p] = seen[p]
  PROVE  /\ pc' \in [Tasks -> Pcs] /\ pc'[t] = q
         /\ \A s \in Tasks : s # t => pc'[s] = pc[s]
         /\ PhaseInv'
         /\ UNCHANGED lock /\ (q \in Inside => pc[t] \in Inside) => LockInv'
<1>1. pc \in [Tasks -> Pcs] /\ q \in Pcs
  BY DEF BaseInv, TypeOK, Pcs, Inside
<1>2. pc' \in [Tasks -> Pcs] /\ pc'[t] = q /\ \A s \in Tasks : s # t => pc'[s] = pc[s]
  BY <1>1
<1>3. /\ up[ProcOf[t]] # "down"
      /\ up[ProcOf[t]] = "starting" => t = BootOf[ProcOf[t]]
  BY DEF BaseInv, PhaseInv
<1>4. PhaseInv'
  <2>1. \A p \in Procs : up'[p] = "down" => seen'[p] = 0
    BY <1>3 DEF BaseInv, PhaseInv
  <2>2. \A s \in Tasks : up'[ProcOf[s]] = "down" => pc'[s] = "off"
    BY <1>2, <1>3 DEF BaseInv, PhaseInv
  <2>3. \A s \in Tasks : up'[ProcOf[s]] = "starting" =>
          pc'[s] = "off" \/ (s = BootOf[ProcOf[s]] /\ pc'[s] \in Inside \cup {"lock"})
    BY <1>2, <1>3 DEF BaseInv, PhaseInv
  <2> QED BY <2>1, <2>2, <2>3 DEF PhaseInv
<1>5. UNCHANGED lock /\ (q \in Inside => pc[t] \in Inside) => LockInv'
  BY <1>2 DEF BaseInv, LockInv
<1> QED BY <1>2, <1>4, <1>5

-----------------------------------------------------------------------------
(***************************************************************************)
(* What a task remembers stays true while others run.                      *)
(***************************************************************************)
LEMMA Numbers ==
  ASSUME BaseInv
  PROVE  /\ Len(db) \in Nat /\ remote \in Nat /\ commits \in Nat
         /\ \A k \in 1 .. Len(db) : db[k] \in Nat \ {0}
         /\ \A t \in Tasks : rev[t] \in Nat /\ read[t] \in Nat /\ mine[t] \in Nat
         /\ \A h \in Hosts : local[h] \in Nat
         /\ \A p \in Procs : seen[p] \in Nat
         /\ Len(db) + 1 \in Revisions
<1>1. db \in Seq(1 .. MaxCommits) /\ Len(db) \in Nat
  BY DEF BaseInv, TypeOK
<1>2. \A k \in 1 .. Len(db) : db[k] \in Nat \ {0}
  BY <1>1, Constants
<1>3. remote \in Nat /\ commits \in Nat
  BY Constants DEF BaseInv, TypeOK
<1>4. \A t \in Tasks : rev[t] \in Nat /\ read[t] \in Nat /\ mine[t] \in Nat
  <2>1. TaskTypes
    BY TypeParts DEF BaseInv
  <2>2. Revisions \subseteq Nat /\ 0 .. MaxCommits \subseteq Nat
    BY Constants
  <2>3. \A t \in Tasks : rev[t] \in Revisions /\ read[t] \in Revisions /\ mine[t] \in 0 .. MaxCommits
    BY <2>1 DEF TaskTypes
  <2> QED BY <2>2, <2>3
<1>5. (\A h \in Hosts : local[h] \in Nat) /\ \A p \in Procs : seen[p] \in Nat
  BY Constants DEF BaseInv, TypeOK
<1>6. Len(db) + 1 \in Revisions
  BY <1>1, Constants DEF BaseInv, TypeOK, DbInv, Revisions
<1> QED BY <1>1, <1>2, <1>3, <1>4, <1>5, <1>6

(* The database only grows.                                                *)
Grows ==
  /\ Len(db') \in Nat /\ Len(db) <= Len(db')
  /\ \A k \in 1 .. Len(db) : db'[k] = db[k]

LEMMA KeptTask ==
  ASSUME BaseInv, NEW t \in Tasks, Kept(t), Grows, remote' \in Nat, remote' >= remote,
         pc[t] \in {"write", "local"} => local'[Host(t)] = local[Host(t)]
  PROVE  TaskInv(t)'
<1>1. TaskInv(t)
  BY DEF BaseInv
<1>2. pc'[t] = pc[t] /\ mine'[t] = mine[t] /\ rev'[t] = rev[t] /\ read'[t] = read[t]
  BY DEF Kept
<1>3. rev[t] \in Nat /\ Len(db) \in Nat /\ remote \in Nat
  BY Numbers
<1>4. rev'[t] <= Len(db') + 1
  BY <1>1, <1>2, <1>3 DEF TaskInv, Grows
<1>5. mine'[t] # 0 => \E k \in 1 .. Len(db') :
        db'[k] = mine'[t] /\ (pc'[t] \in {"remote", "write", "local"} => k + 1 <= rev'[t])
  <2> SUFFICES ASSUME mine[t] # 0
               PROVE  \E k \in 1 .. Len(db') :
                        db'[k] = mine[t] /\ (pc[t] \in {"remote", "write", "local"} => k + 1 <= rev[t])
    BY <1>2
  <2>1. PICK k \in 1 .. Len(db) :
          db[k] = mine[t] /\ (pc[t] \in {"remote", "write", "local"} => k + 1 <= rev[t])
    BY <1>1 DEF TaskInv
  <2>2. k \in 1 .. Len(db') /\ db'[k] = db[k]
    BY <1>3 DEF Grows
  <2> QED BY <2>1, <2>2
<1>6. pc'[t] = "local" /\ HasRemote(t) => rev'[t] <= remote'
  BY <1>1, <1>2, <1>3 DEF TaskInv
<1> QED BY <1>1, <1>2, <1>4, <1>5, <1>6 DEF TaskInv

LEMMA SettledTask ==
  ASSUME BaseInv, NEW t \in Tasks, Settled(t), Grows
  PROVE  TaskInv(t)'
<1>1. pc'[t] \in Quiet /\ mine'[t] = 0 /\ rev'[t] = 0 /\ rev'[t] <= Len(db') + 1
  BY DEF Settled, Grows
<1> QED BY <1>1 DEF TaskInv, Quiet

LEMMA SameDb ==
  ASSUME BaseInv, UNCHANGED db
  PROVE  Grows
BY Numbers DEF Grows

(* Steps that end a check, one way or another.                             *)
LEMMA OutcomeBase ==
  ASSUME BaseInv, UNCHANGED <<db, commits>>,
         TaskTypes', ProcTypes', PhaseInv', LockInv',
         local' \in [Hosts -> Revisions], remote' \in Revisions, remote' >= remote,
         \A s \in Tasks : \/ Settled(s)
                          \/ /\ Kept(s)
                             /\ pc[s] \in {"write", "local"} => local'[Host(s)] = local[Host(s)],
         \A p \in Procs : seen'[p] \in {seen[p], 0},
         \/ UNCHANGED acked
         \/ \E t \in Tasks : mine[t] # 0 /\ acked' = acked \cup {mine[t]}
  PROVE  BaseInv'
<1>1. Grows /\ remote' \in Nat
  BY SameDb, Constants
<1>2. \A s \in Tasks : TaskInv(s)'
  BY <1>1, KeptTask, SettledTask
<1>3. SeenInv'
  BY <1>1, Numbers DEF BaseInv, SeenInv
<1>4. \A a \in acked' : a \in 1 .. MaxCommits /\ a <= commits
  <2>1. ASSUME NEW t \in Tasks, mine[t] # 0 PROVE mine[t] \in 1 .. MaxCommits /\ mine[t] <= commits
    BY <2>1, Constants DEF BaseInv, TaskInv, DbInv, TypeOK
  <2> QED BY <2>1 DEF BaseInv, DbInv, TypeOK
<1>5. DbInv'
  BY <1>4 DEF BaseInv, DbInv
<1>6. DataTypes'
  BY <1>4, TypeParts DEF BaseInv, DataTypes
<1>7. TypeOK'
  BY <1>6, TypeParts DEF TypeOK, TaskTypes, ProcTypes, DataTypes, Pcs
<1> QED BY <1>2, <1>3, <1>5, <1>7 DEF BaseInv

(* Steps that take task t on.                                              *)
LEMMA MoveBase ==
  ASSUME BaseInv, UNCHANGED <<db, commits, acked, local>>, NEW t \in Tasks,
         TaskTypes', ProcTypes', PhaseInv', LockInv',
         remote' \in Revisions, remote' >= remote,
         \A s \in Tasks : s # t => Kept(s),
         TaskInv(t)', SeenInv'
  PROVE  BaseInv'
<1>1. Grows /\ remote' \in Nat
  BY SameDb, Constants
<1>2. \A s \in Tasks : TaskInv(s)'
  <2>1. ASSUME NEW s \in Tasks, s # t PROVE TaskInv(s)'
    BY <1>1, <2>1, KeptTask
  <2> QED BY <2>1
<1>3. DbInv'
  BY DEF BaseInv, DbInv
<1>4. TypeOK'
  BY DEF BaseInv, TypeOK, TaskTypes, ProcTypes, Pcs
<1> QED BY <1>2, <1>3, <1>4 DEF BaseInv
-----------------------------------------------------------------------------
(***************************************************************************)
(* Every step keeps the numbers in order.                                  *)
(***************************************************************************)

(* A task that (re)enters its check, or waits to.                          *)
LEMMA EnterTask ==
  ASSUME BaseInv, NEW t \in Tasks, UNCHANGED <<db, mine, rev>>, pc'[t] \in {"lock", "db"}
  PROVE  TaskInv(t)'
<1>1. TaskInv(t)
  BY DEF BaseInv
<1>2. \A k \in 1 .. Len(db) : ~(pc'[t] \in {"remote", "write", "local"})
  OBVIOUS
<1> QED BY <1>1, <1>2 DEF TaskInv, Quiet

LEMMA StartBase ==
  ASSUME BaseInv, NEW p \in Procs, start(p)
  PROVE  BaseInv'
<1> DEFINE t == BootOf[p]
<1>1. t \in Tasks /\ ProcOf[t] = p /\ TaskTypes /\ ProcTypes
  BY Constants, TypeParts DEF BaseInv
<1>2. /\ UNCHANGED <<db, commits, acked, local, remote, lock, seen, mine, rev, read, tries>>
      /\ up[p] = "down" /\ up' = [up EXCEPT ![p] = "starting"] /\ pc' = [pc EXCEPT ![t] = "lock"]
  BY DEF start
<1> HIDE DEF t
<1>3. pc' \in [Tasks -> Pcs] /\ pc'[t] = "lock" /\ \A s \in Tasks : s # t => pc'[s] = pc[s]
  BY <1>1, <1>2 DEF TaskTypes, Pcs
<1>4. up' \in [Procs -> {"down", "starting", "up"}] /\ up'[p] = "starting"
      /\ \A q \in Procs : q # p => up'[q] = up[q]
  BY <1>2, <1>1 DEF ProcTypes
<1>5. PhaseInv'
  <2>1. \A s \in Tasks : ProcOf[s] = p => pc[s] = "off"
    BY <1>2 DEF BaseInv, PhaseInv
  <2>2. \A s \in Tasks : up'[ProcOf[s]] = "down" => pc'[s] = "off"
    BY <1>1, <1>3, <1>4, Constants DEF BaseInv, PhaseInv
  <2>3. \A s \in Tasks : up'[ProcOf[s]] = "starting" =>
          pc'[s] = "off" \/ (s = BootOf[ProcOf[s]] /\ pc'[s] \in Inside \cup {"lock"})
    <3> SUFFICES ASSUME NEW s \in Tasks, up'[ProcOf[s]] = "starting"
                 PROVE  pc'[s] = "off" \/ (s = BootOf[ProcOf[s]] /\ pc'[s] \in Inside \cup {"lock"})
      OBVIOUS
    <3>1. CASE s = t
      BY <1>1, <1>3, <3>1 DEF t
    <3>2. CASE s # t /\ ProcOf[s] = p
      BY <1>3, <2>1, <3>2
    <3>3. CASE ProcOf[s] # p
      BY <1>1, <1>3, <1>4, <3>3, Constants DEF BaseInv, PhaseInv
    <3> QED BY <3>1, <3>2, <3>3
  <2>4. \A q \in Procs : up'[q] = "down" => seen'[q] = 0
    BY <1>2, <1>4 DEF BaseInv, PhaseInv
  <2> QED BY <2>2, <2>3, <2>4 DEF PhaseInv
<1>6. LockInv'
  BY <1>2, <1>3 DEF BaseInv, LockInv, Inside
<1>7. TaskInv(t)'
  BY <1>1, <1>2, <1>3, EnterTask
<1>8. SeenInv' /\ remote' \in Revisions /\ remote' >= remote
  BY <1>2, Numbers DEF BaseInv, SeenInv, TypeOK
<1>9. \A s \in Tasks : s # t => Kept(s)
  BY <1>2, <1>3 DEF Kept
<1>10. TaskTypes' /\ ProcTypes'
  BY <1>1, <1>2, <1>3, <1>4 DEF TaskTypes, ProcTypes
<1> QED BY <1>1, <1>2, <1>5, <1>6, <1>7, <1>8, <1>9, <1>10, MoveBase

LEMMA CrashBase ==
  ASSUME BaseInv, NEW p \in Procs, crash(p)
  PROVE  BaseInv'
<1>1. Exit(p) /\ UNCHANGED <<db, commits, acked, local, remote>>
  BY DEF crash
<1>2. /\ TaskTypes' /\ ProcTypes' /\ LockInv' /\ PhaseInv'
      /\ \A q \in Procs : seen'[q] \in {seen[q], 0}
      /\ \A s \in Tasks : Kept(s) \/ Settled(s)
  BY <1>1, ExitFacts
<1>3. local' \in [Hosts -> Revisions] /\ remote' \in Revisions /\ remote' >= remote
  BY <1>1, Numbers DEF BaseInv, TypeOK
<1> QED BY <1>1, <1>2, <1>3, OutcomeBase

(* A check that fails with nothing written, or with its put applied.       *)
LEMMA FailBase ==
  ASSUME BaseInv, NEW t \in Tasks, Fail(t), pc[t] \in Inside \cup {"lock"},
         UNCHANGED <<db, commits, local>>, remote' \in Revisions, remote' >= remote
  PROVE  BaseInv'
<1>1. /\ TaskTypes' /\ ProcTypes' /\ LockInv' /\ PhaseInv' /\ UNCHANGED acked
      /\ \A q \in Procs : seen'[q] \in {seen[q], 0}
      /\ \A s \in Tasks : Kept(s) \/ Settled(s)
  BY FailFacts
<1>2. local' \in [Hosts -> Revisions]
  BY DEF BaseInv, TypeOK
<1> QED BY <1>1, <1>2, OutcomeBase

(* A check that passes, the file written or left.                          *)
LEMMA SucceedBase ==
  ASSUME BaseInv, NEW t \in Tasks, Succeed(t), UNCHANGED seen, pc[t] \in Inside,
         UNCHANGED <<db, commits, remote>>,
         UNCHANGED local \/ local' = [local EXCEPT ![Host(t)] = rev[t]]
  PROVE  BaseInv'
<1>1. /\ TaskTypes' /\ ProcTypes' /\ LockInv' /\ PhaseInv'
      /\ acked' = IF mine[t] # 0 THEN acked \cup {mine[t]} ELSE acked
      /\ Settled(t)
      /\ \A s \in Tasks : s # t => Kept(s) \/ Settled(s)
  BY SucceedFacts
<1>2. local' \in [Hosts -> Revisions] /\ remote' \in Revisions /\ remote' >= remote
  <2>1. local \in [Hosts -> Revisions] /\ rev[t] \in Revisions /\ remote \in Revisions
    BY DEF BaseInv, TypeOK
  <2> QED BY <2>1, Numbers
<1>3. ASSUME NEW s \in Tasks, s # t, pc[s] \in {"write", "local"}
      PROVE  local'[Host(s)] = local[Host(s)]
  <2>1. Host(s) # Host(t)
    BY <1>3 DEF BaseInv, LockInv, Inside
  <2> QED BY <2>1, Constants DEF BaseInv, TypeOK
<1>4. \A s \in Tasks : \/ Settled(s)
                       \/ /\ Kept(s)
                          /\ pc[s] \in {"write", "local"} => local'[Host(s)] = local[Host(s)]
  BY <1>1, <1>3
<1>5. UNCHANGED acked \/ (mine[t] # 0 /\ acked' = acked \cup {mine[t]})
  BY <1>1
<1> QED BY <1>1, <1>2, <1>4, <1>5, OutcomeBase
LEMMA IntegrityBase ==
  ASSUME BaseInv, NEW t \in Tasks, verify_integrity(t)
  PROVE  BaseInv'
<1>1. /\ pc[t] # "off" /\ pc' = [pc EXCEPT ![t] = "lock"] /\ "lock" \notin Inside
      /\ UNCHANGED <<db, commits, acked, local, remote, lock, up, seen, mine, rev, read, tries>>
  BY DEF verify_integrity, Ready, Inside
<1>2. /\ pc' \in [Tasks -> Pcs] /\ pc'[t] = "lock" /\ PhaseInv' /\ LockInv'
      /\ \A s \in Tasks : s # t => pc'[s] = pc[s]
  BY <1>1, MoveFacts
<1>3. TaskInv(t)'
  BY <1>1, <1>2, EnterTask
<1>4. SeenInv' /\ remote' \in Revisions /\ remote' >= remote
  BY <1>1, Numbers DEF BaseInv, SeenInv, TypeOK
<1>5. TaskTypes' /\ ProcTypes'
  BY <1>1, <1>2, TypeParts DEF BaseInv, TaskTypes, ProcTypes
<1>6. \A s \in Tasks : s # t => Kept(s)
  BY <1>1, <1>2 DEF Kept
<1> QED BY <1>1, <1>2, <1>3, <1>4, <1>5, <1>6, MoveBase

LEMMA LockBase ==
  ASSUME BaseInv, NEW t \in Tasks, verify_lock(t)
  PROVE  BaseInv'
<1>1. /\ pc[t] = "lock" /\ pc' = [pc EXCEPT ![t] = "db"] /\ "db" \in Inside
      /\ lock[Host(t)] = Nobody /\ lock' = [lock EXCEPT ![Host(t)] = t]
      /\ tries' = [tries EXCEPT ![t] = RemoteAttempts]
      /\ UNCHANGED <<db, commits, acked, local, remote, up, seen, mine, rev, read>>
  BY DEF verify_lock, Inside
<1>2. /\ pc' \in [Tasks -> Pcs] /\ pc'[t] = "db" /\ PhaseInv'
      /\ \A s \in Tasks : s # t => pc'[s] = pc[s]
  BY <1>1, MoveFacts
<1>3. TaskTypes /\ ProcTypes
  BY TypeParts DEF BaseInv
<1>4. TaskTypes'
  <2>1. tries' \in [Tasks -> 0 .. RemoteAttempts]
    BY <1>1, <1>3, Constants DEF TaskTypes
  <2> QED BY <1>1, <1>2, <1>3, <2>1 DEF TaskTypes
<1>5. ProcTypes' /\ lock'[Host(t)] = t /\ \A h \in Hosts : h # Host(t) => lock'[h] = lock[h]
  BY <1>1, <1>3, Constants DEF ProcTypes
<1>6. LockInv'
  <2> SUFFICES ASSUME NEW s \in Tasks, s # t, pc[s] \in Inside PROVE lock'[Host(s)] = s
    BY <1>2, <1>5 DEF LockInv
  <2>1. lock[Host(s)] = s /\ s # Nobody
    BY Constants DEF BaseInv, LockInv
  <2> QED BY <1>1, <1>5, <2>1, Constants
<1>7. TaskInv(t)'
  BY <1>1, <1>2, EnterTask
<1>8. SeenInv' /\ remote' \in Revisions /\ remote' >= remote
  BY <1>1, Numbers DEF BaseInv, SeenInv, TypeOK
<1>9. \A s \in Tasks : s # t => Kept(s)
  BY <1>1, <1>2 DEF Kept
<1> QED BY <1>1, <1>2, <1>4, <1>5, <1>6, <1>7, <1>8, <1>9, MoveBase

(* A task inside its check goes on: the common part.                       *)
LEMMA OnBase ==
  ASSUME BaseInv, NEW t \in Tasks, NEW q \in Inside, pc[t] \in Inside, pc' = [pc EXCEPT ![t] = q],
         UNCHANGED <<db, commits, acked, local, lock, up, mine>>,
         NEW v \in Revisions, rev' = [rev EXCEPT ![t] = v],
         NEW w \in Revisions, read' = [read EXCEPT ![t] = w],
         NEW x \in Revisions, UNCHANGED seen \/ seen' = [seen EXCEPT ![ProcOf[t]] = x], x <= remote',
         tries' \in [Tasks -> 0 .. RemoteAttempts],
         remote' \in Revisions, remote' >= remote,
         pc'[t] = q /\ rev'[t] = v /\ read'[t] = w => TaskInv(t)'
  PROVE  BaseInv'
<1>1. TaskTypes /\ ProcTypes
  BY TypeParts DEF BaseInv
<1>2. seen' \in [Procs -> Revisions] /\ \A p \in Procs : seen'[p] = seen[p] \/ (p = ProcOf[t] /\ seen'[p] = x)
  BY <1>1, Constants DEF ProcTypes
<1>3. /\ pc' \in [Tasks -> Pcs] /\ pc'[t] = q /\ PhaseInv' /\ LockInv'
      /\ \A s \in Tasks : s # t => pc'[s] = pc[s]
  <2>1. pc[t] # "off" /\ \A p \in Procs : p # ProcOf[t] => seen'[p] = seen[p]
    BY <1>2 DEF Inside
  <2> QED BY <2>1, MoveFacts
<1>4. /\ rev' \in [Tasks -> Revisions] /\ rev'[t] = v /\ \A s \in Tasks : s # t => rev'[s] = rev[s]
      /\ read' \in [Tasks -> Revisions] /\ read'[t] = w /\ \A s \in Tasks : s # t => read'[s] = read[s]
  BY <1>1 DEF TaskTypes
<1>5. TaskTypes' /\ ProcTypes'
  BY <1>1, <1>2, <1>3, <1>4 DEF TaskTypes, ProcTypes
<1>6. SeenInv'
  <2>1. ASSUME NEW p \in Procs PROVE seen[p] <= remote'
    <3>1. seen[p] \in Nat /\ remote \in Nat /\ remote' \in Nat /\ seen[p] <= remote
      BY Numbers, Constants DEF BaseInv, SeenInv
    <3> QED BY <3>1
  <2> QED BY <1>2, <2>1 DEF SeenInv
<1>7. \A s \in Tasks : s # t => Kept(s)
  BY <1>3, <1>4 DEF Kept
<1> QED BY <1>3, <1>4, <1>5, <1>6, <1>7, MoveBase
LEMMA Unmoved ==
  ASSUME BaseInv, NEW t \in Tasks
  PROVE  /\ rev = [rev EXCEPT ![t] = rev[t]] /\ rev[t] \in Revisions
         /\ read = [read EXCEPT ![t] = read[t]] /\ read[t] \in Revisions
         /\ tries \in [Tasks -> 0 .. RemoteAttempts]
         /\ remote \in Revisions /\ remote >= remote /\ Len(db) + 1 \in Revisions
         /\ 0 \in Revisions /\ 0 <= remote
BY Numbers, Constants DEF BaseInv, TypeOK

(* The revision is read: it is past what the task committed.               *)
LEMMA ReadBase ==
  ASSUME BaseInv, NEW t \in Tasks, pc[t] = "db", NEW q \in {"remote", "local"},
         pc' = [pc EXCEPT ![t] = q], rev' = [rev EXCEPT ![t] = Revision],
         UNCHANGED <<db, commits, local, remote, acked, lock, up, seen, mine, read, tries>>,
         q = "remote" => HasRemote(t),
         q = "local" => ~HasRemote(t) /\ local[Host(t)] <= Revision
  PROVE  BaseInv'
<1>1. ASSUME pc'[t] = q, rev'[t] = Revision, read'[t] = read[t] PROVE TaskInv(t)'
  <2>1. TaskInv(t) /\ Len(db) \in Nat
    BY Numbers DEF BaseInv
  <2>2. rev'[t] <= Len(db') + 1 /\ (pc'[t] \in {"write", "local"} => local'[Host(t)] <= rev'[t])
    BY <1>1, <2>1 DEF Revision
  <2>3. mine'[t] # 0 => \E k \in 1 .. Len(db') :
          db'[k] = mine'[t] /\ (pc'[t] \in {"remote", "write", "local"} => k + 1 <= rev'[t])
    BY <1>1, <2>1 DEF Revision, TaskInv
  <2> QED BY <1>1, <2>1, <2>2, <2>3 DEF TaskInv, Quiet
<1>2. q \in Inside /\ pc[t] \in Inside
  BY DEF Inside
<1>3. Revision \in Revisions
  BY Numbers DEF Revision
<1>4. read' = [read EXCEPT ![t] = read[t]] /\ read[t] \in Revisions
  BY Unmoved
<1>5. /\ tries' \in [Tasks -> 0 .. RemoteAttempts] /\ remote' \in Revisions /\ remote' >= remote
      /\ remote \in Revisions /\ remote <= remote'
  BY Unmoved
<1> QED BY <1>1, <1>2, <1>3, <1>4, <1>5, OnBase

LEMMA DbBase ==
  ASSUME BaseInv, NEW t \in Tasks, verify_db(t)
  PROVE  BaseInv'
<1>1. pc[t] = "db" /\ pc[t] \in Inside /\ UNCHANGED <<db, commits, local, remote>>
  BY DEF verify_db, Inside
<1>2. CASE Succeed(t) /\ UNCHANGED seen
  BY <1>1, <1>2, SucceedBase
<1>3. CASE Fail(t)
  BY <1>1, <1>3, Unmoved, FailBase
<1>4. CASE /\ HasRemote(t)
           /\ rev' = [rev EXCEPT ![t] = Revision] /\ pc' = [pc EXCEPT ![t] = "remote"]
           /\ UNCHANGED <<acked, lock, up, seen, mine, read, tries>>
  BY <1>1, <1>4, ReadBase
<1>5. CASE /\ ~HasRemote(t) /\ ~Refused(local[Host(t)], Revision)
           /\ rev' = [rev EXCEPT ![t] = Revision] /\ pc' = [pc EXCEPT ![t] = "local"]
           /\ UNCHANGED <<acked, lock, up, seen, mine, read, tries>>
  <2>1. local[Host(t)] <= Revision
    <3>1. local[Host(t)] \in Nat /\ Revision \in Nat /\ ~(local[Host(t)] > Revision)
      BY <1>5, Numbers, Constants DEF Revision, Refused
    <3> QED BY <3>1
  <2> QED BY <1>1, <1>5, <2>1, ReadBase
<1> QED BY <1>2, <1>3, <1>4, <1>5 DEF verify_db

(* Neither witness is above the revision, or the check fails.              *)
LEMMA RemoteFacts ==
  ASSUME BaseInv, NEW t \in Tasks, ~Refused(Larger(local[Host(t)], remote), rev[t])
  PROVE  local[Host(t)] <= rev[t] /\ remote <= rev[t]
<1>1. local[Host(t)] \in Nat /\ remote \in Nat /\ rev[t] \in Nat
  BY Numbers, Constants
<1> QED BY <1>1 DEF Refused, Larger

LEMMA RemoteBase ==
  ASSUME BaseInv, NEW t \in Tasks, verify_remote(t)
  PROVE  BaseInv'
<1>1. pc[t] = "remote" /\ pc[t] \in Inside /\ UNCHANGED <<db, commits, local, remote>>
  BY DEF verify_remote, Inside
<1>2. CASE Fail(t)
  BY <1>1, <1>2, Unmoved, FailBase
<1>3. CASE ~Fail(t)
  <2>1. /\ ~Refused(Larger(local[Host(t)], remote), rev[t])
        /\ read' = [read EXCEPT ![t] = remote]
        /\ UNCHANGED <<acked, lock, up, mine, rev, tries>>
    BY <1>3 DEF verify_remote
  <2>2. \/ remote = rev[t] /\ seen' = [seen EXCEPT ![ProcOf[t]] = remote] /\ pc' = [pc EXCEPT ![t] = "local"]
        \/ UNCHANGED seen /\ pc' = [pc EXCEPT ![t] = "write"]
    BY <1>3 DEF verify_remote
  <2>3. TaskInv(t) /\ local[Host(t)] <= rev[t] /\ remote <= rev[t]
    BY <2>1, RemoteFacts DEF BaseInv
  <2>4. ASSUME NEW q \in {"local", "write"}, pc'[t] = q, rev'[t] = rev[t], read'[t] = remote,
               q = "local" => remote = rev[t]
        PROVE  TaskInv(t)'
    <3>1. rev'[t] <= remote' \/ pc'[t] # "local"
      BY <1>1, <2>1, <2>3, <2>4, Numbers
    <3>2. mine'[t] # 0 => \E k \in 1 .. Len(db') :
            db'[k] = mine'[t] /\ (pc'[t] \in {"remote", "write", "local"} => k + 1 <= rev'[t])
      BY <1>1, <2>1, <2>3, <2>4 DEF TaskInv
    <3> QED BY <1>1, <2>1, <2>3, <2>4, <3>1, <3>2 DEF TaskInv, Quiet
  <2>5. rev' = [rev EXCEPT ![t] = rev[t]] /\ remote' \in Revisions /\ remote <= remote' /\ remote' >= remote
        /\ remote \in Revisions
    BY <1>1, <2>1, Unmoved
  <2>6. tries' \in [Tasks -> 0 .. RemoteAttempts] /\ rev[t] \in Revisions
    BY <2>1, Unmoved
  <2>7. CASE /\ remote = rev[t] /\ seen' = [seen EXCEPT ![ProcOf[t]] = remote]
             /\ pc' = [pc EXCEPT ![t] = "local"]
    <3>1. "local" \in Inside /\ "local" \in {"local", "write"}
      BY DEF Inside
    <3> QED BY <1>1, <2>1, <2>4, <2>5, <2>6, <2>7, <3>1, OnBase
  <2>8. CASE UNCHANGED seen /\ pc' = [pc EXCEPT ![t] = "write"]
    <3>1. "write" \in Inside /\ "write" \in {"local", "write"} /\ "write" # "local"
      BY DEF Inside
    <3> QED BY <1>1, <2>1, <2>4, <2>5, <2>6, <2>8, <3>1, OnBase
  <2> QED BY <2>2, <2>7, <2>8
<1> QED BY <1>2, <1>3
(* The put that names what was read does not lower the object.             *)
LEMMA PutUp ==
  ASSUME BaseInv, NEW t \in Tasks, pc[t] = "write", remote = read[t]
  PROVE  rev[t] \in Revisions /\ rev[t] >= remote
<1>1. read[t] <= rev[t]
  BY DEF BaseInv, TaskInv
<1> QED BY <1>1, Unmoved, Numbers

LEMMA WriteBase ==
  ASSUME BaseInv, NEW t \in Tasks, verify_write(t)
  PROVE  BaseInv'
<1>1. pc[t] = "write" /\ pc[t] \in Inside /\ UNCHANGED <<db, commits, local>> /\ TaskInv(t)
  BY DEF verify_write, Inside, BaseInv
<1>2. CASE Fail(t) /\ UNCHANGED remote
  BY <1>1, <1>2, Unmoved, FailBase
<1>3. CASE /\ remote = read[t] /\ remote' = rev[t]
           /\ seen' = [seen EXCEPT ![ProcOf[t]] = rev[t]] /\ pc' = [pc EXCEPT ![t] = "local"]
           /\ UNCHANGED <<acked, lock, up, mine, rev, read, tries>>
  <2>1. rev[t] \in Revisions /\ rev[t] >= remote /\ rev[t] <= remote'
    BY <1>1, <1>3, PutUp, Numbers
  <2>2. rev' = [rev EXCEPT ![t] = rev[t]] /\ read' = [read EXCEPT ![t] = read[t]] /\ read[t] \in Revisions
        /\ tries' \in [Tasks -> 0 .. RemoteAttempts] /\ remote' \in Revisions /\ remote' >= remote
    BY <1>3, <2>1, Unmoved
  <2>3. ASSUME pc'[t] = "local", rev'[t] = rev[t], read'[t] = read[t] PROVE TaskInv(t)'
    <3>1. mine'[t] # 0 => \E k \in 1 .. Len(db') :
            db'[k] = mine'[t] /\ (pc'[t] \in {"remote", "write", "local"} => k + 1 <= rev'[t])
      BY <1>1, <1>3, <2>3 DEF TaskInv
    <3> QED BY <1>1, <1>3, <2>1, <2>3, <3>1 DEF TaskInv, Quiet
  <2>4. "local" \in Inside
    BY DEF Inside
  <2> QED BY <1>1, <1>3, <2>1, <2>2, <2>3, <2>4, OnBase
<1>4. CASE /\ tries[t] > 1 /\ seen' = [seen EXCEPT ![ProcOf[t]] = 0]
           /\ tries' = [tries EXCEPT ![t] = @ - 1] /\ pc' = [pc EXCEPT ![t] = "db"]
           /\ UNCHANGED <<acked, remote, lock, up, mine, rev, read>>
  <2>1. rev' = [rev EXCEPT ![t] = rev[t]] /\ read' = [read EXCEPT ![t] = read[t]]
        /\ rev[t] \in Revisions /\ read[t] \in Revisions
        /\ remote' \in Revisions /\ remote' >= remote /\ 0 \in Revisions /\ 0 <= remote'
    BY <1>4, Unmoved
  <2>2. tries' \in [Tasks -> 0 .. RemoteAttempts]
    <3>1. tries \in [Tasks -> 0 .. RemoteAttempts] /\ tries[t] - 1 \in 0 .. RemoteAttempts
      BY <1>4, Unmoved, Constants
    <3> QED BY <1>4, <3>1
  <2>3. pc'[t] = "db" => TaskInv(t)'
    BY <1>1, <1>4, EnterTask
  <2>4. "db" \in Inside
    BY DEF Inside
  <2> QED BY <1>1, <1>4, <2>1, <2>2, <2>3, <2>4, OnBase
<1> QED BY <1>2, <1>3, <1>4 DEF verify_write

LEMMA LostBase ==
  ASSUME BaseInv, NEW t \in Tasks, verify_write_lost(t)
  PROVE  BaseInv'
<1>1. /\ pc[t] = "write" /\ pc[t] \in Inside /\ Fail(t) /\ UNCHANGED <<db, commits, local>>
      /\ remote = read[t] /\ remote' = rev[t]
  BY DEF verify_write_lost, Inside
<1>2. remote' \in Revisions /\ remote' >= remote
  BY <1>1, PutUp
<1> QED BY <1>1, <1>2, FailBase

LEMMA LocalBase ==
  ASSUME BaseInv, NEW t \in Tasks, verify_local(t)
  PROVE  BaseInv'
<1>1. /\ pc[t] \in Inside /\ Succeed(t) /\ UNCHANGED <<db, commits, remote, seen>>
      /\ local' = [local EXCEPT ![Host(t)] = rev[t]]
  BY DEF verify_local, Inside
<1> QED BY <1>1, SucceedBase

LEMMA ErrorBase ==
  ASSUME BaseInv, NEW t \in Tasks, verify_error(t)
  PROVE  BaseInv'
<1>1. /\ pc[t] \in Inside \cup {"lock"} /\ Fail(t) /\ UNCHANGED <<db, commits, local, remote>>
  BY DEF verify_error, Inside
<1> QED BY <1>1, Unmoved, FailBase

LEMMA RollbackBase ==
  ASSUME BaseInv, NEW h \in Hosts, NEW n \in 0 .. MaxCommits, host_rollback(h, n)
  PROVE  BaseInv'
<1>1. /\ \A p \in Procs : HostOf[p] = h => up[p] = "down"
      /\ local' = [local EXCEPT ![h] = n]
      /\ UNCHANGED <<db, commits, acked, remote, lock, up, seen, pc, mine, rev, read, tries>>
  BY DEF host_rollback
<1>2. TaskTypes' /\ ProcTypes' /\ PhaseInv' /\ LockInv'
  BY <1>1, TypeParts DEF BaseInv, TaskTypes, ProcTypes, PhaseInv, LockInv
<1>3. local \in [Hosts -> Revisions] /\ n \in Revisions
  BY Constants DEF BaseInv, TypeOK, Revisions
<1>4. local' \in [Hosts -> Revisions] /\ remote' \in Revisions /\ remote' >= remote
  BY <1>1, <1>3, Numbers DEF BaseInv, TypeOK
<1>5. ASSUME NEW s \in Tasks, pc[s] \in {"write", "local"} PROVE local'[Host(s)] = local[Host(s)]
  <2>1. Host(s) # h
    BY <1>1, <1>5, Constants DEF BaseInv, PhaseInv, Host
  <2> QED BY <1>1, <1>3, <2>1, Constants
<1>6. \A s \in Tasks : Kept(s)
  BY <1>1 DEF Kept
<1> QED BY <1>1, <1>2, <1>4, <1>5, <1>6, OutcomeBase
LEMMA CommitBase ==
  ASSUME BaseInv, NEW t \in Tasks, commit(t)
  PROVE  BaseInv'
<1> DEFINE n == commits + 1
<1>1. /\ t \notin Checkers /\ pc[t] \in {"idle", "served"} /\ commits < MaxCommits
      /\ commits' = n /\ db' = Append(db, n) /\ mine' = [mine EXCEPT ![t] = n]
      /\ pc' = [pc EXCEPT ![t] = "lock"] /\ "lock" \notin Inside
      /\ UNCHANGED <<acked, local, remote, lock, up, seen, rev, read, tries>>
  BY DEF commit, Ready, Inside
<1>2. db \in Seq(1 .. MaxCommits) /\ n \in 1 .. MaxCommits /\ Len(db) \in Nat /\ commits \in Nat
  BY <1>1, Numbers, Constants DEF BaseInv, TypeOK
<1>3. /\ db' \in Seq(1 .. MaxCommits) /\ Len(db') = Len(db) + 1 /\ db'[Len(db) + 1] = n
      /\ \A k \in 1 .. Len(db) : db'[k] = db[k]
  BY <1>1, <1>2
<1>4. Grows
  BY <1>2, <1>3 DEF Grows
<1>5. DbInv'
  <2>1. \A k \in 1 .. Len(db') : k \in 1 .. Len(db) \/ k = Len(db) + 1
    BY <1>2, <1>3
  <2>2. \A k \in 1 .. Len(db) : db[k] \in Nat /\ db[k] <= commits
    BY Numbers DEF BaseInv, DbInv
  <2>3. \A k \in 1 .. Len(db') : db'[k] <= n
    BY <1>2, <1>3, <2>1, <2>2
  <2>4. \A j, k \in 1 .. Len(db') : db'[j] = db'[k] => j = k
    BY <1>2, <1>3, <2>1, <2>2 DEF BaseInv, DbInv
  <2>5. \A a \in acked : a <= n
    BY <1>2, Constants DEF BaseInv, DbInv, TypeOK
  <2>6. Len(db') <= n
    BY <1>2, <1>3 DEF BaseInv, DbInv
  <2> QED BY <1>1, <2>3, <2>4, <2>5, <2>6 DEF DbInv
<1>6. /\ pc' \in [Tasks -> Pcs] /\ pc'[t] = "lock" /\ PhaseInv' /\ LockInv'
      /\ \A s \in Tasks : s # t => pc'[s] = pc[s]
  BY <1>1, MoveFacts
<1>7. TaskTypes /\ ProcTypes /\ DataTypes
  BY TypeParts DEF BaseInv
<1>8. mine' \in [Tasks -> 0 .. MaxCommits] /\ mine'[t] = n /\ \A s \in Tasks : s # t => mine'[s] = mine[s]
  <2>1. n \in 0 .. MaxCommits
    BY <1>2, Constants
  <2> HIDE DEF n
  <2> QED BY <1>1, <1>7, <2>1 DEF TaskTypes
<1>9. TypeOK'
  <2>1. commits' \in 0 .. MaxCommits
    BY <1>1, <1>2, Constants
  <2> HIDE DEF n
  <2> QED BY <1>1, <1>3, <1>6, <1>7, <1>8, <2>1 DEF TypeOK, TaskTypes, ProcTypes, DataTypes, Pcs
<1>10. \A s \in Tasks : TaskInv(s)'
  <2>1. ASSUME NEW s \in Tasks, s # t PROVE TaskInv(s)'
    <3>1. Kept(s)
      BY <1>1, <1>6, <1>8, <2>1 DEF Kept
    <3>2. remote' \in Nat /\ remote' >= remote
      BY <1>1, Numbers
    <3> QED BY <1>1, <1>4, <3>1, <3>2, KeptTask
  <2>2. TaskInv(t)'
    <3>1. rev'[t] <= Len(db') + 1
      BY <1>1, <1>2, <1>3, Numbers DEF BaseInv, TaskInv
    <3>2. \E k \in 1 .. Len(db') : db'[k] = mine'[t]
      BY <1>2, <1>3, <1>8
    <3> QED BY <1>1, <1>6, <3>1, <3>2 DEF TaskInv, Quiet
  <2> QED BY <2>1, <2>2
<1>11. SeenInv'
  BY <1>1 DEF BaseInv, SeenInv
<1> QED BY <1>5, <1>6, <1>9, <1>10, <1>11 DEF BaseInv

LEMMA Prefix ==
  ASSUME NEW S, NEW s \in Seq(S), NEW n \in Nat, n < Len(s)
  PROVE  /\ SubSeq(s, 1, n) \in Seq(S) /\ Len(SubSeq(s, 1, n)) = n
         /\ \A k \in 1 .. n : SubSeq(s, 1, n)[k] = s[k]
<1>1. SubSeq(s, 1, n) \in Seq(S)
  OBVIOUS
<1>2. Len(SubSeq(s, 1, n)) = n
  OBVIOUS
<1>3. ASSUME NEW k \in 1 .. n PROVE SubSeq(s, 1, n)[k] = s[k]
  OBVIOUS
<1> QED BY <1>1, <1>2, <1>3

LEMMA RestoreFacts ==
  ASSUME BaseInv, NEW n \in 0 .. MaxCommits, restore(n)
  PROVE  /\ db' \in Seq(1 .. MaxCommits) /\ Len(db') = n /\ n \in Nat /\ n < Len(db)
         /\ \A k \in 1 .. n : db'[k] = db[k]
         /\ UNCHANGED <<commits, acked, local, remote, lock, up, seen, pc, mine, rev, read, tries>>
         /\ \A p \in Procs : up[p] = "down" /\ seen[p] = 0
         /\ \A t \in Tasks : pc[t] = "off" /\ mine[t] = 0 /\ rev[t] = 0
<1>1. db' = SubSeq(db, 1, n) /\ n < Len(db) /\ db \in Seq(1 .. MaxCommits) /\ n \in Nat /\ Len(db) \in Nat
  BY Constants DEF restore, BaseInv, TypeOK
<1>2. /\ db' \in Seq(1 .. MaxCommits) /\ Len(db') = n
      /\ \A k \in 1 .. n : db'[k] = db[k]
  BY <1>1, Prefix
<1>3. UNCHANGED <<commits, acked, local, remote, lock, up, seen, pc, mine, rev, read, tries>>
  BY DEF restore
<1>4. \A p \in Procs : up[p] = "down" /\ seen[p] = 0
  BY DEF restore, BaseInv, PhaseInv
<1>5. \A t \in Tasks : pc[t] = "off"
  BY <1>4, Constants DEF BaseInv, PhaseInv
<1>6. \A t \in Tasks : mine[t] = 0 /\ rev[t] = 0
  BY <1>5 DEF BaseInv, TaskInv, Quiet
<1> QED BY <1>1, <1>2, <1>3, <1>4, <1>5, <1>6

LEMMA RestoreBase ==
  ASSUME BaseInv, NEW n \in 0 .. MaxCommits, restore(n)
  PROVE  BaseInv'
<1>1. /\ db' \in Seq(1 .. MaxCommits) /\ Len(db') = n /\ n \in Nat /\ n < Len(db)
      /\ \A k \in 1 .. n : db'[k] = db[k]
      /\ UNCHANGED <<commits, acked, local, remote, lock, up, seen, pc, mine, rev, read, tries>>
      /\ \A t \in Tasks : pc[t] = "off" /\ mine[t] = 0 /\ rev[t] = 0
  BY RestoreFacts
<1>2. TypeOK'
  BY <1>1 DEF BaseInv, TypeOK
<1>3. DbInv'
  <2>1. Len(db) \in Nat /\ commits \in Nat /\ \A k \in 1 .. n : k \in 1 .. Len(db)
    BY <1>1, Numbers
  <2> QED BY <1>1, <2>1 DEF BaseInv, DbInv
<1>4. PhaseInv' /\ LockInv' /\ SeenInv'
  BY <1>1 DEF BaseInv, PhaseInv, LockInv, SeenInv
<1>5. \A t \in Tasks : TaskInv(t)'
  BY <1>1 DEF TaskInv
<1> QED BY <1>2, <1>3, <1>4, <1>5 DEF BaseInv
-----------------------------------------------------------------------------
(***************************************************************************)
(* The deciding witness.                                                   *)
(***************************************************************************)

(* Where somebody is past a startup check, nothing acknowledged is lost.   *)
LEMMA NotStuck ==
  ASSUME IInv, Covered,
         \/ \E t \in Tasks : pc[t] \notin {"off", "lock", "db", "remote"}
         \/ \E p \in Procs : seen[p] # 0
  PROVE  acked \subseteq Held /\ \A h \in Hosts : ~(Mark(h) > Len(db) + 1)
BY DEF IInv, MarkInv, StuckInv, HeldInv

LEMMA MarkNumbers ==
  ASSUME BaseInv, NEW h \in Hosts
  PROVE  Mark(h) \in Nat
BY Numbers, Constants DEF Mark

(* Steps that leave the witnesses: a stuck relay stays stuck.              *)
LEMMA SameMarks ==
  ASSUME IInv, UNCHANGED <<db, acked, remote>>, UNCHANGED local \/ UseRemote,
         ASSUME Covered, NEW h \in Hosts, Mark(h) > Len(db) + 1
         PROVE  /\ \A p \in Procs : up'[p] # "up" /\ seen'[p] = 0
                /\ \A t \in Tasks : pc'[t] \in {"off", "lock", "db", "remote"}
  PROVE  MarkInv'
<1> SUFFICES ASSUME Covered PROVE WitnessedInv' /\ StuckInv' /\ HeldInv'
  BY DEF MarkInv, Covered
<1>1. \A h \in Hosts : Mark(h)' = Mark(h)
  BY DEF Mark
<1>2. WitnessedInv'
  BY <1>1 DEF IInv, MarkInv, WitnessedInv
<1>3. StuckInv'
  BY <1>1 DEF StuckInv
<1>4. HeldInv'
  BY <1>1 DEF IInv, MarkInv, HeldInv, Held
<1> QED BY <1>2, <1>3, <1>4

(* Steps of a task past its startup check: witnesses rise to the database, *)
(* and what is acknowledged is below them.                                 *)
LEMMA RisenMarks ==
  ASSUME IInv, Covered, UNCHANGED db, acked \subseteq Held,
         \A h \in Hosts : /\ Mark(h)' \in Nat /\ Mark(h)' >= Mark(h)
                          /\ Mark(h)' <= Len(db) + 1,
         \A a \in acked' \ acked : \E k \in 1 .. Len(db) : db[k] = a /\ \E h \in Hosts : k + 1 <= Mark(h)'
  PROVE  MarkInv'
<1>1. \A h \in Hosts : Mark(h) \in Nat
  BY MarkNumbers DEF IInv
<1>2. Len(db) \in Nat
  BY Numbers DEF IInv
<1>3. WitnessedInv'
  <2> SUFFICES ASSUME NEW k \in 1 .. Len(db), db[k] \in acked' PROVE \E h \in Hosts : k + 1 <= Mark(h)'
    BY DEF WitnessedInv
  <2>1. CASE db[k] \in acked
    <3>1. PICK h \in Hosts : k + 1 <= Mark(h)
      BY <2>1 DEF IInv, MarkInv, WitnessedInv
    <3>2. k + 1 <= Mark(h)'
      BY <1>1, <1>2, <3>1
    <3> QED BY <3>2
  <2>2. CASE db[k] \notin acked
    <3>1. PICK j \in 1 .. Len(db) : db[j] = db[k] /\ \E h \in Hosts : j + 1 <= Mark(h)'
      BY <2>2
    <3>2. j = k
      BY <3>1 DEF IInv, BaseInv, DbInv
    <3> QED BY <3>1, <3>2
  <2> QED BY <2>1, <2>2
<1>4. StuckInv'
  BY <1>2 DEF StuckInv
<1>5. HeldInv'
  <2>1. acked' \subseteq Held
    BY DEF Held
  <2> QED BY <2>1 DEF HeldInv, Held
<1> QED BY <1>3, <1>4, <1>5 DEF MarkInv
LEMMA StuckFacts ==
  ASSUME IInv, Covered, NEW h \in Hosts, Mark(h) > Len(db) + 1
  PROVE  /\ \A p \in Procs : up[p] # "up" /\ seen[p] = 0
         /\ \A t \in Tasks : pc[t] \in {"off", "lock", "db", "remote"}
         /\ \A t \in Tasks : pc[t] # "off" => up[ProcOf[t]] = "starting" /\ t \notin Checkers
<1>1. /\ \A p \in Procs : up[p] # "up" /\ seen[p] = 0
      /\ \A t \in Tasks : pc[t] \in {"off", "lock", "db", "remote"}
  BY DEF IInv, MarkInv, StuckInv
<1>2. ASSUME NEW t \in Tasks, pc[t] # "off" PROVE up[ProcOf[t]] = "starting" /\ t \notin Checkers
  <2>1. ProcOf[t] \in Procs /\ up[ProcOf[t]] \in {"down", "starting", "up"}
    BY Constants DEF IInv, BaseInv, TypeOK
  <2>2. up[ProcOf[t]] = "starting"
    BY <1>1, <1>2, <2>1 DEF IInv, BaseInv, PhaseInv
  <2>3. t = BootOf[ProcOf[t]]
    BY <1>2, <2>2 DEF IInv, BaseInv, PhaseInv
  <2> QED BY <2>1, <2>2, <2>3, Constants
<1> QED BY <1>1, <1>2

LEMMA StartMarks ==
  ASSUME IInv, NEW p \in Procs, start(p)
  PROVE  MarkInv'
<1>1. /\ UNCHANGED <<db, acked, local, remote, seen>> /\ up' = [up EXCEPT ![p] = "starting"]
      /\ pc' = [pc EXCEPT ![BootOf[p]] = "lock"]
  BY DEF start
<1>2. /\ \A q \in Procs : up'[q] \in {up[q], "starting"}
      /\ \A t \in Tasks : pc'[t] \in {pc[t], "lock"}
  BY <1>1 DEF IInv, BaseInv, TypeOK
<1>3. ASSUME Covered, NEW h \in Hosts, Mark(h) > Len(db) + 1
      PROVE  /\ \A q \in Procs : up'[q] # "up" /\ seen'[q] = 0
             /\ \A t \in Tasks : pc'[t] \in {"off", "lock", "db", "remote"}
  BY <1>1, <1>2, <1>3, StuckFacts
<1> QED BY <1>1, <1>3, SameMarks

LEMMA CrashMarks ==
  ASSUME IInv, NEW p \in Procs, crash(p)
  PROVE  MarkInv'
<1>1. Exit(p) /\ UNCHANGED <<db, acked, local, remote>>
  BY DEF crash
<1>2. /\ \A q \in Procs : up'[q] \in {up[q], "down"} /\ seen'[q] \in {seen[q], 0}
      /\ \A t \in Tasks : pc'[t] \in {pc[t], "off"}
  BY <1>1, ExitFacts DEF IInv, Kept
<1>3. ASSUME Covered, NEW h \in Hosts, Mark(h) > Len(db) + 1
      PROVE  /\ \A q \in Procs : up'[q] # "up" /\ seen'[q] = 0
             /\ \A t \in Tasks : pc'[t] \in {"off", "lock", "db", "remote"}
  BY <1>2, <1>3, StuckFacts
<1> QED BY <1>1, <1>3, SameMarks

LEMMA FailMarks ==
  ASSUME IInv, NEW t \in Tasks, Fail(t), pc[t] \in Inside \cup {"lock"}, UNCHANGED <<db, local, remote>>
  PROVE  MarkInv'
<1>1. /\ UNCHANGED acked
      /\ \A p \in Procs : up'[p] \in {up[p], "down"} /\ seen'[p] \in {seen[p], 0}
      /\ \A s \in Tasks : pc'[s] # pc[s] => pc'[s] = "off" \/ up[ProcOf[t]] = "up"
  BY FailFacts DEF IInv
<1>2. ASSUME Covered, NEW h \in Hosts, Mark(h) > Len(db) + 1
      PROVE  /\ \A q \in Procs : up'[q] # "up" /\ seen'[q] = 0
             /\ \A s \in Tasks : pc'[s] \in {"off", "lock", "db", "remote"}
  <2>1. up[ProcOf[t]] # "up"
    BY <1>2, StuckFacts, Constants
  <2> QED BY <1>1, <1>2, <2>1, StuckFacts
<1> QED BY <1>1, <1>2, SameMarks

(* A put, or the file: nothing above the database is written.              *)
LEMMA PutMarks ==
  ASSUME IInv, NEW t \in Tasks, pc[t] = "write", remote = read[t], remote' = rev[t],
         UNCHANGED <<db, local, acked>>
  PROVE  MarkInv'
<1> SUFFICES ASSUME Covered PROVE MarkInv'
  BY DEF MarkInv, Covered
<1>1. acked \subseteq Held
  BY NotStuck
<1>2. /\ UseRemote /\ rev[t] <= Len(db) + 1 /\ rev[t] \in Nat /\ rev[t] >= remote
  <2>1. TaskInv(t) /\ BaseInv
    BY DEF IInv, BaseInv
  <2> QED BY <2>1, PutUp, Numbers DEF TaskInv, HasRemote
<1>3. \A h \in Hosts : Mark(h)' \in Nat /\ Mark(h)' >= Mark(h) /\ Mark(h)' <= Len(db) + 1
  BY <1>2 DEF Mark
<1> QED BY <1>1, <1>3, RisenMarks

LEMMA RestMarks ==
  ASSUME IInv, NEW t \in Tasks, UNCHANGED <<db, acked, local, remote>>,
         pc[t] \notin {"off", "lock", "db", "remote"}
  PROVE  MarkInv'
<1>1. ASSUME Covered, NEW h \in Hosts, Mark(h) > Len(db) + 1
      PROVE  /\ \A p \in Procs : up'[p] # "up" /\ seen'[p] = 0
             /\ \A s \in Tasks : pc'[s] \in {"off", "lock", "db", "remote"}
  BY <1>1, NotStuck
<1> QED BY <1>1, SameMarks

(* A check passes: what is acknowledged is below the witness.              *)
LEMMA SucceedMarks ==
  ASSUME IInv, NEW t \in Tasks, Succeed(t), UNCHANGED <<db, remote>>,
         \/ /\ pc[t] = "db" /\ HasRemote(t) /\ seen[ProcOf[t]] = Revision /\ UNCHANGED local
         \/ /\ pc[t] = "local" /\ local' = [local EXCEPT ![Host(t)] = rev[t]]
  PROVE  MarkInv'
<1> SUFFICES ASSUME Covered PROVE MarkInv'
  BY DEF MarkInv, Covered
<1>1. TaskInv(t) /\ BaseInv /\ Len(db) \in Nat /\ ProcOf[t] \in Procs /\ Host(t) \in Hosts
      /\ rev[t] \in Nat /\ local[Host(t)] \in Nat /\ remote \in Nat
  BY Numbers, Constants DEF IInv, BaseInv
<1>2. acked \subseteq Held /\ \A h \in Hosts : Mark(h) <= Len(db) + 1 /\ Mark(h) \in Nat
  <2>1. pc[t] \notin {"off", "lock", "db", "remote"} \/ seen[ProcOf[t]] # 0
    BY <1>1 DEF Revision
  <2>2. acked \subseteq Held /\ \A h \in Hosts : ~(Mark(h) > Len(db) + 1)
    BY <1>1, <2>1, NotStuck
  <2> QED BY <1>1, <2>2, MarkNumbers
<1>3. acked' \ acked \subseteq {mine[t]} /\ (acked' # acked => mine[t] # 0)
  BY DEF Succeed
<1>4. CASE pc[t] = "db" /\ HasRemote(t) /\ seen[ProcOf[t]] = Revision /\ UNCHANGED local
  <2>1. UseRemote /\ Len(db) + 1 <= remote
    BY <1>1, <1>4 DEF HasRemote, BaseInv, SeenInv, Revision
  <2>2. \A h \in Hosts : Mark(h)' = Mark(h) /\ Mark(h) = remote
    BY <2>1 DEF Mark
  <2>3. mine[t] # 0 => \E k \in 1 .. Len(db) : db[k] = mine[t] /\ k + 1 <= remote
    BY <1>1, <2>1 DEF TaskInv
  <2>4. \A h \in Hosts : Mark(h)' \in Nat /\ Mark(h)' >= Mark(h) /\ Mark(h)' <= Len(db) + 1
    BY <1>2, <2>2
  <2>5. \A a \in acked' \ acked : \E k \in 1 .. Len(db) : db[k] = a /\ \E h \in Hosts : k + 1 <= Mark(h)'
    BY <1>1, <1>3, <2>2, <2>3
  <2> QED BY <1>2, <2>4, <2>5, RisenMarks
<1>5. CASE pc[t] = "local" /\ local' = [local EXCEPT ![Host(t)] = rev[t]]
  <2>1. /\ local[Host(t)] <= rev[t] /\ rev[t] <= Len(db) + 1
        /\ HasRemote(t) => rev[t] <= remote
    BY <1>1, <1>5 DEF TaskInv
  <2>2. mine[t] # 0 => t \notin Checkers /\ \E k \in 1 .. Len(db) : db[k] = mine[t] /\ k + 1 <= rev[t]
    BY <1>1, <1>5 DEF TaskInv
  <2>3. local'[Host(t)] = rev[t]
    BY <1>1, <1>5 DEF BaseInv, TypeOK
  <2>4. \A h \in Hosts : Mark(h)' \in Nat /\ Mark(h)' >= Mark(h) /\ Mark(h)' <= Len(db) + 1
    <3>1. CASE UseRemote
      BY <1>1, <1>2, <3>1 DEF Mark
    <3>2. CASE ~UseRemote
      <4>1. \A h \in Hosts : h = Host(t)
        BY <1>1, <3>2 DEF Covered
      <4> QED BY <1>1, <2>1, <2>3, <3>2, <4>1 DEF Mark
    <3> QED BY <3>1, <3>2
  <2>5. mine[t] # 0 => rev[t] <= Mark(Host(t))'
    BY <1>1, <2>1, <2>2, <2>3 DEF Mark, HasRemote
  <2>6. mine[t] # 0 => \E k \in 1 .. Len(db) : db[k] = mine[t] /\ k + 1 <= Mark(Host(t))'
    <3> SUFFICES ASSUME mine[t] # 0
                 PROVE  \E k \in 1 .. Len(db) : db[k] = mine[t] /\ k + 1 <= Mark(Host(t))'
      OBVIOUS
    <3>1. PICK k \in 1 .. Len(db) : db[k] = mine[t] /\ k + 1 <= rev[t]
      BY <2>2
    <3>2. Mark(Host(t))' \in Nat
      BY <1>1, <2>4
    <3>3. k + 1 <= Mark(Host(t))'
      BY <1>1, <2>5, <3>1, <3>2
    <3> QED BY <3>1, <3>3
  <2>7. \A a \in acked' \ acked : \E k \in 1 .. Len(db) : db[k] = a /\ \E h \in Hosts : k + 1 <= Mark(h)'
    BY <1>1, <1>3, <2>6
  <2> QED BY <1>2, <2>4, <2>7, RisenMarks
<1> QED BY <1>4, <1>5
LEMMA LockMarks ==
  ASSUME IInv, NEW t \in Tasks, verify_lock(t)
  PROVE  MarkInv'
<1>1. UNCHANGED <<db, acked, local, remote, up, seen>> /\ pc' = [pc EXCEPT ![t] = "db"]
  BY DEF verify_lock
<1>2. \A s \in Tasks : pc'[s] \in {pc[s], "db"}
  BY <1>1 DEF IInv, BaseInv, TypeOK
<1>3. ASSUME Covered, NEW h \in Hosts, Mark(h) > Len(db) + 1
      PROVE  /\ \A p \in Procs : up'[p] # "up" /\ seen'[p] = 0
             /\ \A s \in Tasks : pc'[s] \in {"off", "lock", "db", "remote"}
  BY <1>1, <1>2, <1>3, StuckFacts
<1> QED BY <1>1, <1>3, SameMarks

LEMMA DbMarks ==
  ASSUME IInv, NEW t \in Tasks, verify_db(t)
  PROVE  MarkInv'
<1>1. pc[t] = "db" /\ pc[t] \in Inside /\ UNCHANGED <<db, commits, local, remote>>
  BY DEF verify_db, Inside
<1>2. CASE Fail(t)
  BY <1>1, <1>2, FailMarks
<1>3. CASE Succeed(t) /\ HasRemote(t) /\ seen[ProcOf[t]] = Revision
  BY <1>1, <1>3, SucceedMarks
<1>4. CASE \/ HasRemote(t) /\ pc' = [pc EXCEPT ![t] = "remote"] /\ UNCHANGED <<acked, up, seen>>
           \/ /\ ~HasRemote(t) /\ ~Refused(local[Host(t)], Revision) /\ pc' = [pc EXCEPT ![t] = "local"]
              /\ UNCHANGED <<acked, up, seen>>
  <2>1. ASSUME Covered, NEW h \in Hosts, Mark(h) > Len(db) + 1 PROVE HasRemote(t)
    <3> SUFFICES ASSUME ~HasRemote(t) PROVE FALSE
      OBVIOUS
    <3>1. t \notin Checkers
      BY <1>1, <2>1, StuckFacts
    <3>2. ~UseRemote /\ h = Host(t)
      BY <2>1, <3>1, Constants DEF HasRemote, Covered
    <3> QED BY <1>4, <2>1, <3>2 DEF Mark, Refused, Revision
  <2>2. ASSUME Covered, NEW h \in Hosts, Mark(h) > Len(db) + 1
        PROVE  /\ \A p \in Procs : up'[p] # "up" /\ seen'[p] = 0
               /\ \A s \in Tasks : pc'[s] \in {"off", "lock", "db", "remote"}
    <3>1. pc' = [pc EXCEPT ![t] = "remote"] /\ UNCHANGED <<up, seen>>
      BY <1>4, <2>1, <2>2
    <3>2. \A s \in Tasks : pc'[s] \in {pc[s], "remote"}
      BY <3>1 DEF IInv, BaseInv, TypeOK
    <3> QED BY <2>2, <3>1, <3>2, StuckFacts
  <2> QED BY <1>1, <1>4, <2>2, SameMarks
<1> QED BY <1>2, <1>3, <1>4 DEF verify_db

LEMMA RemoteMarks ==
  ASSUME IInv, NEW t \in Tasks, verify_remote(t)
  PROVE  MarkInv'
<1>1. pc[t] = "remote" /\ pc[t] \in Inside /\ UNCHANGED <<db, commits, local, remote>>
  BY DEF verify_remote, Inside
<1>2. CASE Fail(t)
  BY <1>1, <1>2, FailMarks
<1>3. CASE ~Fail(t)
  <2>1. ~Refused(Larger(local[Host(t)], remote), rev[t]) /\ UNCHANGED acked
    BY <1>3 DEF verify_remote
  <2>2. remote <= rev[t] /\ rev[t] <= Len(db) + 1 /\ UseRemote /\ remote \in Nat /\ rev[t] \in Nat /\ Len(db) \in Nat
    BY <1>1, <2>1, RemoteFacts, Numbers DEF IInv, BaseInv, TaskInv, HasRemote
  <2>3. \A h \in Hosts : ~(Mark(h) > Len(db) + 1)
    BY <2>2 DEF Mark
  <2>4. ASSUME Covered, NEW h \in Hosts, Mark(h) > Len(db) + 1
        PROVE  /\ \A p \in Procs : up'[p] # "up" /\ seen'[p] = 0
               /\ \A s \in Tasks : pc'[s] \in {"off", "lock", "db", "remote"}
    BY <2>3, <2>4
  <2> QED BY <1>1, <2>1, <2>4, SameMarks
<1> QED BY <1>2, <1>3

LEMMA WriteMarks ==
  ASSUME IInv, NEW t \in Tasks, verify_write(t) \/ verify_write_lost(t)
  PROVE  MarkInv'
<1>1. pc[t] = "write" /\ pc[t] \in Inside /\ UNCHANGED <<db, local>>
  BY DEF verify_write, verify_write_lost, Inside
<1>2. UNCHANGED acked
  BY DEF verify_write, verify_write_lost, Fail
<1>3. UNCHANGED remote \/ (remote = read[t] /\ remote' = rev[t])
  BY DEF verify_write, verify_write_lost
<1>4. pc[t] \notin {"off", "lock", "db", "remote"}
  BY <1>1
<1> QED BY <1>1, <1>2, <1>3, <1>4, PutMarks, RestMarks

LEMMA LocalMarks ==
  ASSUME IInv, NEW t \in Tasks, verify_local(t)
  PROVE  MarkInv'
<1>1. /\ pc[t] = "local" /\ Succeed(t) /\ UNCHANGED <<db, remote>>
      /\ local' = [local EXCEPT ![Host(t)] = rev[t]]
  BY DEF verify_local
<1> QED BY <1>1, SucceedMarks

LEMMA CommitMarks ==
  ASSUME IInv, NEW t \in Tasks, commit(t)
  PROVE  MarkInv'
<1> SUFFICES ASSUME Covered PROVE MarkInv'
  BY DEF MarkInv, Covered
<1>1. /\ pc[t] \notin {"off", "lock", "db", "remote"} /\ db' = Append(db, commits + 1)
      /\ UNCHANGED <<acked, local, remote>> /\ commits < MaxCommits
  BY DEF commit, Ready
<1>2. acked \subseteq Held /\ \A h \in Hosts : ~(Mark(h) > Len(db) + 1)
  BY <1>1, NotStuck
<1>3. db \in Seq(1 .. MaxCommits) /\ commits + 1 \in 1 .. MaxCommits /\ Len(db) \in Nat /\ commits \in Nat
  BY <1>1, Numbers, Constants DEF IInv, BaseInv, TypeOK
<1>4. /\ Len(db') = Len(db) + 1 /\ db'[Len(db) + 1] = commits + 1
      /\ \A k \in 1 .. Len(db) : db'[k] = db[k]
  BY <1>1, <1>3
<1>5. \A h \in Hosts : Mark(h)' = Mark(h) /\ Mark(h) \in Nat
  BY <1>1, MarkNumbers DEF Mark, IInv
<1>6. commits + 1 \notin acked
  BY <1>3 DEF IInv, BaseInv, DbInv
<1>7. WitnessedInv'
  <2> SUFFICES ASSUME NEW k \in 1 .. Len(db'), db'[k] \in acked PROVE \E h \in Hosts : k + 1 <= Mark(h)
    BY <1>1, <1>5 DEF WitnessedInv
  <2>1. k \in 1 .. Len(db)
    BY <1>3, <1>4, <1>6
  <2> QED BY <1>4, <2>1 DEF IInv, MarkInv, WitnessedInv
<1>8. StuckInv'
  BY <1>2, <1>3, <1>4, <1>5 DEF StuckInv
<1>9. acked' \subseteq Held'
  BY <1>1, <1>2, <1>3, <1>4 DEF Held
<1> QED BY <1>7, <1>8, <1>9 DEF MarkInv, HeldInv

LEMMA RestoreMarks ==
  ASSUME IInv, NEW n \in 0 .. MaxCommits, restore(n)
  PROVE  MarkInv'
<1> SUFFICES ASSUME Covered PROVE MarkInv'
  BY DEF MarkInv, Covered
<1>1. /\ Len(db') = n /\ n \in Nat /\ n < Len(db)
      /\ \A k \in 1 .. n : db'[k] = db[k]
      /\ UNCHANGED <<acked, local, remote, up, seen, pc>>
      /\ \A p \in Procs : up[p] = "down" /\ seen[p] = 0
      /\ \A t \in Tasks : pc[t] = "off"
  BY RestoreFacts DEF IInv
<1>2. Len(db) \in Nat /\ \A h \in Hosts : Mark(h)' = Mark(h) /\ Mark(h) \in Nat
  BY <1>1, MarkNumbers, Numbers DEF Mark, IInv
<1>3. WitnessedInv /\ HeldInv
  BY DEF IInv, MarkInv
<1>4. WitnessedInv'
  BY <1>1, <1>2, <1>3 DEF WitnessedInv
<1>5. StuckInv'
  BY <1>1 DEF StuckInv
<1>6. HeldInv'
  <2> SUFFICES ASSUME \A h \in Hosts : ~(Mark(h) > n + 1) PROVE acked \subseteq Held'
    BY <1>1, <1>2 DEF HeldInv
  <2>1. \A h \in Hosts : Mark(h) <= n + 1
    BY <1>1, <1>2
  <2>2. acked \subseteq Held
    BY <1>1, <1>2, <1>3, <2>1 DEF HeldInv
  <2>3. ASSUME NEW a \in acked PROVE \E k \in 1 .. n : db[k] = a
    <3>1. PICK k \in 1 .. Len(db) : db[k] = a
      BY <2>2, <2>3 DEF Held
    <3>2. PICK h \in Hosts : k + 1 <= Mark(h)
      BY <1>3, <2>3, <3>1 DEF WitnessedInv
    <3>3. k <= n
      BY <1>1, <1>2, <2>1, <3>1, <3>2
    <3> QED BY <1>1, <1>2, <3>1, <3>3
  <2> QED BY <1>1, <2>3 DEF Held
<1> QED BY <1>4, <1>5, <1>6 DEF MarkInv

LEMMA RollbackMarks ==
  ASSUME IInv, NEW h \in Hosts, NEW n \in 0 .. MaxCommits, host_rollback(h, n)
  PROVE  MarkInv'
<1>1. UseRemote /\ UNCHANGED <<db, acked, remote, up, seen, pc>>
  BY DEF host_rollback
<1>2. ASSUME Covered, NEW g \in Hosts, Mark(g) > Len(db) + 1
      PROVE  /\ \A p \in Procs : up'[p] # "up" /\ seen'[p] = 0
             /\ \A t \in Tasks : pc'[t] \in {"off", "lock", "db", "remote"}
  BY <1>1, <1>2, StuckFacts
<1> QED BY <1>1, <1>2, SameMarks
-----------------------------------------------------------------------------
(***************************************************************************)
(* The invariant and what follows from it.                                 *)
(***************************************************************************)
LEMMA InvInit == Init => IInv
<1> SUFFICES ASSUME Init PROVE IInv
  OBVIOUS
<1>1. db = <<>> /\ Len(db) = 0 /\ db \in Seq(1 .. MaxCommits)
  BY DEF Init
<1>2. TypeOK
  BY <1>1, Constants DEF Init, TypeOK
<1>3. DbInv /\ PhaseInv /\ LockInv /\ SeenInv
  BY <1>1, Constants DEF Init, DbInv, PhaseInv, LockInv, SeenInv, Inside
<1>4. \A t \in Tasks : TaskInv(t)
  BY <1>1 DEF Init, TaskInv
<1>5. MarkInv
  <2>1. WitnessedInv /\ HeldInv
    BY <1>1 DEF Init, WitnessedInv, HeldInv
  <2>2. \A h \in Hosts : Mark(h) = 0
    BY DEF Init, Mark
  <2>3. StuckInv
    BY <1>1, <2>2 DEF StuckInv
  <2> QED BY <2>1, <2>3 DEF MarkInv
<1> QED BY <1>2, <1>3, <1>4, <1>5 DEF IInv, BaseInv

LEMMA UnchangedInv ==
  ASSUME IInv, UNCHANGED vars
  PROVE  IInv'
<1>1. TypeOK' /\ DbInv' /\ PhaseInv' /\ LockInv' /\ SeenInv'
  BY DEF vars, IInv, BaseInv, TypeOK, DbInv, PhaseInv, LockInv, SeenInv
<1>2. \A t \in Tasks : TaskInv(t)'
  BY DEF vars, IInv, BaseInv, TaskInv
<1>3. MarkInv'
  <2>1. UNCHANGED <<db, acked, remote, local, up, seen, pc>>
    BY DEF vars
  <2>2. ASSUME Covered, NEW h \in Hosts, Mark(h) > Len(db) + 1
        PROVE  /\ \A p \in Procs : up'[p] # "up" /\ seen'[p] = 0
               /\ \A t \in Tasks : pc'[t] \in {"off", "lock", "db", "remote"}
    BY <2>1, <2>2, StuckFacts
  <2> QED BY <2>1, <2>2, SameMarks
<1> QED BY <1>1, <1>2, <1>3 DEF IInv, BaseInv

LEMMA InvStep ==
  ASSUME IInv, [Next]_vars
  PROVE  IInv'
<1>1. BaseInv
  BY DEF IInv
<1>2. CASE UNCHANGED vars
  BY <1>2, UnchangedInv
<1>3. ASSUME NEW p \in Procs, start(p) \/ crash(p) PROVE IInv'
  BY <1>1, <1>3, StartBase, CrashBase, StartMarks, CrashMarks DEF IInv
<1>4. ASSUME NEW t \in Tasks, commit(t) \/ verify_integrity(t) PROVE IInv'
  <2>1. CASE commit(t)
    BY <1>1, <2>1, CommitBase, CommitMarks DEF IInv
  <2>2. CASE verify_integrity(t)
    <3>1. UNCHANGED <<db, acked, local, remote>> /\ pc[t] \notin {"off", "lock", "db", "remote"}
      BY <2>2 DEF verify_integrity, Ready
    <3> QED BY <1>1, <2>2, <3>1, IntegrityBase, RestMarks DEF IInv
  <2> QED BY <1>4, <2>1, <2>2
<1>5. ASSUME NEW t \in Tasks, Verify(t) PROVE IInv'
  <2>1. CASE verify_lock(t) \/ verify_db(t) \/ verify_remote(t)
    BY <1>1, <2>1, LockBase, LockMarks, DbBase, DbMarks, RemoteBase, RemoteMarks DEF IInv
  <2>2. CASE verify_write(t) \/ verify_write_lost(t) \/ verify_local(t)
    BY <1>1, <2>2, WriteBase, LostBase, WriteMarks, LocalBase, LocalMarks DEF IInv
  <2>3. CASE verify_error(t)
    <3>1. pc[t] \in Inside \cup {"lock"} /\ Fail(t) /\ UNCHANGED <<db, local, remote>>
      BY <2>3 DEF verify_error, Inside
    <3> QED BY <1>1, <2>3, <3>1, ErrorBase, FailMarks DEF IInv
  <2> QED BY <1>5, <2>1, <2>2, <2>3 DEF Verify
<1>6. ASSUME NEW n \in 0 .. MaxCommits, restore(n) PROVE IInv'
  BY <1>1, <1>6, RestoreBase, RestoreMarks DEF IInv
<1>7. ASSUME NEW h \in Hosts, NEW n \in 0 .. MaxCommits, host_rollback(h, n) PROVE IInv'
  BY <1>1, <1>7, RollbackBase, RollbackMarks DEF IInv
<1> QED BY <1>2, <1>3, <1>4, <1>5, <1>6, <1>7 DEF Next

LEMMA Invariant == Spec => []IInv
BY InvInit, InvStep, PTL DEF Spec

(* Files, objects and tasks keep their shape; revisions stay in bounds.    *)
THEOREM TypeCorrect == Spec => []TypeOK
BY Invariant, PTL DEF IInv, BaseInv

(* An acknowledged transition is covered by the S3 object: verify_and_     *)
(* advance returns only after the object is at or past its revision.       *)
THEOREM AckWitnessed == Spec => []AcknowledgedIsWitnessed
<1>1. IInv => AcknowledgedIsWitnessed
  <2> SUFFICES ASSUME IInv, UseRemote, NEW k \in 1 .. Len(db), db[k] \in acked PROVE k + 1 <= remote
    BY DEF AcknowledgedIsWitnessed
  <2>1. WitnessedInv
    BY DEF IInv, MarkInv, Covered
  <2> QED BY <2>1 DEF WitnessedInv, Mark
<1> QED BY <1>1, Invariant, PTL

(* No check passes while the database lacks an acknowledged transition,    *)
(* with the S3 witness on any number of hosts, and with the file alone on  *)
(* one. (Two hosts with only their files are not protected: a new host's   *)
(* missing file accepts a database restored to its first revision.)        *)
THEOREM ServedHolds ==
  ASSUME Covered
  PROVE  Spec => ServedHoldsAcknowledged
<1>1. ASSUME IInv, [Next]_vars
      PROVE  [\A t \in Tasks : pc[t] # "served" /\ pc'[t] = "served" => acked \subseteq Held]_vars
  <2> SUFFICES ASSUME NEW t \in Tasks, pc[t] # "served", pc'[t] = "served", Next PROVE acked \subseteq Held
    BY <1>1 DEF vars
  <2>1. BaseInv /\ pc \in [Tasks -> Pcs]
    BY <1>1, TypeParts DEF IInv, TaskTypes, BaseInv
  <2>2. ASSUME NEW s \in Tasks, Fail(s), pc[s] \in Inside \cup {"lock"} PROVE FALSE
    BY <2>1, <2>2, FailFacts
  <2>3. ASSUME NEW s \in Tasks, NEW q \in Pcs, q # "served", pc' = [pc EXCEPT ![s] = q] PROVE FALSE
    BY <2>1, <2>3
  <2>4. ASSUME NEW s \in Tasks, Verify(s) PROVE acked \subseteq Held
    <3>1. CASE verify_local(s)
      <4>1. pc[s] \notin {"off", "lock", "db", "remote"}
        BY <3>1 DEF verify_local
      <4> QED BY <1>1, <4>1, NotStuck
    <3>2. CASE verify_db(s)
      <4>1. CASE Succeed(s) /\ seen[ProcOf[s]] = Revision
        <5>1. ProcOf[s] \in Procs /\ seen[ProcOf[s]] # 0
          BY <2>1, <4>1, Constants, Numbers DEF Revision
        <5> QED BY <1>1, <5>1, NotStuck
      <4>2. pc[s] \in Inside
        BY <3>2 DEF verify_db, Inside
      <4>3. "remote" \in Pcs /\ "local" \in Pcs
        BY DEF Pcs
      <4> QED BY <2>2, <2>3, <3>2, <4>1, <4>2, <4>3 DEF verify_db
    <3>3. CASE verify_lock(s) \/ verify_remote(s) \/ verify_write(s) \/ verify_write_lost(s) \/ verify_error(s)
      <4>1. Fail(s) => pc[s] \in Inside \cup {"lock"}
        BY <3>3, <2>1 DEF verify_lock, verify_remote, verify_write, verify_write_lost, verify_error, Inside
      <4>2. "db" \in Pcs /\ "local" \in Pcs /\ "write" \in Pcs
        BY DEF Pcs
      <4> QED BY <2>2, <2>3, <3>3, <4>1, <4>2
          DEF verify_lock, verify_remote, verify_write, verify_write_lost, verify_error
    <3> QED BY <2>4, <3>1, <3>2, <3>3 DEF Verify
  <2>5. ASSUME NEW p \in Procs, start(p) \/ crash(p) PROVE FALSE
    <3>1. CASE start(p)
      BY <2>3, <3>1, Constants DEF start, Pcs
    <3>2. CASE crash(p)
      <4>1. Exit(p)
        BY <3>2 DEF crash
      <4> QED BY <2>1, <4>1, ExitFacts DEF Kept
    <3> QED BY <2>5, <3>1, <3>2
  <2>6. ASSUME NEW s \in Tasks, commit(s) \/ verify_integrity(s) PROVE FALSE
    BY <2>3, <2>6 DEF commit, verify_integrity, Pcs
  <2>7. ASSUME NEW n, restore(n) PROVE FALSE
    BY <2>7 DEF restore
  <2>8. ASSUME NEW h, NEW n, host_rollback(h, n) PROVE FALSE
    BY <2>8 DEF host_rollback
  <2> QED BY <2>4, <2>5, <2>6, <2>7, <2>8 DEF Next
<1> QED BY <1>1, Invariant, PTL DEF Spec, ServedHoldsAcknowledged

(* No task, retry or replacement host lowers a witness: a put names what   *)
(* was read, and the file is written under its lock.                       *)
THEOREM NeverLowered == Spec => WitnessNeverLowered
<1>1. ASSUME IInv, [Next]_vars
      PROVE  [/\ remote' >= remote
              /\ \A h \in Hosts :
                   local'[h] < local[h] => \A p \in Procs : HostOf[p] = h => up[p] = "down"]_vars
  <2>1. BaseInv /\ remote \in Nat /\ local \in [Hosts -> Revisions]
        /\ (\A h \in Hosts : local[h] \in Nat) /\ \A t \in Tasks : rev[t] \in Nat
    BY <1>1, Numbers DEF IInv, BaseInv, TypeOK
  <2>2. remote' >= remote
    <3>1. ASSUME NEW t \in Tasks, pc[t] = "write", remote = read[t] PROVE rev[t] >= remote
      BY <2>1, <3>1, PutUp
    <3>2. \/ UNCHANGED remote
          \/ \E t \in Tasks : pc[t] = "write" /\ remote = read[t] /\ remote' = rev[t]
      BY <1>1 DEF Next, vars, start, crash, commit, verify_integrity, restore, host_rollback, Verify,
                  verify_lock, verify_db, verify_remote, verify_write, verify_write_lost, verify_local,
                  verify_error
    <3> QED BY <2>1, <3>1, <3>2
  <2>3. \/ UNCHANGED local
        \/ \E t \in Tasks : pc[t] = "local" /\ local' = [local EXCEPT ![Host(t)] = rev[t]]
        \/ \E h \in Hosts, n \in 0 .. MaxCommits : host_rollback(h, n)
    BY <1>1 DEF Next, vars, start, crash, commit, verify_integrity, restore, Verify,
                verify_lock, verify_db, verify_remote, verify_write, verify_write_lost, verify_local,
                verify_error
  <2>4. ASSUME NEW t \in Tasks, pc[t] = "local", local' = [local EXCEPT ![Host(t)] = rev[t]],
               NEW h \in Hosts
        PROVE  ~(local'[h] < local[h])
    <3>1. local[Host(t)] <= rev[t] /\ Host(t) \in Hosts
      BY <2>1, <2>4, Constants DEF BaseInv, TaskInv
    <3>2. local'[h] = IF h = Host(t) THEN rev[t] ELSE local[h]
      BY <2>1, <2>4
    <3> QED BY <2>1, <3>1, <3>2
  <2>5. ASSUME NEW g \in Hosts, NEW n \in 0 .. MaxCommits, host_rollback(g, n), NEW h \in Hosts,
               local'[h] < local[h]
        PROVE  \A p \in Procs : HostOf[p] = h => up[p] = "down"
    <3>1. h = g
      BY <2>1, <2>5 DEF host_rollback
    <3> QED BY <2>5, <3>1 DEF host_rollback
  <2>6. ASSUME UNCHANGED local, NEW h \in Hosts PROVE ~(local'[h] < local[h])
    BY <2>1, <2>6
  <2>7. \A h \in Hosts :
          local'[h] < local[h] => \A p \in Procs : HostOf[p] = h => up[p] = "down"
    BY <2>3, <2>4, <2>5, <2>6
  <2> QED BY <2>2, <2>7
<1> QED BY <1>1, Invariant, PTL DEF Spec, WitnessNeverLowered
=============================================================================
