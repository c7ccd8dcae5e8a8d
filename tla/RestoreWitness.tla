--------------------------- MODULE RestoreWitness ---------------------------
(***************************************************************************)
(* The restore witness (bloom-relay-store/src/restore.rs, s3_witness.rs):  *)
(* a high-water mark of the database revision kept in a local file, and    *)
(* optionally in an S3 object, so that a database restored from a backup   *)
(* is not served.                                                          *)
(*                                                                         *)
(* Tasks of the services on a host share its file and its file lock; a     *)
(* process's request tasks also share its memory of the remote revision.   *)
(* Hosts share the database and the S3 object (a replacement host starts   *)
(* while the old one may still run).                                       *)
(***************************************************************************)
EXTENDS Naturals, Sequences

CONSTANTS
  Hosts,
  Procs,        \* service processes
  HostOf,       \* the host a process runs on
  Tasks,        \* request tasks and periodic checkers
  ProcOf,       \* the process a task belongs to
  Checkers,     \* the tasks that are the 1 s local-only check
  BootOf,       \* the request task that makes a process's startup check
  Nobody,       \* no task: the file lock is free
  UseRemote,    \* whether the S3 witness is configured
  RemoteAttempts, \* REMOTE_ATTEMPTS
  MaxCommits    \* bound: security transitions ever committed

ASSUME WitnessAssumption ==
  /\ HostOf \in [Procs -> Hosts]
  /\ ProcOf \in [Tasks -> Procs]
  /\ Checkers \subseteq Tasks
  /\ BootOf \in [Procs -> Tasks \ Checkers]
  /\ \A p \in Procs : ProcOf[BootOf[p]] = p
  /\ Nobody \notin Tasks
  /\ UseRemote \in BOOLEAN
  /\ RemoteAttempts \in Nat \ {0}
  /\ MaxCommits \in Nat

VARIABLES
  db,       \* the security transitions the database holds, in commit order
  commits,  \* how many were ever committed: names the next one
  acked,    \* transitions acknowledged to a client
  local,    \* the witness file of each host, 0 when missing
  remote,   \* the S3 object, 0 when missing; its ETag is its content
  lock,     \* holder of each host's witness file lock
  up,       \* each process: "down", "starting" or "up"
  seen,     \* RestoreWitness.remote_seen of each process, 0 for None
  pc,       \* where each task is in verify_and_advance
  mine,     \* the transition each task has yet to acknowledge, 0 for none
  rev,      \* the database revision each task read
  read,     \* the remote revision each task read
  tries     \* attempts each task has left

vars == <<db, commits, acked, local, remote, lock, up, seen, pc, mine, rev, read, tries>>

(* restore_fence.revision: 1 for a new database, one more per transition.  *)
Revision == Len(db) + 1

Held == {db[k] : k \in 1 .. Len(db)}

Host(t) == HostOf[ProcOf[t]]
Larger(a, b) == IF a > b THEN a ELSE b

(* Only request tasks were given the remote witness.                       *)
HasRemote(t) == UseRemote /\ t \notin Checkers

Ready(t) == pc[t] \in {"idle", "served"}

-----------------------------------------------------------------------------
(***************************************************************************)
(* The outcome of a check.                                                 *)
(***************************************************************************)
Unlock(t) ==
  lock' = [lock EXCEPT ![Host(t)] = IF @ = t THEN Nobody ELSE @]

TasksOf(p) == {t \in Tasks : ProcOf[t] = p}

(* The process exits; the system drops its locks and its memory.           *)
Exit(p) ==
  /\ up' = [up EXCEPT ![p] = "down"]
  /\ seen' = [seen EXCEPT ![p] = 0]
  /\ pc' = [t \in Tasks |-> IF t \in TasksOf(p) THEN "off" ELSE pc[t]]
  /\ mine' = [t \in Tasks |-> IF t \in TasksOf(p) THEN 0 ELSE mine[t]]
  /\ rev' = [t \in Tasks |-> IF t \in TasksOf(p) THEN 0 ELSE rev[t]]
  /\ read' = [t \in Tasks |-> IF t \in TasksOf(p) THEN 0 ELSE read[t]]
  /\ tries' = [t \in Tasks |-> IF t \in TasksOf(p) THEN 0 ELSE tries[t]]
  /\ lock' = [h \in Hosts |-> IF lock[h] \in TasksOf(p) THEN Nobody ELSE lock[h]]

(* verify_and_advance returns Ok: the service has started, or the request  *)
(* is answered, or the checker sleeps.                                     *)
Succeed(t) ==
  /\ Unlock(t)
  /\ mine' = [mine EXCEPT ![t] = 0]
  /\ rev' = [rev EXCEPT ![t] = 0]
  /\ read' = [read EXCEPT ![t] = 0]
  /\ tries' = [tries EXCEPT ![t] = 0]
  /\ acked' = IF mine[t] # 0 THEN acked \cup {mine[t]} ELSE acked
  /\ IF up[ProcOf[t]] = "starting"
     THEN /\ up' = [up EXCEPT ![ProcOf[t]] = "up"]
          /\ pc' = [s \in Tasks |-> IF s = t THEN "served"
                                    ELSE IF s \in TasksOf(ProcOf[t]) THEN "idle" ELSE pc[s]]
     ELSE /\ pc' = [pc EXCEPT ![t] = "served"]
          /\ UNCHANGED up

(* It returns an error: a starting service and a checker's process exit,   *)
(* a request fails with its transition committed but not acknowledged.     *)
Fail(t) ==
  /\ IF up[ProcOf[t]] = "starting" \/ t \in Checkers
     THEN Exit(ProcOf[t])
     ELSE /\ Unlock(t)
          /\ pc' = [pc EXCEPT ![t] = "idle"]
          /\ mine' = [mine EXCEPT ![t] = 0]
          /\ rev' = [rev EXCEPT ![t] = 0]
          /\ read' = [read EXCEPT ![t] = 0]
          /\ tries' = [tries EXCEPT ![t] = 0]
          /\ UNCHANGED <<up, seen>>
  /\ UNCHANGED acked

-----------------------------------------------------------------------------
(***************************************************************************)
(* Processes, requests and the database.                                   *)
(***************************************************************************)
start(p) ==
  /\ up[p] = "down"
  /\ up' = [up EXCEPT ![p] = "starting"]
  /\ pc' = [pc EXCEPT ![BootOf[p]] = "lock"]
  /\ UNCHANGED <<db, commits, acked, local, remote, lock, seen, mine, rev, read, tries>>

crash(p) ==
  /\ up[p] # "down"
  /\ Exit(p)
  /\ UNCHANGED <<db, commits, acked, local, remote>>

(* A request commits a security transition, then acknowledges it.          *)
commit(t) ==
  /\ t \notin Checkers
  /\ Ready(t)
  /\ commits < MaxCommits
  /\ commits' = commits + 1
  /\ db' = Append(db, commits + 1)
  /\ mine' = [mine EXCEPT ![t] = commits + 1]
  /\ pc' = [pc EXCEPT ![t] = "lock"]
  /\ UNCHANGED <<acked, local, remote, lock, up, seen, rev, read, tries>>

(* verify_integrity, or a checker's second has passed.                     *)
verify_integrity(t) ==
  /\ Ready(t)
  /\ pc' = [pc EXCEPT ![t] = "lock"]
  /\ UNCHANGED <<db, commits, acked, local, remote, lock, up, seen, mine, rev, read, tries>>

(* A backup, any earlier state of the database, replaces it while the      *)
(* services are stopped.                                                   *)
restore(n) ==
  /\ n < Len(db)
  /\ \A p \in Procs : up[p] = "down"
  /\ db' = SubSeq(db, 1, n)
  /\ UNCHANGED <<commits, acked, local, remote, lock, up, seen, pc, mine, rev, read, tries>>

(* With an off-host witness, a host may also lose its file or be rolled    *)
(* back to an older image, while its services are down.                    *)
host_rollback(h, n) ==
  /\ UseRemote
  /\ \A p \in Procs : HostOf[p] = h => up[p] = "down"
  /\ n < local[h]
  /\ local' = [local EXCEPT ![h] = n]
  /\ UNCHANGED <<db, commits, acked, remote, lock, up, seen, pc, mine, rev, read, tries>>

-----------------------------------------------------------------------------
(***************************************************************************)
(* verify_and_advance.                                                     *)
(***************************************************************************)
verify_lock(t) ==
  /\ pc[t] = "lock"
  /\ lock[Host(t)] = Nobody
  /\ lock' = [lock EXCEPT ![Host(t)] = t]
  /\ pc' = [pc EXCEPT ![t] = "db"]
  /\ tries' = [tries EXCEPT ![t] = RemoteAttempts]
  /\ UNCHANGED <<db, commits, acked, local, remote, up, seen, mine, rev, read>>

(* The lock is not had in 30 s, or the database, the file or S3 fails.     *)
verify_error(t) ==
  /\ pc[t] \in {"lock", "db", "remote", "write", "local"}
  /\ Fail(t)
  /\ UNCHANGED <<db, commits, local, remote>>

(* The two refusals, for the higher of the witnesses that were read.       *)
Refused(prior, revision) ==
  \/ prior = 0 /\ revision # 1      \* Missing (revision 1: still pristine)
  \/ prior > revision               \* StaleDatabase

(* Slip: the fast path trusts the local file alone.                        *)
MutVerifyDb(t) ==
  LET cached == HasRemote(t) /\ local[Host(t)] = Revision IN
  /\ pc[t] = "db"
  /\ \/ /\ cached
        /\ Succeed(t)
        /\ UNCHANGED seen
     \/ /\ HasRemote(t) /\ ~cached
        /\ rev' = [rev EXCEPT ![t] = Revision]
        /\ pc' = [pc EXCEPT ![t] = "remote"]
        /\ UNCHANGED <<acked, lock, up, seen, mine, read, tries>>
     \/ /\ ~HasRemote(t)
        /\ IF Refused(local[Host(t)], Revision)
           THEN Fail(t)
           ELSE /\ rev' = [rev EXCEPT ![t] = Revision]
                /\ pc' = [pc EXCEPT ![t] = "local"]
                /\ UNCHANGED <<acked, lock, up, seen, mine, read, tries>>
  /\ UNCHANGED <<db, commits, local, remote>>

(* The revision and the local file. Without a remote witness the decision  *)
(* is made here; with one, an unmoved revision needs no remote call.       *)
verify_db(t) ==
  LET cached == HasRemote(t) /\ seen[ProcOf[t]] = Revision /\ local[Host(t)] = Revision IN
  /\ pc[t] = "db"
  /\ \/ /\ cached
        /\ Succeed(t)
        /\ UNCHANGED seen
     \/ /\ HasRemote(t) /\ ~cached
        /\ rev' = [rev EXCEPT ![t] = Revision]
        /\ pc' = [pc EXCEPT ![t] = "remote"]
        /\ UNCHANGED <<acked, lock, up, seen, mine, read, tries>>
     \/ /\ ~HasRemote(t)
        /\ IF Refused(local[Host(t)], Revision)
           THEN Fail(t)
           ELSE /\ rev' = [rev EXCEPT ![t] = Revision]
                /\ pc' = [pc EXCEPT ![t] = "local"]
                /\ UNCHANGED <<acked, lock, up, seen, mine, read, tries>>
  /\ UNCHANGED <<db, commits, local, remote>>

(* Slip: a local file that exists is preferred to the remote one.          *)
MutVerifyRemote(t) ==
  /\ pc[t] = "remote"
  /\ IF Refused(IF local[Host(t)] = 0 THEN remote ELSE local[Host(t)], rev[t])
     THEN Fail(t)
     ELSE /\ read' = [read EXCEPT ![t] = remote]
          /\ pc' = [pc EXCEPT ![t] = "write"]
          /\ UNCHANGED <<acked, lock, up, seen, mine, rev, tries>>
  /\ UNCHANGED <<db, commits, local, remote>>

verify_remote(t) ==
  /\ pc[t] = "remote"
  /\ IF Refused(Larger(local[Host(t)], remote), rev[t])
     THEN Fail(t)
     ELSE /\ read' = [read EXCEPT ![t] = remote]
          /\ IF remote = rev[t]
             THEN /\ seen' = [seen EXCEPT ![ProcOf[t]] = remote]
                  /\ pc' = [pc EXCEPT ![t] = "local"]
             ELSE /\ pc' = [pc EXCEPT ![t] = "write"]
                  /\ UNCHANGED seen
          /\ UNCHANGED <<acked, lock, up, mine, rev, tries>>
  /\ UNCHANGED <<db, commits, local, remote>>

(* Slip: the put is unconditional.                                         *)
MutPut(t) ==
  /\ pc[t] = "write"
  /\ remote' = rev[t]
  /\ seen' = [seen EXCEPT ![ProcOf[t]] = rev[t]]
  /\ pc' = [pc EXCEPT ![t] = "local"]
  /\ UNCHANGED <<db, commits, acked, local, lock, up, mine, rev, read, tries>>

(* A conditional put: it names the ETag that was read.                     *)
verify_write(t) ==
  /\ pc[t] = "write"
  /\ \/ /\ remote = read[t]
        /\ remote' = rev[t]
        /\ seen' = [seen EXCEPT ![ProcOf[t]] = rev[t]]
        /\ pc' = [pc EXCEPT ![t] = "local"]
        /\ UNCHANGED <<acked, lock, up, mine, rev, read, tries>>
     \/ /\ remote # read[t]
        /\ tries[t] > 1
        /\ seen' = [seen EXCEPT ![ProcOf[t]] = 0]
        /\ tries' = [tries EXCEPT ![t] = @ - 1]
        /\ pc' = [pc EXCEPT ![t] = "db"]
        /\ UNCHANGED <<acked, remote, lock, up, mine, rev, read>>
     \/ /\ remote # read[t]
        /\ tries[t] = 1
        /\ Fail(t)                  \* RemoteContention
        /\ UNCHANGED remote
  /\ UNCHANGED <<db, commits, local>>

(* The put is applied but its answer is lost.                              *)
verify_write_lost(t) ==
  /\ pc[t] = "write"
  /\ remote = read[t]
  /\ remote' = rev[t]
  /\ Fail(t)
  /\ UNCHANGED <<db, commits, local>>

(* write_revision replaces the file atomically, if it has to change.       *)
verify_local(t) ==
  /\ pc[t] = "local"
  /\ local' = [local EXCEPT ![Host(t)] = rev[t]]
  /\ Succeed(t)
  /\ UNCHANGED <<db, commits, remote, seen>>

-----------------------------------------------------------------------------
Init ==
  /\ db = <<>>
  /\ commits = 0
  /\ acked = {}
  /\ local = [h \in Hosts |-> 0]
  /\ remote = 0
  /\ lock = [h \in Hosts |-> Nobody]
  /\ up = [p \in Procs |-> "down"]
  /\ seen = [p \in Procs |-> 0]
  /\ pc = [t \in Tasks |-> "off"]
  /\ mine = [t \in Tasks |-> 0]
  /\ rev = [t \in Tasks |-> 0]
  /\ read = [t \in Tasks |-> 0]
  /\ tries = [t \in Tasks |-> 0]

Verify(t) ==
  \/ verify_lock(t)
  \/ verify_db(t)
  \/ verify_remote(t)
  \/ verify_write(t)
  \/ verify_write_lost(t)
  \/ verify_local(t)
  \/ verify_error(t)

Next ==
  \/ \E p \in Procs : start(p) \/ crash(p)
  \/ \E t \in Tasks : commit(t) \/ verify_integrity(t) \/ Verify(t)
  \/ \E n \in 0 .. MaxCommits : restore(n)
  \/ \E h \in Hosts, n \in 0 .. MaxCommits : host_rollback(h, n)

Spec == Init /\ [][Next]_vars

-----------------------------------------------------------------------------
(***************************************************************************)
(* Properties.                                                             *)
(***************************************************************************)
Revisions == 0 .. MaxCommits + 1

(* Every variable keeps the shape its file, object or task gives it.       *)
TypeOK ==
  /\ db \in Seq(1 .. MaxCommits)
  /\ commits \in 0 .. MaxCommits
  /\ acked \subseteq 1 .. MaxCommits
  /\ local \in [Hosts -> Revisions]
  /\ remote \in Revisions
  /\ lock \in [Hosts -> Tasks \cup {Nobody}]
  /\ up \in [Procs -> {"down", "starting", "up"}]
  /\ seen \in [Procs -> Revisions]
  /\ pc \in [Tasks -> {"off", "idle", "served", "lock", "db", "remote", "write", "local"}]
  /\ mine \in [Tasks -> 0 .. MaxCommits]
  /\ rev \in [Tasks -> Revisions]
  /\ read \in [Tasks -> Revisions]
  /\ tries \in [Tasks -> 0 .. RemoteAttempts]

(* No check passes, so no service starts and no request is answered, while *)
(* the database lacks a transition some client was told about. Commits     *)
(* after a restore reuse the lost revision numbers, so this is more than   *)
(* a comparison of two numbers.                                            *)
ServedHoldsAcknowledged ==
  [][\A t \in Tasks : pc[t] # "served" /\ pc'[t] = "served" => acked \subseteq Held]_vars

(* No writer lowers a witness: neither a slow task with an old revision in *)
(* hand, nor a retry, nor a replacement host. A file only falls with its   *)
(* host.                                                                   *)
WitnessNeverLowered ==
  [][/\ remote' >= remote
     /\ \A h \in Hosts :
          local'[h] < local[h] => \A p \in Procs : HostOf[p] = h => up[p] = "down"]_vars

(* An acknowledged transition is covered by the off-host witness, so the   *)
(* loss of the host cannot hide it.                                        *)
AcknowledgedIsWitnessed ==
  UseRemote => \A k \in 1 .. Len(db) : db[k] \in acked => k + 1 <= remote
=============================================================================
