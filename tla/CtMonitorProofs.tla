-------------------------- MODULE CtMonitorProofs --------------------------
(***************************************************************************)
(* Proofs about CtMonitor, for any number of workers, certificates, feed   *)
(* positions, quarter hours and failures.                                  *)
(*                                                                         *)
(* A batch lies inside the feed (BatchInv), so the entry that is stored at *)
(* a checkpoint is the feed's own; and a worker marks only the alert whose *)
(* key the sink has just accepted (PostedInv).                             *)
(***************************************************************************)
EXTENDS CtMonitor, NaturalLemmas

(* What a worker has handled, and what it was given, the feed has shown.   *)
BatchInv == \A w \in Workers : next[w] <= Len(log) /\ upto[w] <= Len(log)

(* Between the sink's answer and the mark, the alert stays in hand.        *)
PostedInv ==
  \A w \in Workers :
    /\ pc[w] = "mark" => <<"ct", Min(todo[w])>> \in received
    /\ pc[w] = "lagmark" => <<"ct-lag", Min(todo[w])>> \in received

IInv ==
  /\ TypeOK
  /\ BatchInv
  /\ NoIssuanceMissed
  /\ PostedInv
  /\ DeliveredWasReceived

USE DEF world, tables, worker

Pcs == {"sleep", "fetch", "observe", "lag", "alerts", "post", "mark", "lagpost", "lagmark"}

-----------------------------------------------------------------------------
(***************************************************************************)
(* The shape of the tables and of the workers.                             *)
(***************************************************************************)
LEMMA Constants ==
  /\ MaxPosition \in Nat /\ MaxWindow \in Nat /\ MaxFailures \in Nat /\ Limit \in Nat
  /\ Own \subseteq Certs
BY CtAssumption DEF CtAssumption

WorkerTypes ==
  /\ pc \in [Workers -> Pcs]
  /\ next \in [Workers -> 0 .. MaxPosition]
  /\ upto \in [Workers -> 0 .. MaxPosition]
  /\ gap \in [Workers -> BOOLEAN]
  /\ todo \in [Workers -> SUBSET (Positions \cup Windows)]
TableTypes ==
  /\ inventory \subseteq Own
  /\ position \in 0 .. Len(log)
  /\ stale \in BOOLEAN
  /\ observed \in Seq(Certs) /\ Len(observed) = position
  /\ alert \in [Positions -> Status]
  /\ lagAlert \in [Windows -> Status]
WorldTypes ==
  /\ log \in Seq(Certs) /\ Len(log) <= MaxPosition
  /\ window \in Windows
  /\ failures \in 0 .. MaxFailures

LEMMA TypeParts == TypeOK <=> WorkerTypes /\ TableTypes /\ WorldTypes
BY DEF TypeOK, WorkerTypes, TableTypes, WorldTypes, Pcs

LEMMA Numbers ==
  ASSUME TypeOK
  PROVE  /\ Len(log) \in Nat /\ position \in Nat /\ position <= Len(log)
         /\ \A w \in Workers : next[w] \in Nat /\ upto[w] \in Nat
<1>1. log \in Seq(Certs) /\ position \in 0 .. Len(log)
  BY DEF TypeOK
<1>2. Len(log) \in Nat
  BY <1>1
<1>3. \A w \in Workers : next[w] \in 0 .. MaxPosition /\ upto[w] \in 0 .. MaxPosition
  BY DEF TypeOK
<1> QED BY <1>1, <1>2, <1>3, Constants

(* LeaveBatch.                                                             *)
LEMMA LeaveFacts ==
  ASSUME TypeOK, BatchInv, NEW w \in Workers, NEW l \in Pcs, LeaveBatch(w, l), UNCHANGED log,
         todo' \in [Workers -> SUBSET (Positions \cup Windows)]
  PROVE  /\ WorkerTypes' /\ BatchInv'
         /\ pc'[w] = l /\ \A v \in Workers : v # w => pc'[v] = pc[v]
<1>1. WorkerTypes
  BY TypeParts
<1>2. /\ pc' = [pc EXCEPT ![w] = l] /\ next' = [next EXCEPT ![w] = 0]
      /\ upto' = [upto EXCEPT ![w] = 0] /\ gap' = [gap EXCEPT ![w] = FALSE]
  BY DEF LeaveBatch, Goto
<1>3. WorkerTypes'
  <2>1. 0 \in 0 .. MaxPosition
    BY Constants
  <2> QED BY <1>1, <1>2, <2>1 DEF WorkerTypes
<1>4. \A v \in Workers : next'[v] \in {next[v], 0} /\ upto'[v] \in {upto[v], 0}
  BY <1>1, <1>2 DEF WorkerTypes
<1>5. BatchInv'
  BY <1>4, Numbers DEF BatchInv
<1> QED BY <1>1, <1>2, <1>3, <1>5 DEF WorkerTypes

(* A worker goes on with its batch and its alerts in hand.                 *)
LEMMA GotoFacts ==
  ASSUME TypeOK, NEW w \in Workers, NEW l \in Pcs, Goto(w, l), UNCHANGED <<next, upto, gap>>,
         todo' \in [Workers -> SUBSET (Positions \cup Windows)]
  PROVE  /\ WorkerTypes'
         /\ pc'[w] = l /\ \A v \in Workers : v # w => pc'[v] = pc[v]
BY DEF TypeOK, WorkerTypes, Goto, Pcs

-----------------------------------------------------------------------------
(***************************************************************************)
(* Steps that leave the alerts: the feed, the clock, the batch.            *)
(***************************************************************************)

(* A worker that comes to "mark" has just posted; otherwise its answered   *)
(* post is still there.                                                    *)
LEMMA Unposted ==
  ASSUME IInv, received \subseteq received',
         \A w \in Workers : pc'[w] \in {"mark", "lagmark"} => pc'[w] = pc[w] /\ todo'[w] = todo[w]
  PROVE  PostedInv'
BY DEF IInv, PostedInv

LEMMA SameAlerts ==
  ASSUME IInv, UNCHANGED <<alert, lagAlert>>, received \subseteq received'
  PROVE  DeliveredWasReceived'
BY DEF IInv, DeliveredWasReceived

(* Nothing below the checkpoint changes, and alerts never go back.         *)
LEMMA StillSeen ==
  ASSUME IInv, UNCHANGED position, inventory \subseteq inventory',
         \A p \in 1 .. position : log'[p] = log[p],
         \A p \in Positions : alert'[p] = "none" => alert[p] = "none"
  PROVE  NoIssuanceMissed'
<1>1. \A p \in 1 .. position : p \in Positions
  BY Numbers, Constants DEF IInv, TypeOK, Positions
<1> QED BY <1>1 DEF IInv, NoIssuanceMissed

LEMMA WorldInv ==
  ASSUME IInv,
         \/ \E c \in Certs : feed_grows(c) \/ record_expected_certificate(c)
         \/ window_turns
         \/ feed_ages
  PROVE  IInv'
<1>1. UNCHANGED <<position, observed, alert, lagAlert, received, worker, failures>>
  BY DEF feed_grows, record_expected_certificate, window_turns, feed_ages
<1>2. TypeOK /\ Len(log) \in Nat /\ log \in Seq(Certs) /\ Len(log) <= MaxPosition /\ position \in 0 .. Len(log)
  BY Numbers DEF IInv, TypeOK
<1>3. /\ log' \in Seq(Certs) /\ Len(log') \in Nat /\ Len(log') <= MaxPosition /\ Len(log) <= Len(log')
      /\ \A p \in 1 .. Len(log) : log'[p] = log[p]
  <2>1. CASE UNCHANGED log
    BY <1>2, <2>1
  <2>2. ASSUME NEW c \in Certs, log' = Append(log, c), Len(log) < MaxPosition
        PROVE  /\ log' \in Seq(Certs) /\ Len(log') \in Nat /\ Len(log') <= MaxPosition /\ Len(log) <= Len(log')
               /\ \A p \in 1 .. Len(log) : log'[p] = log[p]
    BY <1>2, <2>2, Constants
  <2> QED BY <2>1, <2>2 DEF feed_grows, record_expected_certificate, window_turns, feed_ages
<1>4. inventory \subseteq inventory' /\ inventory' \subseteq Own
  BY <1>2 DEF feed_grows, record_expected_certificate, window_turns, feed_ages, TypeOK
<1>5. window' \in Windows /\ stale' \in BOOLEAN
  <2>1. UNCHANGED window \/ (window < MaxWindow /\ window' = window + 1)
    BY DEF feed_grows, record_expected_certificate, window_turns, feed_ages
  <2>2. window' \in Windows
    BY <1>2, <2>1, Constants DEF TypeOK, Windows
  <2>3. UNCHANGED stale \/ stale' = TRUE
    BY DEF feed_grows, record_expected_certificate, window_turns, feed_ages
  <2> QED BY <1>2, <2>2, <2>3 DEF TypeOK
<1>6. TypeOK'
  <2>1. WorkerTypes'
    BY <1>1, <1>2, TypeParts DEF WorkerTypes
  <2>2. TableTypes'
    BY <1>1, <1>2, <1>3, <1>4, <1>5, TypeParts DEF TableTypes
  <2>3. WorldTypes'
    BY <1>1, <1>2, <1>3, <1>5, TypeParts DEF WorldTypes
  <2> QED BY <2>1, <2>2, <2>3 DEF TypeOK, WorkerTypes, TableTypes, WorldTypes, Pcs
<1>7. BatchInv'
  BY <1>1, <1>2, <1>3, Numbers DEF IInv, BatchInv
<1>8. NoIssuanceMissed'
  <2>1. \A p \in 1 .. position : log'[p] = log[p]
    BY <1>2, <1>3
  <2> QED BY <1>1, <1>4, <2>1, StillSeen
<1>9. PostedInv' /\ DeliveredWasReceived'
  BY <1>1, Unposted, SameAlerts
<1> QED BY <1>6, <1>7, <1>8, <1>9 DEF IInv
(* A worker's step that touches neither the tables nor the sink.           *)
LEMMA IdleInv ==
  ASSUME IInv, UNCHANGED <<log, window, tables>>, received \subseteq received',
         failures' \in 0 .. MaxFailures, WorkerTypes', BatchInv', PostedInv'
  PROVE  IInv'
<1>1. TypeOK'
  BY TypeParts DEF IInv, TypeOK, WorkerTypes, TableTypes, WorldTypes, Pcs
<1>2. NoIssuanceMissed'
  BY StillSeen DEF IInv
<1> QED BY <1>1, <1>2, SameAlerts DEF IInv

LEMMA BatchSteps ==
  ASSUME IInv, NEW w \in Workers, tick(w) \/ Fetched(w) \/ tick_fails(w) \/ tick_ends(w)
  PROVE  IInv'
<1>1. /\ TypeOK /\ BatchInv /\ WorkerTypes /\ failures \in 0 .. MaxFailures
      /\ Len(log) \in Nat /\ position \in Nat /\ position <= Len(log) /\ Len(log) <= MaxPosition
  BY TypeParts, Numbers DEF IInv, TypeOK
<1>2. UNCHANGED <<log, window, tables, received>>
  BY DEF tick, Fetched, fetch, fetch_unavailable, tick_fails, tick_ends
<1>3. CASE tick(w)
  <2>1. /\ pc' = [pc EXCEPT ![w] = "fetch"] /\ next' = [next EXCEPT ![w] = position]
        /\ UNCHANGED <<failures, upto, gap, todo>>
    BY <1>3 DEF tick, Goto
  <2>2. position \in 0 .. MaxPosition /\ "fetch" \in Pcs
    BY <1>1, Constants DEF Pcs
  <2>3. WorkerTypes' /\ (\A v \in Workers : pc'[v] \in {pc[v], "fetch"} /\ next'[v] \in {next[v], position})
    BY <1>1, <2>1, <2>2 DEF WorkerTypes
  <2>4. BatchInv'
    BY <1>1, <1>2, <2>1, <2>3 DEF BatchInv
  <2>5. PostedInv'
    BY <1>2, <2>1, <2>3, Unposted
  <2> QED BY <1>1, <1>2, <2>1, <2>3, <2>4, <2>5, IdleInv
<1>4. ASSUME NEW n \in 0 .. MaxPosition, NEW g \in BOOLEAN, fetch(w, n, g) PROVE IInv'
  <2>1. /\ pc' = [pc EXCEPT ![w] = "observe"] /\ upto' = [upto EXCEPT ![w] = n]
        /\ gap' = [gap EXCEPT ![w] = g] /\ n <= Len(log)
        /\ UNCHANGED <<failures, next, todo>> /\ "observe" \in Pcs
    BY <1>4 DEF fetch, Goto, Pcs
  <2>2. WorkerTypes' /\ (\A v \in Workers : pc'[v] \in {pc[v], "observe"} /\ upto'[v] \in {upto[v], n})
    BY <1>1, <2>1 DEF WorkerTypes
  <2>3. BatchInv'
    BY <1>1, <1>2, <2>1, <2>2 DEF BatchInv
  <2>4. PostedInv'
    BY <1>2, <2>1, <2>2, Unposted
  <2> QED BY <1>1, <1>2, <2>1, <2>2, <2>3, <2>4, IdleInv
<1>5. CASE fetch_unavailable(w)
  <2>1. LeaveBatch(w, "lag") /\ UNCHANGED <<failures, todo>> /\ "lag" \in Pcs
    BY <1>5 DEF fetch_unavailable, Pcs
  <2>2. /\ WorkerTypes' /\ BatchInv' /\ pc'[w] = "lag" /\ \A v \in Workers : v # w => pc'[v] = pc[v]
    BY <1>1, <1>2, <2>1, LeaveFacts DEF WorkerTypes
  <2>3. PostedInv'
    BY <1>2, <2>1, <2>2, Unposted
  <2> QED BY <1>1, <1>2, <2>1, <2>2, <2>3, IdleInv
<1>6. CASE tick_fails(w)
  <2>1. /\ LeaveBatch(w, "sleep") /\ todo' = [todo EXCEPT ![w] = {}] /\ "sleep" \in Pcs
        /\ failures' \in 0 .. MaxFailures
    BY <1>1, <1>6, Constants DEF tick_fails, Pcs
  <2>2. /\ todo' \in [Workers -> SUBSET (Positions \cup Windows)]
        /\ \A v \in Workers : v # w => todo'[v] = todo[v]
    BY <1>1, <2>1 DEF WorkerTypes
  <2>3. /\ WorkerTypes' /\ BatchInv' /\ pc'[w] = "sleep" /\ \A v \in Workers : v # w => pc'[v] = pc[v]
    BY <1>1, <1>2, <2>1, <2>2, LeaveFacts
  <2>4. PostedInv'
    BY <1>2, <2>2, <2>3, Unposted
  <2> QED BY <1>2, <2>1, <2>3, <2>4, IdleInv
<1>7. CASE tick_ends(w)
  <2>1. Goto(w, "sleep") /\ UNCHANGED <<failures, next, upto, gap, todo>> /\ "sleep" \in Pcs
    BY <1>7 DEF tick_ends, Pcs
  <2>2. /\ WorkerTypes' /\ pc'[w] = "sleep" /\ \A v \in Workers : v # w => pc'[v] = pc[v]
    BY <1>1, <2>1, GotoFacts DEF WorkerTypes
  <2>3. BatchInv' /\ PostedInv'
    BY <1>1, <1>2, <2>1, <2>2, Unposted DEF BatchInv
  <2> QED BY <1>1, <1>2, <2>1, <2>2, <2>3, IdleInv
<1> QED BY <1>3, <1>4, <1>5, <1>6, <1>7 DEF Fetched

(* observe_ct: the entry stored at the new checkpoint is the feed's, and   *)
(* has an alert unless a Broker has reported it.                           *)
LEMMA ObserveInv ==
  ASSUME IInv, NEW w \in Workers, observe_ct(w)
  PROVE  IInv'
<1> DEFINE p == next[w] + 1
<1>1. /\ TypeOK /\ BatchInv /\ WorkerTypes /\ TableTypes /\ WorldTypes
      /\ Len(log) \in Nat /\ position \in Nat /\ Len(log) <= MaxPosition
      /\ next[w] \in Nat /\ upto[w] \in Nat
  BY TypeParts, Numbers DEF IInv, TypeOK
<1>2. UNCHANGED <<log, window, failures, received, todo>> /\ pc[w] = "observe" /\ next[w] < upto[w]
  BY DEF observe_ct
<1>3. p \in Nat /\ p <= Len(log) /\ p \in 0 .. MaxPosition /\ p \in 1 .. Len(log)
  BY <1>1, <1>2, Constants DEF BatchInv
<1>4. CASE LeaveBatch(w, "sleep") /\ UNCHANGED tables
  <2>1. "sleep" \in Pcs /\ todo' \in [Workers -> SUBSET (Positions \cup Windows)]
    BY <1>1, <1>2 DEF Pcs, WorkerTypes
  <2>2. /\ WorkerTypes' /\ BatchInv' /\ pc'[w] = "sleep" /\ \A v \in Workers : v # w => pc'[v] = pc[v]
    BY <1>1, <1>2, <1>4, <2>1, LeaveFacts
  <2>3. PostedInv'
    BY <1>2, <2>2, Unposted
  <2>4. failures' \in 0 .. MaxFailures
    BY <1>1, <1>2 DEF WorldTypes
  <2> QED BY <1>2, <1>4, <2>2, <2>3, <2>4, IdleInv
<1>5. ASSUME next' = [next EXCEPT ![w] = p], UNCHANGED <<pc, upto, gap>>
      PROVE  WorkerTypes' /\ BatchInv' /\ PostedInv'
  <2>1. WorkerTypes' /\ \A v \in Workers : next'[v] \in {next[v], p}
    BY <1>1, <1>2, <1>3, <1>5 DEF WorkerTypes
  <2>2. BatchInv'
    BY <1>1, <1>2, <1>3, <1>5, <2>1 DEF BatchInv
  <2> QED BY <1>2, <1>5, <2>1, <2>2, Unposted
<1>6. CASE next' = [next EXCEPT ![w] = p] /\ UNCHANGED <<tables, pc, upto, gap>>
  <2>1. failures' \in 0 .. MaxFailures
    BY <1>1, <1>2 DEF WorldTypes
  <2> QED BY <1>2, <1>5, <1>6, <2>1, IdleInv
<1>7. CASE /\ p = position + 1 /\ next' = [next EXCEPT ![w] = p] /\ position' = p /\ stale' = FALSE
           /\ observed' = Append(observed, log[p])
           /\ alert' = [alert EXCEPT ![p] = IF log[p] \in inventory THEN @ ELSE "pending"]
           /\ UNCHANGED <<inventory, lagAlert, pc, upto, gap>>
  <2>1. p \in Positions /\ log[p] \in Certs
    BY <1>1, <1>3 DEF Positions, WorldTypes
  <2>2. /\ alert' \in [Positions -> Status]
        /\ \A q \in Positions : q # p => alert'[q] = alert[q]
        /\ alert'[p] = IF log[p] \in inventory THEN alert[p] ELSE "pending"
    BY <1>1, <1>7, <2>1 DEF TableTypes, Status
  <2>3. TableTypes'
    <3>1. observed' \in Seq(Certs) /\ Len(observed') = p
      BY <1>1, <1>3, <1>7, <2>1 DEF TableTypes
    <3>2. position' \in 0 .. Len(log') /\ Len(observed') = position'
      <4> HIDE DEF p
      <4> QED BY <1>1, <1>2, <1>3, <1>7, <3>1
    <3>3. stale' \in BOOLEAN
      BY <1>7
    <3> QED BY <1>1, <1>7, <2>2, <3>1, <3>2, <3>3 DEF TableTypes
  <2>4. TypeOK'
    BY <1>1, <1>2, <1>5, <1>7, <2>3 DEF TypeOK, WorkerTypes, TableTypes, WorldTypes, Pcs
  <2>5. NoIssuanceMissed'
    <3> SUFFICES ASSUME NEW q \in 1 .. p, log[q] \notin inventory PROVE alert'[q] # "none"
      BY <1>2, <1>7 DEF NoIssuanceMissed
    <3>1. CASE q = p
      BY <2>2, <3>1
    <3>2. CASE q # p
      <4>1. q \in 1 .. position /\ q \in Positions
        <5>1. q \in Nat /\ 1 <= q /\ q <= p
          BY <1>3
        <5>2. q <= position
          BY <1>1, <1>3, <1>7, <3>2, <5>1
        <5>3. position <= MaxPosition
          BY <1>1, Constants DEF TableTypes
        <5> QED BY <1>1, <5>1, <5>2, <5>3, Constants DEF Positions
      <4> QED BY <2>2, <3>2, <4>1 DEF IInv, NoIssuanceMissed
    <3> QED BY <3>1, <3>2
  <2>6. DeliveredWasReceived'
    <3>1. \A q \in Positions : alert'[q] = "delivered" => alert[q] = "delivered"
      BY <2>2
    <3> QED BY <1>2, <1>7, <3>1 DEF IInv, DeliveredWasReceived
  <2> QED BY <1>5, <1>7, <2>4, <2>5, <2>6 DEF IInv
<1> QED BY <1>4, <1>6, <1>7 DEF observe_ct
(* mark_ct_feed_healthy and queue_ct_lag_alert.                            *)
LEMMA HealthInv ==
  ASSUME IInv, NEW w \in Workers, mark_ct_feed_healthy(w) \/ queue_ct_lag_alert(w)
  PROVE  IInv'
<1>1. TypeOK /\ BatchInv /\ WorkerTypes /\ TableTypes /\ WorldTypes
  BY TypeParts DEF IInv
<1>2. UNCHANGED <<log, window, failures, inventory, position, observed, alert, received, todo>>
  BY DEF mark_ct_feed_healthy, queue_ct_lag_alert
<1>3. todo' \in [Workers -> SUBSET (Positions \cup Windows)]
  BY <1>1, <1>2 DEF WorkerTypes
<1>4. /\ WorkerTypes' /\ BatchInv'
      /\ \A v \in Workers : pc'[v] \in {"mark", "lagmark"} => pc'[v] = pc[v]
  <2>1. CASE mark_ct_feed_healthy(w)
    <3>1. PICK l \in {"lag", "sleep"} : LeaveBatch(w, l)
      BY <2>1 DEF mark_ct_feed_healthy
    <3>2. l \in Pcs
      BY DEF Pcs
    <3>3. WorkerTypes' /\ BatchInv' /\ pc'[w] = l /\ \A v \in Workers : v # w => pc'[v] = pc[v]
      BY <1>1, <1>2, <1>3, <3>1, <3>2, LeaveFacts
    <3> QED BY <3>3
  <2>2. CASE queue_ct_lag_alert(w)
    <3>1. Goto(w, "alerts") /\ UNCHANGED <<next, upto, gap>> /\ "alerts" \in Pcs
      BY <2>2 DEF queue_ct_lag_alert, Pcs
    <3>2. WorkerTypes' /\ pc'[w] = "alerts" /\ \A v \in Workers : v # w => pc'[v] = pc[v]
      BY <1>1, <1>3, <3>1, GotoFacts
    <3>3. BatchInv'
      BY <1>1, <1>2, <3>1 DEF BatchInv
    <3> QED BY <3>2, <3>3
  <2> QED BY <2>1, <2>2
<1>5. PostedInv'
  BY <1>2, <1>4, Unposted
<1>6. stale' \in BOOLEAN
  <2>1. UNCHANGED stale \/ stale' = FALSE
    BY DEF mark_ct_feed_healthy, queue_ct_lag_alert
  <2> QED BY <1>1, <2>1 DEF TableTypes
<1>7. /\ lagAlert' \in [Windows -> Status]
      /\ \A k \in Windows : lagAlert'[k] = "delivered" => lagAlert[k] = "delivered"
  <2>1. \/ UNCHANGED lagAlert
        \/ lagAlert' = [lagAlert EXCEPT ![window] =
                          IF stale /\ lagAlert[window] = "none" THEN "pending" ELSE lagAlert[window]]
    BY DEF mark_ct_feed_healthy, queue_ct_lag_alert
  <2>2. window \in Windows
    BY <1>1 DEF WorldTypes
  <2> QED BY <1>1, <2>1, <2>2 DEF TableTypes, Status
<1>8. TypeOK'
  BY <1>1, <1>2, <1>4, <1>6, <1>7 DEF TypeOK, WorkerTypes, TableTypes, WorldTypes, Pcs
<1>9. NoIssuanceMissed'
  BY <1>2, StillSeen DEF IInv
<1>10. DeliveredWasReceived'
  BY <1>2, <1>7 DEF IInv, DeliveredWasReceived
<1> QED BY <1>4, <1>5, <1>8, <1>9, <1>10 DEF IInv

-----------------------------------------------------------------------------
(***************************************************************************)
(* Alerts: read, posted, marked.                                           *)
(***************************************************************************)
LEMMA PendingInv ==
  ASSUME IInv, NEW w \in Workers, pending_ct_alerts(w) \/ pending_ct_lag_alerts(w)
  PROVE  IInv'
<1>1. TypeOK /\ BatchInv /\ WorkerTypes /\ failures \in 0 .. MaxFailures
  BY TypeParts DEF IInv, TypeOK
<1>2. UNCHANGED <<world, tables, received, next, upto, gap>>
  BY DEF pending_ct_alerts, pending_ct_lag_alerts
<1>3. PICK S \in SUBSET (Positions \cup Windows) : todo' = [todo EXCEPT ![w] = S]
  BY DEF pending_ct_alerts, pending_ct_lag_alerts, First
<1>4. PICK l \in {"post", "lagpost"} : Goto(w, l)
  BY DEF pending_ct_alerts, pending_ct_lag_alerts
<1>5. /\ todo' \in [Workers -> SUBSET (Positions \cup Windows)]
      /\ \A v \in Workers : v # w => todo'[v] = todo[v]
  BY <1>1, <1>3 DEF WorkerTypes
<1>6. WorkerTypes' /\ pc'[w] = l /\ \A v \in Workers : v # w => pc'[v] = pc[v]
  <2>1. l \in Pcs
    BY DEF Pcs
  <2> QED BY <1>1, <1>2, <1>4, <1>5, <2>1, GotoFacts
<1>7. BatchInv' /\ PostedInv'
  <2>1. BatchInv'
    BY <1>1, <1>2 DEF BatchInv
  <2>2. \A v \in Workers : pc'[v] \in {"mark", "lagmark"} => pc'[v] = pc[v] /\ todo'[v] = todo[v]
    BY <1>5, <1>6
  <2> QED BY <1>2, <2>1, <2>2, Unposted
<1> QED BY <1>1, <1>2, <1>6, <1>7, IdleInv

LEMMA PostInv ==
  ASSUME IInv, NEW w \in Workers, post_alert(w)
  PROVE  IInv'
<1>1. TypeOK /\ BatchInv /\ WorkerTypes /\ failures \in 0 .. MaxFailures
  BY TypeParts DEF IInv, TypeOK
<1>2. UNCHANGED <<world, tables, next, upto, gap, todo>> /\ received \subseteq received'
  BY DEF post_alert
<1>3. \/ Goto(w, "mark") /\ <<"ct", Min(todo[w])>> \in received'
      \/ Goto(w, "lagmark") /\ <<"ct-lag", Min(todo[w])>> \in received'
  BY DEF post_alert
<1>4. /\ WorkerTypes' /\ \A v \in Workers : v # w => pc'[v] = pc[v]
      /\ pc'[w] = "mark" => <<"ct", Min(todo[w])>> \in received'
      /\ pc'[w] = "lagmark" => <<"ct-lag", Min(todo[w])>> \in received'
  <2>1. "mark" \in Pcs /\ "lagmark" \in Pcs
    BY DEF Pcs
  <2>2. todo' \in [Workers -> SUBSET (Positions \cup Windows)]
    BY <1>1, <1>2 DEF WorkerTypes
  <2> QED BY <1>1, <1>2, <1>3, <2>1, <2>2, GotoFacts
<1>5. PostedInv'
  BY <1>2, <1>4 DEF IInv, PostedInv
<1>6. BatchInv'
  BY <1>1, <1>2 DEF BatchInv
<1> QED BY <1>1, <1>2, <1>4, <1>5, <1>6, IdleInv

LEMMA MarkInv ==
  ASSUME IInv, NEW w \in Workers, mark_ct_alert_delivered(w)
  PROVE  IInv'
<1> DEFINE m == Min(todo[w])
<1>1. TypeOK /\ BatchInv /\ WorkerTypes /\ TableTypes /\ WorldTypes
  BY TypeParts DEF IInv
<1>2. /\ UNCHANGED <<world, inventory, position, stale, observed, received, next, upto, gap>>
      /\ todo' = [todo EXCEPT ![w] = todo[w] \ {m}]
  BY DEF mark_ct_alert_delivered
<1>3. \/ /\ pc[w] = "mark" /\ Goto(w, "post") /\ UNCHANGED lagAlert
         /\ alert' = [alert EXCEPT ![m] = "delivered"]
      \/ /\ pc[w] = "lagmark" /\ Goto(w, "lagpost") /\ UNCHANGED alert
         /\ lagAlert' = [lagAlert EXCEPT ![m] = "delivered"]
  BY DEF mark_ct_alert_delivered
<1> HIDE DEF m
<1>4. /\ todo' \in [Workers -> SUBSET (Positions \cup Windows)]
      /\ \A v \in Workers : v # w => todo'[v] = todo[v]
  BY <1>1, <1>2 DEF WorkerTypes
<1>5. /\ WorkerTypes' /\ \A v \in Workers : v # w => pc'[v] = pc[v]
      /\ pc'[w] \in {"post", "lagpost"}
  <2>1. "post" \in Pcs /\ "lagpost" \in Pcs
    BY DEF Pcs
  <2> QED BY <1>1, <1>2, <1>3, <1>4, <2>1, GotoFacts
<1>6. PostedInv' /\ BatchInv'
  <2>1. \A v \in Workers : pc'[v] \in {"mark", "lagmark"} => pc'[v] = pc[v] /\ todo'[v] = todo[v]
    BY <1>4, <1>5
  <2>2. BatchInv'
    BY <1>1, <1>2 DEF BatchInv
  <2> QED BY <1>2, <2>1, <2>2, Unposted
<1>7. /\ pc[w] = "mark" => <<"ct", m>> \in received
      /\ pc[w] = "lagmark" => <<"ct-lag", m>> \in received
  BY DEF IInv, PostedInv, m
<1>8. /\ alert' \in [Positions -> Status] /\ lagAlert' \in [Windows -> Status]
      /\ \A p \in Positions : alert'[p] = alert[p] \/ (p = m /\ pc[w] = "mark" /\ alert'[p] = "delivered")
      /\ \A k \in Windows : lagAlert'[k] = lagAlert[k] \/ (k = m /\ pc[w] = "lagmark")
  BY <1>1, <1>3 DEF TableTypes, Status
<1>9. TypeOK'
  BY <1>1, <1>2, <1>5, <1>8 DEF TypeOK, WorkerTypes, TableTypes, WorldTypes, Pcs
<1>10. NoIssuanceMissed'
  BY <1>2, <1>8, StillSeen DEF IInv
<1>11. DeliveredWasReceived'
  BY <1>2, <1>7, <1>8 DEF IInv, DeliveredWasReceived
<1> QED BY <1>5, <1>6, <1>9, <1>10, <1>11 DEF IInv

-----------------------------------------------------------------------------
(***************************************************************************)
(* The invariant and what follows from it.                                 *)
(***************************************************************************)
LEMMA InvInit == Init => IInv
<1> SUFFICES ASSUME Init PROVE IInv
  OBVIOUS
<1>1. log = <<>> /\ observed = <<>> /\ Len(log) = 0 /\ Len(observed) = 0 /\ position = 0
      /\ log \in Seq(Certs) /\ observed \in Seq(Certs)
  BY DEF Init
<1>2. TypeOK
  <2>1. alert \in [Positions -> Status] /\ lagAlert \in [Windows -> Status]
    BY DEF Init, Status
  <2>2. WorkerTypes
    BY Constants DEF Init, WorkerTypes, Pcs
  <2>3. inventory \subseteq Own /\ stale \in BOOLEAN
    BY DEF Init
  <2>4. TableTypes
    BY <1>1, <2>1, <2>3 DEF TableTypes
  <2>5. window \in Windows /\ failures \in 0 .. MaxFailures /\ 0 <= MaxPosition
    BY Constants DEF Init, Windows
  <2>6. WorldTypes
    BY <1>1, <2>5 DEF WorldTypes
  <2> QED BY <2>2, <2>4, <2>6, TypeParts
<1>3. BatchInv /\ NoIssuanceMissed /\ PostedInv /\ DeliveredWasReceived
  BY <1>1 DEF Init, BatchInv, NoIssuanceMissed, PostedInv, DeliveredWasReceived
<1> QED BY <1>2, <1>3 DEF IInv

LEMMA InvStep ==
  ASSUME IInv, [Next]_vars
  PROVE  IInv'
<1>1. CASE UNCHANGED vars
  <2>1. TypeOK' /\ BatchInv' /\ NoIssuanceMissed' /\ DeliveredWasReceived'
    BY <1>1 DEF vars, IInv, TypeOK, BatchInv, NoIssuanceMissed, DeliveredWasReceived
  <2>2. PostedInv'
    BY <1>1, Unposted DEF vars
  <2> QED BY <2>1, <2>2 DEF IInv
<1>2. ASSUME NEW w \in Workers, TickStep(w) \/ tick_fails(w) PROVE IInv'
  BY <1>2, BatchSteps, ObserveInv, HealthInv, PendingInv, PostInv, MarkInv DEF TickStep
<1> QED BY <1>1, <1>2, WorldInv DEF Next

LEMMA Invariant == Spec => []IInv
BY InvInit, InvStep, PTL DEF Spec

(* Whatever batches overlap, fail or are replayed, an entry at or below    *)
(* the checkpoint that no Broker has reported has an alert.                *)
THEOREM NothingMissed == Spec => []NoIssuanceMissed
BY Invariant, PTL DEF IInv

(* An alert is marked delivered only once the sink has accepted its key.   *)
THEOREM DeliveredReceived == Spec => []DeliveredWasReceived
BY Invariant, PTL DEF IInv
-----------------------------------------------------------------------------
(***************************************************************************)
(* What the sink hears. A worker posts the least of the alerts it read, so *)
(* this part needs that a set of numbers has a least element.              *)
(***************************************************************************)
(* The sink is never sent anything but an alert that was queued: for an    *)
(* entry the checkpoint has passed, or for a quarter hour that has begun.  *)
SinkHearsOnlyAlerts ==
  \A x \in received :
    \/ \E p \in Positions : x = <<"ct", p>> /\ alert[p] # "none" /\ p <= position
    \/ \E k \in Windows : x = <<"ct-lag", k>> /\ lagAlert[k] # "none" /\ k <= window

QueuedInv ==
  /\ \A p \in Positions : alert[p] # "none" => p <= position
  /\ \A k \in Windows : lagAlert[k] # "none" => k <= window

(* What a worker has in hand it read from the queue.                       *)
HandInv ==
  \A w \in Workers :
    /\ pc[w] \in {"post", "mark"} => \A p \in todo[w] : p \in Positions /\ alert[p] # "none"
    /\ pc[w] \in {"lagpost", "lagmark"} => \A k \in todo[w] : k \in Windows /\ lagAlert[k] # "none"

SinkInv == IInv /\ QueuedInv /\ HandInv /\ SinkHearsOnlyAlerts

LEMMA MinMember ==
  ASSUME NEW S, S \subseteq Nat, S # {}
  PROVE  Min(S) \in S
<1>1. \E m \in S : \A k \in S : m <= k
  BY Least
<1> QED BY <1>1 DEF Min

(* Neither the checkpoint nor the clock nor an alert goes back.            *)
LEMMA Forward ==
  ASSUME SinkInv, [Next]_vars
  PROVE  /\ position' >= position /\ window' >= window
         /\ \A p \in Positions :
              /\ alert[p] # "none" => alert'[p] # "none"
              /\ alert'[p] # "none" => alert[p] # "none" \/ p = position'
         /\ \A k \in Windows :
              /\ lagAlert[k] # "none" => lagAlert'[k] # "none"
              /\ lagAlert'[k] # "none" => lagAlert[k] # "none" \/ k = window
<1> DEFINE Still == UNCHANGED <<position, window, alert, lagAlert>>
<1>1. /\ alert \in [Positions -> Status] /\ lagAlert \in [Windows -> Status]
      /\ position \in Nat /\ window \in Nat
  BY Numbers, Constants DEF SinkInv, IInv, TypeOK, Windows
<1>2. CASE Still
  BY <1>1, <1>2
<1>3. CASE window_turns
  BY <1>1, <1>3 DEF window_turns
<1>4. ASSUME NEW w \in Workers, observe_ct(w), ~ Still
      PROVE  /\ position' >= position /\ UNCHANGED <<window, lagAlert>>
             /\ \A p \in Positions :
                  /\ alert[p] # "none" => alert'[p] # "none"
                  /\ alert'[p] # "none" => alert[p] # "none" \/ p = position'
  <2>1. /\ UNCHANGED <<window, lagAlert>> /\ position' = position + 1
        /\ alert' = [alert EXCEPT ![position'] = IF log[position'] \in inventory
                                                 THEN alert[position'] ELSE "pending"]
    BY <1>4 DEF observe_ct
  <2> QED BY <1>1, <2>1
<1>5. ASSUME NEW w \in Workers, queue_ct_lag_alert(w)
      PROVE  /\ UNCHANGED <<position, window, alert>>
             /\ \A k \in Windows :
                  /\ lagAlert[k] # "none" => lagAlert'[k] # "none"
                  /\ lagAlert'[k] # "none" => lagAlert[k] # "none" \/ k = window
  BY <1>1, <1>5 DEF queue_ct_lag_alert
<1>6. ASSUME NEW w \in Workers, mark_ct_alert_delivered(w)
      PROVE  /\ UNCHANGED <<position, window>>
             /\ \A p \in Positions : alert[p] # "none" <=> alert'[p] # "none"
             /\ \A k \in Windows : lagAlert[k] # "none" <=> lagAlert'[k] # "none"
  <2> DEFINE m == Min(todo[w])
  <2>1. CASE /\ pc[w] = "mark" /\ UNCHANGED <<position, window, lagAlert>>
             /\ alert' = [alert EXCEPT ![m] = "delivered"]
    <3>1. <<"ct", m>> \in received
      BY <2>1 DEF SinkInv, IInv, PostedInv
    <3> HIDE DEF m
    <3>2. m \in Positions /\ alert[m] # "none"
      BY <3>1 DEF SinkInv, SinkHearsOnlyAlerts
    <3> QED BY <1>1, <2>1, <3>2
  <2>2. CASE /\ pc[w] = "lagmark" /\ UNCHANGED <<position, window, alert>>
             /\ lagAlert' = [lagAlert EXCEPT ![m] = "delivered"]
    <3>1. <<"ct-lag", m>> \in received
      BY <2>2 DEF SinkInv, IInv, PostedInv
    <3> HIDE DEF m
    <3>2. m \in Windows /\ lagAlert[m] # "none"
      BY <3>1 DEF SinkInv, SinkHearsOnlyAlerts
    <3> QED BY <1>1, <2>2, <3>2
  <2> QED BY <1>6, <2>1, <2>2 DEF mark_ct_alert_delivered
<1>7. ASSUME NEW w \in Workers,
             \/ tick(w) \/ Fetched(w) \/ mark_ct_feed_healthy(w)
             \/ pending_ct_alerts(w) \/ pending_ct_lag_alerts(w)
             \/ post_alert(w) \/ tick_ends(w) \/ tick_fails(w)
      PROVE  Still
  BY <1>7 DEF tick, Fetched, fetch, fetch_unavailable, mark_ct_feed_healthy, pending_ct_alerts,
              pending_ct_lag_alerts, post_alert, tick_ends, tick_fails
<1>8. ASSUME NEW c \in Certs, feed_grows(c) \/ record_expected_certificate(c)
      PROVE  Still
  BY <1>8 DEF feed_grows, record_expected_certificate
<1>9. CASE feed_ages
  BY <1>2, <1>9 DEF feed_ages
<1>10. CASE UNCHANGED vars
  BY <1>2, <1>10 DEF vars
<1> HIDE DEF Still
<1>11. ASSUME NEW w \in Workers, TickStep(w) \/ tick_fails(w)
       PROVE  \/ Still \/ (observe_ct(w) /\ ~ Still)
              \/ queue_ct_lag_alert(w) \/ mark_ct_alert_delivered(w)
  BY <1>7, <1>11 DEF TickStep
<1>12. ASSUME NEW w \in Workers,
              \/ Still \/ (observe_ct(w) /\ ~ Still)
              \/ queue_ct_lag_alert(w) \/ mark_ct_alert_delivered(w)
       PROVE  /\ position' >= position /\ window' >= window
              /\ \A p \in Positions :
                   /\ alert[p] # "none" => alert'[p] # "none"
                   /\ alert'[p] # "none" => alert[p] # "none" \/ p = position'
              /\ \A k \in Windows :
                   /\ lagAlert[k] # "none" => lagAlert'[k] # "none"
                   /\ lagAlert'[k] # "none" => lagAlert[k] # "none" \/ k = window
  BY <1>1, <1>2, <1>4, <1>5, <1>6, <1>12
<1> QED BY <1>2, <1>3, <1>8, <1>9, <1>10, <1>11, <1>12 DEF Next

LEMMA QueuedStep ==
  ASSUME SinkInv, [Next]_vars
  PROVE  QueuedInv'
<1>1. position \in Nat /\ window \in Nat /\ position' \in Nat /\ window' \in Nat
  <2>1. IInv /\ IInv'
    BY InvStep DEF SinkInv
  <2>2. TypeOK /\ TypeOK'
    BY <2>1 DEF IInv
  <2>3. log \in Seq(Certs) /\ log' \in Seq(Certs)
    BY <2>2 DEF TypeOK
  <2>4. Len(log) \in Nat /\ Len(log)' \in Nat
    BY <2>3
  <2> QED BY <2>2, <2>4, Constants DEF TypeOK, Windows
<1>2. Positions \subseteq Nat /\ Windows \subseteq Nat
  BY Constants DEF Positions, Windows
<1>3. ASSUME NEW p \in Positions, alert'[p] # "none" PROVE p <= position'
  <2>1. CASE p = position'
    BY <1>1, <2>1
  <2>2. CASE alert[p] # "none"
    BY <1>1, <1>2, <2>2, Forward DEF SinkInv, QueuedInv
  <2> QED BY <1>3, <2>1, <2>2, Forward
<1>4. ASSUME NEW k \in Windows, lagAlert'[k] # "none" PROVE k <= window'
  <2>1. k <= window
    <3>1. CASE k = window
      BY <1>1, <3>1
    <3>2. CASE lagAlert[k] # "none"
      BY <3>2 DEF SinkInv, QueuedInv
    <3> QED BY <1>4, <3>1, <3>2, Forward
  <2> QED BY <1>1, <1>2, <2>1, Forward
<1> QED BY <1>3, <1>4 DEF QueuedInv

(* A worker comes by what it has in hand only by reading the queue.        *)
LEMMA HandMoves ==
  ASSUME IInv, [Next]_vars, NEW v \in Workers,
         pc'[v] \in {"post", "mark", "lagpost", "lagmark"}
  PROVE  \/ todo'[v] \subseteq todo[v] /\ pc[v] \in {"post", "mark"} /\ pc'[v] \in {"post", "mark"}
         \/ /\ todo'[v] \subseteq todo[v]
            /\ pc[v] \in {"lagpost", "lagmark"} /\ pc'[v] \in {"lagpost", "lagmark"}
         \/ pc'[v] = "post" /\ \A p \in todo'[v] : p \in Positions /\ alert'[p] # "none"
         \/ pc'[v] = "lagpost" /\ \A k \in todo'[v] : k \in Windows /\ lagAlert'[k] # "none"
<1>1. pc \in [Workers -> Pcs] /\ todo \in [Workers -> SUBSET (Positions \cup Windows)]
  BY TypeParts DEF IInv, WorkerTypes
<1>2. CASE pc'[v] = pc[v] /\ todo'[v] = todo[v]
  BY <1>2
<1>3. ASSUME NEW w \in Workers, NEW l \in {"sleep", "fetch", "observe", "lag", "alerts"},
             Goto(w, l), UNCHANGED todo \/ todo' = [todo EXCEPT ![w] = {}]
      PROVE  pc'[v] = pc[v] /\ todo'[v] = todo[v]
  BY <1>1, <1>3 DEF Goto
<1>4. ASSUME NEW w \in Workers,
             \/ tick(w) \/ Fetched(w) \/ mark_ct_feed_healthy(w) \/ queue_ct_lag_alert(w)
             \/ tick_ends(w) \/ tick_fails(w)
      PROVE  pc'[v] = pc[v] /\ todo'[v] = todo[v]
  BY <1>3, <1>4 DEF tick, Fetched, fetch, fetch_unavailable, mark_ct_feed_healthy,
                    queue_ct_lag_alert, tick_ends, tick_fails, LeaveBatch
<1>5. ASSUME NEW w \in Workers, observe_ct(w)
      PROVE  pc'[v] = pc[v] /\ todo'[v] = todo[v]
  <2>1. UNCHANGED todo /\ (UNCHANGED pc \/ Goto(w, "sleep"))
    BY <1>5 DEF observe_ct, LeaveBatch
  <2> QED BY <1>3, <2>1
<1>6. ASSUME NEW w \in Workers, pending_ct_alerts(w), v = w
      PROVE  pc'[v] = "post" /\ \A p \in todo'[v] : p \in Positions /\ alert'[p] # "none"
  BY <1>1, <1>6 DEF pending_ct_alerts, First, Goto
<1>7. ASSUME NEW w \in Workers, pending_ct_lag_alerts(w), v = w
      PROVE  pc'[v] = "lagpost" /\ \A k \in todo'[v] : k \in Windows /\ lagAlert'[k] # "none"
  BY <1>1, <1>7 DEF pending_ct_lag_alerts, First, Goto
<1>8. ASSUME NEW w \in Workers, post_alert(w) \/ mark_ct_alert_delivered(w), v = w
      PROVE  /\ todo'[v] \subseteq todo[v]
             /\ \/ pc[v] \in {"post", "mark"} /\ pc'[v] \in {"post", "mark"}
                \/ pc[v] \in {"lagpost", "lagmark"} /\ pc'[v] \in {"lagpost", "lagmark"}
  BY <1>1, <1>8 DEF post_alert, mark_ct_alert_delivered, Goto
<1>9. ASSUME NEW w \in Workers, v # w,
             \/ pending_ct_alerts(w) \/ pending_ct_lag_alerts(w)
             \/ post_alert(w) \/ mark_ct_alert_delivered(w)
      PROVE  pc'[v] = pc[v] /\ todo'[v] = todo[v]
  BY <1>1, <1>9 DEF pending_ct_alerts, pending_ct_lag_alerts, post_alert,
                    mark_ct_alert_delivered, Goto
<1>10. ASSUME NEW c \in Certs, feed_grows(c) \/ record_expected_certificate(c)
       PROVE  pc'[v] = pc[v] /\ todo'[v] = todo[v]
  BY <1>10 DEF feed_grows, record_expected_certificate
<1>11. CASE window_turns \/ feed_ages \/ UNCHANGED vars
  BY <1>2, <1>11 DEF window_turns, feed_ages, vars
<1>12. ASSUME NEW w \in Workers, TickStep(w) \/ tick_fails(w)
       PROVE  \/ pc'[v] = pc[v] /\ todo'[v] = todo[v]
              \/ v = w /\ (pending_ct_alerts(w) \/ pending_ct_lag_alerts(w)
                            \/ post_alert(w) \/ mark_ct_alert_delivered(w))
  BY <1>4, <1>5, <1>9, <1>12 DEF TickStep
<1> QED BY <1>2, <1>6, <1>7, <1>8, <1>10, <1>11, <1>12 DEF Next

LEMMA HandStep ==
  ASSUME SinkInv, [Next]_vars
  PROVE  HandInv'
<1> SUFFICES ASSUME NEW v \in Workers
             PROVE  /\ pc'[v] \in {"post", "mark"} =>
                         \A p \in todo'[v] : p \in Positions /\ alert'[p] # "none"
                    /\ pc'[v] \in {"lagpost", "lagmark"} =>
                         \A k \in todo'[v] : k \in Windows /\ lagAlert'[k] # "none"
  BY DEF HandInv
<1>1. /\ pc[v] \in {"post", "mark"} => \A p \in todo[v] : p \in Positions /\ alert[p] # "none"
      /\ pc[v] \in {"lagpost", "lagmark"} => \A k \in todo[v] : k \in Windows /\ lagAlert[k] # "none"
  BY DEF SinkInv, HandInv
<1>2. /\ \A p \in Positions : alert[p] # "none" => alert'[p] # "none"
      /\ \A k \in Windows : lagAlert[k] # "none" => lagAlert'[k] # "none"
  BY Forward
<1> QED BY <1>1, <1>2, HandMoves DEF SinkInv

(* The key of a post is that of an alert in hand.                          *)
LEMMA PostedKey ==
  ASSUME SinkInv, NEW w \in Workers, post_alert(w)
  PROVE  \E x : /\ received' = received \cup {x}
                /\ \/ \E p \in Positions : x = <<"ct", p>> /\ alert[p] # "none"
                   \/ \E k \in Windows : x = <<"ct-lag", k>> /\ lagAlert[k] # "none"
<1> DEFINE m == Min(todo[w])
<1>1. todo[w] \subseteq Nat /\ todo[w] # {}
  BY Constants DEF SinkInv, IInv, TypeOK, post_alert, Positions, Windows
<1>2. m \in todo[w]
  BY <1>1, MinMember
<1>3. \/ pc[w] = "post" /\ received' = received \cup {<<"ct", m>>}
      \/ pc[w] = "lagpost" /\ received' = received \cup {<<"ct-lag", m>>}
  BY DEF post_alert
<1> HIDE DEF m
<1>4. CASE pc[w] = "post" /\ received' = received \cup {<<"ct", m>>}
  BY <1>2, <1>4 DEF SinkInv, HandInv
<1>5. CASE pc[w] = "lagpost" /\ received' = received \cup {<<"ct-lag", m>>}
  BY <1>2, <1>5 DEF SinkInv, HandInv
<1> QED BY <1>3, <1>4, <1>5

LEMMA SinkStep ==
  ASSUME SinkInv, [Next]_vars
  PROVE  SinkHearsOnlyAlerts'
<1>1. QueuedInv'
  BY QueuedStep
<1>2. /\ \A p \in Positions : alert[p] # "none" => alert'[p] # "none"
      /\ \A k \in Windows : lagAlert[k] # "none" => lagAlert'[k] # "none"
  BY Forward
<1>3. \A x \in received : \/ \E p \in Positions : x = <<"ct", p>> /\ alert[p] # "none"
                          \/ \E k \in Windows : x = <<"ct-lag", k>> /\ lagAlert[k] # "none"
  BY DEF SinkInv, SinkHearsOnlyAlerts
<1>4. \/ received' = received
      \/ \E x : /\ received' = received \cup {x}
               /\ \/ \E p \in Positions : x = <<"ct", p>> /\ alert[p] # "none"
                  \/ \E k \in Windows : x = <<"ct-lag", k>> /\ lagAlert[k] # "none"
  <2>1. ASSUME NEW w \in Workers, TickStep(w) \/ tick_fails(w), ~ post_alert(w)
        PROVE  received' = received
    BY <2>1 DEF TickStep, tick, Fetched, fetch, fetch_unavailable, observe_ct,
                mark_ct_feed_healthy, queue_ct_lag_alert, pending_ct_alerts,
                pending_ct_lag_alerts, mark_ct_alert_delivered, tick_ends, tick_fails
  <2>2. ASSUME NEW c \in Certs, feed_grows(c) \/ record_expected_certificate(c)
        PROVE  received' = received
    BY <2>2 DEF feed_grows, record_expected_certificate
  <2>3. CASE window_turns \/ feed_ages \/ UNCHANGED vars
    BY <2>3 DEF window_turns, feed_ages, vars
  <2> QED BY <2>1, <2>2, <2>3, PostedKey DEF Next
<1>5. \A x \in received' : \/ \E p \in Positions : x = <<"ct", p>> /\ alert[p] # "none"
                           \/ \E k \in Windows : x = <<"ct-lag", k>> /\ lagAlert[k] # "none"
  BY <1>3, <1>4
<1> QED BY <1>1, <1>2, <1>5 DEF QueuedInv, SinkHearsOnlyAlerts

(* No worker, replay or restart makes the sink hear of anything but a      *)
(* queued alert, for an entry at or below the checkpoint or a quarter hour *)
(* that has begun.                                                         *)
THEOREM SinkHears == Spec => []SinkHearsOnlyAlerts
<1>1. Init => SinkInv
  <2> SUFFICES ASSUME Init PROVE SinkInv
    OBVIOUS
  <2>1. QueuedInv /\ HandInv /\ SinkHearsOnlyAlerts
    BY DEF Init, QueuedInv, HandInv, SinkHearsOnlyAlerts
  <2> QED BY <2>1, InvInit DEF SinkInv
<1>2. SinkInv /\ [Next]_vars => SinkInv'
  BY InvStep, QueuedStep, HandStep, SinkStep DEF SinkInv
<1>3. SinkInv => SinkHearsOnlyAlerts
  BY DEF SinkInv
<1> QED BY <1>1, <1>2, <1>3, PTL DEF Spec
=============================================================================
