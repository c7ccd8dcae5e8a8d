------------------------------ MODULE CtMonitor ------------------------------
(***************************************************************************)
(* The Certificate Transparency monitor (bloom-relay-ct/src/main.rs) over  *)
(* the checkpoint, observation and alert tables of one source              *)
(* (bloom-relay-store/src/ct.rs).                                          *)
(*                                                                         *)
(* A tick is a sequence of awaits, each a step; an error at any of them    *)
(* ends the tick, and the process may die between any two. Two processes   *)
(* may run for the same source, as when one replaces the other:            *)
(*   sleep -> fetch -> observe* -> lag -> alerts -> (post -> mark)*        *)
(*         -> lagalerts -> (lagpost -> lagmark)* -> sleep                  *)
(***************************************************************************)
EXTENDS Naturals, Sequences, FiniteSets, FiniteSetsExt

CONSTANTS
  Workers,      \* processes of the monitor
  Certs,        \* certificates, by hostname and key fingerprint
  Own,          \* those for the name of an installation of this relay
  Malformed,    \* those whose hostname or fingerprint validation refuses
  Limit,        \* entries of a batch, and alerts of a delivery round (100)
  MaxPosition,  \* bound: entries the feed ever has
  MaxFailures,  \* bound: ticks that fail at an await or with their process
  MaxWindow     \* bound: quarter hours that ever begin

ASSUME CtAssumption ==
  /\ Own \subseteq Certs
  /\ Malformed \subseteq Certs
  /\ Limit \in Nat \ {0}
  /\ MaxPosition \in Nat
  /\ MaxWindow \in Nat
  /\ MaxFailures \in Nat

Positions == 1 .. MaxPosition
Windows   == 0 .. MaxWindow

VARIABLES
  log,        \* the entries the feed has, by position
  window,     \* the quarter hour of now()
  inventory,  \* certificate_inventory
  position,   \* ct_feed_checkpoints.position
  stale,      \* ct_feed_checkpoints.observed_at is over 15 minutes ago
  observed,   \* ct_observations: the certificate at each position
  alert,      \* ct_alerts, by position: "none", "pending" or "delivered"
  lagAlert,   \* ct_health_alerts, by time_window
  received,   \* the idempotency keys the sink has answered 202
  pc,         \* where each worker is in its tick
  next,       \* the last position each worker has handled
  upto,       \* the last position of its batch
  gap,        \* whether a position is missing after upto
  failures,   \* ticks that have failed
  todo        \* the alerts it has read and not delivered

world  == <<log, window, failures>>
tables == <<inventory, position, stale, observed, alert, lagAlert>>
worker == <<pc, next, upto, gap, todo>>
vars == <<world, tables, received, worker>>

(* Up to Limit smallest members of S: ORDER BY id LIMIT 100. Ids follow    *)
(* positions and windows.                                                  *)
First(S) == {n \in S : Cardinality({m \in S : m < n}) < Limit}

Goto(w, l) == pc' = [pc EXCEPT ![w] = l]

(* The tick leaves its batch behind, for its alerts or for good.           *)
LeaveBatch(w, l) ==
  /\ Goto(w, l)
  /\ next' = [next EXCEPT ![w] = 0]
  /\ upto' = [upto EXCEPT ![w] = 0]
  /\ gap' = [gap EXCEPT ![w] = FALSE]

-----------------------------------------------------------------------------
(***************************************************************************)
(* The world: issuance, the Broker's reports, the clock.                   *)
(***************************************************************************)
feed_grows(c) ==
  /\ Len(log) < MaxPosition
  /\ log' = Append(log, c)
  /\ UNCHANGED <<window, failures, tables, received, worker>>

record_expected_certificate(c) ==
  /\ c \in Own \ (Malformed \cup inventory)
  /\ inventory' = inventory \cup {c}
  /\ UNCHANGED <<world, position, stale, observed, alert, lagAlert, received, worker>>

(* A quarter hour begins.                                                  *)
window_turns ==
  /\ window < MaxWindow
  /\ window' = window + 1
  /\ UNCHANGED <<log, failures, tables, received, worker>>

(* 15 minutes have passed since the last observation or healthy batch.     *)
feed_ages ==
  /\ ~stale
  /\ stale' = TRUE
  /\ UNCHANGED <<world, inventory, position, observed, alert, lagAlert, received, worker>>

-----------------------------------------------------------------------------
(***************************************************************************)
(* A tick: the batch.                                                      *)
(***************************************************************************)
tick(w) ==
  /\ pc[w] = "sleep"
  /\ Goto(w, "fetch")
  /\ next' = [next EXCEPT ![w] = position]
  /\ UNCHANGED <<world, tables, received, upto, gap, todo>>

(* The feed's answer: a batch up to n, which may then skip a position.     *)
fetch(w, n, g) ==
  /\ pc[w] = "fetch"
  /\ n >= next[w]
  /\ n <= Len(log)
  /\ n - next[w] <= Limit
  /\ g => n < Len(log)
  /\ Goto(w, "observe")
  /\ upto' = [upto EXCEPT ![w] = n]
  /\ gap' = [gap EXCEPT ![w] = g]
  /\ UNCHANGED <<world, tables, received, next, todo>>

(* Slip: an outage of the feed ends the tick.                              *)
MutUnavailable(w) ==
  /\ pc[w] = "fetch"
  /\ LeaveBatch(w, "sleep")
  /\ UNCHANGED <<world, tables, received, todo>>

(* No answer, or one of another source or too long.                        *)
fetch_unavailable(w) ==
  /\ pc[w] = "fetch"
  /\ LeaveBatch(w, "lag")
  /\ UNCHANGED <<world, tables, received, todo>>

(* Slip: an entry that cannot be stored is passed over.                    *)
MutObserve(w) ==
  LET p == next[w] + 1 IN
  /\ pc[w] = "observe"
  /\ next[w] < upto[w]
  /\ next' = [next EXCEPT ![w] = p]
  /\ position' = Max({position, p})
  /\ stale' = FALSE
  /\ observed' = IF p > position THEN Append(observed, log[p]) ELSE observed
  /\ alert' = IF p > position /\ log[p] \notin inventory \cup Malformed
              THEN [alert EXCEPT ![p] = "pending"] ELSE alert
  /\ UNCHANGED <<world, inventory, lagAlert, received, pc, upto, gap, todo>>

(* observe_ct of the next entry: one transaction under the checkpoint row. *)
(* A replay must repeat what is stored and changes nothing; a refused      *)
(* entry, or one that is not the next, is an error and ends the tick.      *)
observe_ct(w) ==
  LET p        == next[w] + 1
      replayed == p <= position /\ observed[p] = log[p]
      fresh    == p = position + 1
      accepted == log[p] \notin Malformed /\ (replayed \/ fresh)
  IN
  /\ pc[w] = "observe"
  /\ next[w] < upto[w]
  /\ \/ /\ ~accepted
        /\ LeaveBatch(w, "sleep")
        /\ UNCHANGED tables
     \/ /\ accepted /\ replayed
        /\ next' = [next EXCEPT ![w] = p]
        /\ UNCHANGED <<tables, pc, upto, gap>>
     \/ /\ accepted /\ fresh
        /\ next' = [next EXCEPT ![w] = p]
        /\ position' = p
        /\ stale' = FALSE
        /\ observed' = Append(observed, log[p])
        /\ alert' = [alert EXCEPT ![p] = IF log[p] \in inventory THEN @ ELSE "pending"]
        /\ UNCHANGED <<inventory, lagAlert, pc, upto, gap>>
  /\ UNCHANGED <<world, received, todo>>

(* The batch is done; Conflict if the checkpoint has moved on, and no mark *)
(* after a gap.                                                            *)
mark_ct_feed_healthy(w) ==
  /\ pc[w] = "observe"
  /\ next[w] = upto[w]
  /\ \/ gap[w] /\ LeaveBatch(w, "lag") /\ UNCHANGED stale
     \/ ~gap[w] /\ position = next[w] /\ LeaveBatch(w, "lag") /\ stale' = FALSE
     \/ ~gap[w] /\ position # next[w] /\ LeaveBatch(w, "sleep") /\ UNCHANGED stale
  /\ UNCHANGED <<world, inventory, position, observed, alert, lagAlert, received, todo>>

-----------------------------------------------------------------------------
(***************************************************************************)
(* A tick: alerts.                                                         *)
(***************************************************************************)
(* One lag alert per quarter hour.                                         *)
queue_ct_lag_alert(w) ==
  /\ pc[w] = "lag"
  /\ lagAlert' = [lagAlert EXCEPT ![window] = IF stale /\ @ = "none" THEN "pending" ELSE @]
  /\ Goto(w, "alerts")
  /\ UNCHANGED <<world, inventory, position, stale, observed, alert, received,
                 next, upto, gap, todo>>

pending_ct_alerts(w) ==
  /\ pc[w] = "alerts"
  /\ todo' = [todo EXCEPT ![w] = First({p \in Positions : alert[p] = "pending"})]
  /\ Goto(w, "post")
  /\ UNCHANGED <<world, tables, received, next, upto, gap>>

(* Slip: only the lag alert of this quarter hour is read.                  *)
MutPendingLag(w) ==
  /\ pc[w] = "post"
  /\ todo[w] = {}
  /\ todo' = [todo EXCEPT ![w] = {k \in Windows : k = window /\ lagAlert[k] = "pending"}]
  /\ Goto(w, "lagpost")
  /\ UNCHANGED <<world, tables, received, next, upto, gap>>

pending_ct_lag_alerts(w) ==
  /\ pc[w] = "post"
  /\ todo[w] = {}
  /\ todo' = [todo EXCEPT ![w] = First({k \in Windows : lagAlert[k] = "pending"})]
  /\ Goto(w, "lagpost")
  /\ UNCHANGED <<world, tables, received, next, upto, gap>>

(* The sink answers 202 for the key of the first alert in hand.            *)
post_alert(w) ==
  /\ todo[w] # {}
  /\ \/ /\ pc[w] = "post"
        /\ Goto(w, "mark")
        /\ received' = received \cup {<<"ct", Min(todo[w])>>}
     \/ /\ pc[w] = "lagpost"
        /\ Goto(w, "lagmark")
        /\ received' = received \cup {<<"ct-lag", Min(todo[w])>>}
  /\ UNCHANGED <<world, tables, next, upto, gap, todo>>

(* Slip: the update names the source, not the alert.                       *)
MutMark(w) ==
  /\ \/ /\ pc[w] = "mark"
        /\ Goto(w, "post")
        /\ alert' = [p \in Positions |-> IF alert[p] = "pending" THEN "delivered" ELSE alert[p]]
        /\ UNCHANGED lagAlert
     \/ /\ pc[w] = "lagmark"
        /\ Goto(w, "lagpost")
        /\ lagAlert' = [lagAlert EXCEPT ![Min(todo[w])] = "delivered"]
        /\ UNCHANGED alert
  /\ todo' = [todo EXCEPT ![w] = @ \ {Min(@)}]
  /\ UNCHANGED <<world, inventory, position, stale, observed, received, next, upto, gap>>

mark_ct_alert_delivered(w) ==
  /\ \/ /\ pc[w] = "mark"
        /\ Goto(w, "post")
        /\ alert' = [alert EXCEPT ![Min(todo[w])] = "delivered"]
        /\ UNCHANGED lagAlert
     \/ /\ pc[w] = "lagmark"
        /\ Goto(w, "lagpost")
        /\ lagAlert' = [lagAlert EXCEPT ![Min(todo[w])] = "delivered"]
        /\ UNCHANGED alert
  /\ todo' = [todo EXCEPT ![w] = @ \ {Min(@)}]
  /\ UNCHANGED <<world, inventory, position, stale, observed, received, next, upto, gap>>

tick_ends(w) ==
  /\ pc[w] = "lagpost"
  /\ todo[w] = {}
  /\ Goto(w, "sleep")
  /\ UNCHANGED <<world, tables, received, next, upto, gap, todo>>

(* An await fails, before or after its effect, or the process dies.        *)
tick_fails(w) ==
  /\ pc[w] # "sleep"
  /\ LeaveBatch(w, "sleep")
  /\ todo' = [todo EXCEPT ![w] = {}]
  /\ failures < MaxFailures
  /\ failures' = failures + 1
  /\ UNCHANGED <<log, window, tables, received>>

-----------------------------------------------------------------------------
(* A source that ensure_ct_source has just inserted.                       *)
Init ==
  /\ log = <<>>
  /\ window = 0
  /\ failures = 0
  /\ inventory = {}
  /\ position = 0
  /\ stale = FALSE
  /\ observed = <<>>
  /\ alert = [p \in Positions |-> "none"]
  /\ lagAlert = [k \in Windows |-> "none"]
  /\ received = {}
  /\ pc = [w \in Workers |-> "sleep"]
  /\ next = [w \in Workers |-> 0]
  /\ upto = [w \in Workers |-> 0]
  /\ gap = [w \in Workers |-> FALSE]
  /\ todo = [w \in Workers |-> {}]

Fetched(w) ==
  fetch_unavailable(w) \/ \E n \in 0 .. MaxPosition, g \in BOOLEAN : fetch(w, n, g)

TickStep(w) ==
  \/ tick(w) \/ Fetched(w) \/ observe_ct(w) \/ mark_ct_feed_healthy(w)
  \/ queue_ct_lag_alert(w)
  \/ pending_ct_alerts(w) \/ pending_ct_lag_alerts(w)
  \/ post_alert(w) \/ mark_ct_alert_delivered(w)
  \/ tick_ends(w)

Next ==
  \/ \E c \in Certs : feed_grows(c) \/ record_expected_certificate(c)
  \/ window_turns
  \/ feed_ages
  \/ \E w \in Workers : TickStep(w) \/ tick_fails(w)

Spec == Init /\ [][Next]_vars

(* The loop of main never ends, and the database and the sink come back    *)
(* after the failures that MaxFailures counts. The feed may stay away for  *)
(* ever.                                                                   *)
Fairness == \A w \in Workers : WF_vars(TickStep(w))

FairSpec == Spec /\ Fairness

-----------------------------------------------------------------------------
(***************************************************************************)
(* Properties.                                                             *)
(***************************************************************************)
Status == {"none", "pending", "delivered"}

(* Every variable keeps the shape its table or task gives it, and the      *)
(* checkpoint is the length of what was observed.                          *)
TypeOK ==
  /\ log \in Seq(Certs) /\ Len(log) <= MaxPosition
  /\ window \in Windows
  /\ failures \in 0 .. MaxFailures
  /\ inventory \subseteq Own
  /\ position \in 0 .. Len(log)
  /\ stale \in BOOLEAN
  /\ observed \in Seq(Certs) /\ Len(observed) = position
  /\ alert \in [Positions -> Status]
  /\ lagAlert \in [Windows -> Status]
  /\ pc \in [Workers -> {"sleep", "fetch", "observe", "lag", "alerts", "post", "mark",
                         "lagpost", "lagmark"}]
  /\ next \in [Workers -> 0 .. MaxPosition]
  /\ upto \in [Workers -> 0 .. MaxPosition]
  /\ gap \in [Workers -> BOOLEAN]
  /\ todo \in [Workers -> SUBSET (Positions \cup Windows)]

(* Nothing below the checkpoint goes unnoticed: whatever the workers'      *)
(* batches, failures and replays, a certificate the feed has shown and     *)
(* no Broker has reported has an alert, pending or delivered.              *)
NoIssuanceMissed ==
  \A p \in 1 .. position : log[p] \notin inventory => alert[p] # "none"

(* An alert counts as delivered only if the sink has accepted it, whatever *)
(* the other worker queued or marked in the meantime.                      *)
DeliveredWasReceived ==
  /\ \A p \in Positions : alert[p] = "delivered" => <<"ct", p>> \in received
  /\ \A k \in Windows : lagAlert[k] = "delivered" => <<"ct-lag", k>> \in received

(* The feed's next entry is one that validation refuses: every tick that   *)
(* fetches it ends there, before its alerts.                               *)
Refused == position < Len(log) /\ log[position + 1] \in Malformed

(* 15 minutes without a successful batch queue a lag alert for the quarter *)
(* hour in which a tick finds them, unless the feed is back first: neither *)
(* an outage of the feed, nor the other worker, nor a failed tick takes it *)
(* away. The one exception is a refused entry.                             *)
LagIsReported ==
  \A k \in Windows :
    (stale /\ window = k) ~> (~stale \/ window # k \/ lagAlert[k] # "none" \/ Refused)

(* Every alert that is queued, of an issuance or of a lag, is delivered in *)
(* the end, whatever the feed and the other worker do, the same exception  *)
(* apart.                                                                  *)
AlertsAreDelivered ==
  /\ \A p \in Positions : (alert[p] = "pending") ~> (alert[p] = "delivered" \/ Refused)
  /\ \A k \in Windows : (lagAlert[k] = "pending") ~> (lagAlert[k] = "delivered" \/ Refused)
=============================================================================
