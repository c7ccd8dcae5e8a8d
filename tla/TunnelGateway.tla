---------------------------- MODULE TunnelGateway ----------------------------
(***************************************************************************)
(* Tunnels, tickets and browser streams: the gateways' control connections,*)
(* tunnel lifecycles and browser connections (bloom-relay/src/main.rs) over*)
(* the leases, bearers and generations of the store (bloom-relay-store).   *)
(*                                                                         *)
(* Every await of a handler ends a step: a lease may be fenced, a bearer   *)
(* rotated, an installation moved or a tunnel displaced between the read   *)
(* of one check and the effect that relies on it. A control connection     *)
(* serves its requests one after the other; connections, lifecycles and    *)
(* browsers run concurrently.                                              *)
(***************************************************************************)
EXTENDS Naturals

CONSTANTS
  Installations,
  Hosts,
  HostOf,        \* installations.hostname: fixed at allocation, unique
  Gateways,      \* gateway_id, which is also the placement it serves
  Conns,         \* control connections (slots; a closed one is reused)
  GatewayOf,     \* the gateway each control connection belongs to
  Browsers,      \* browser connections, each with the ticket it would mint
  SiteOf,        \* the gateway each browser connects to
  SniOf,         \* the host each browser asks for
  MaxGeneration  \* bound: generations per installation

ASSUME GatewayAssumption ==
  /\ {} \notin {Installations, Hosts, Gateways, Browsers}
  /\ HostOf \in [Installations -> Hosts]
  /\ \A i, j \in Installations : HostOf[i] = HostOf[j] => i = j
  /\ GatewayOf \in [Conns -> Gateways]
  /\ SiteOf \in [Browsers -> Gateways]
  /\ SniOf \in [Browsers -> Hosts]
  /\ MaxGeneration \in Nat \ {0, 1}

VARIABLES
  active,      \* installations.state = 'dns_ready' (FALSE: retired)
  placement,   \* installations.placement
  generation,  \* installations.generation
  bearer,      \* the generation of the one unrevoked tunnel bearer
  lease,       \* tunnel_leases: the unexpired row, if any
  tunnels,     \* Gateway.tunnels of each gateway
  tickets,     \* Gateway.tickets of each gateway
  pc,          \* where each control connection is
  req,         \* the request each control connection is serving
  lifecycles,  \* tunnel_lifecycle tasks
  browser      \* browser_connection tasks

store   == <<active, placement, generation, bearer, lease>>
control == <<pc, req>>
vars == <<store, tunnels, tickets, control, lifecycles, browser>>

Generations == 0 .. MaxGeneration

(* A lease or a tunnel entry that is not there has generation 0; claimed   *)
(* generations are positive. req[c].stale, browser[b].stale, browser[b].via *)
(* and the bearer of a lease are history: nothing reads them.              *)
NoLease  == [generation |-> 0, gateway |-> CHOOSE g \in Gateways : TRUE, bearer |-> 0]
NoTunnel == [id |-> CHOOSE i \in Installations : TRUE, generation |-> 0]
NoReq == [id |-> CHOOSE i \in Installations : TRUE, generation |-> 0,
          ticket |-> CHOOSE b \in Browsers : TRUE, authority |-> CHOOSE h \in Hosts : TRUE,
          bearer |-> 0, stale |-> FALSE]
NewBrowser == [pc |-> "new", tunnel |-> NoTunnel, via |-> NoTunnel, stale |-> FALSE]

-----------------------------------------------------------------------------
(***************************************************************************)
(* The store.                                                              *)
(***************************************************************************)
tunnel_is_current(i, g, n) ==
  n > 0 /\ lease[i].generation = n /\ lease[i].gateway = g

(* issue_bearer or renew_bearer of the tunnel scope: the old bearer is     *)
(* revoked and the lease goes, in one transaction.                         *)
rotate_tunnel_bearer(i) ==
  /\ active[i]
  /\ generation[i] < MaxGeneration
  /\ generation' = [generation EXCEPT ![i] = @ + 1]
  /\ bearer' = [bearer EXCEPT ![i] = generation[i] + 1]
  /\ lease' = [lease EXCEPT ![i] = NoLease]
  /\ UNCHANGED <<active, placement, tunnels, tickets, control, lifecycles, browser>>

(* Another scope's bearer: the generation advances, the lease stays.       *)
rotate_other_bearer(i) ==
  /\ active[i]
  /\ generation[i] < MaxGeneration
  /\ generation' = [generation EXCEPT ![i] = @ + 1]
  /\ UNCHANGED <<active, placement, bearer, lease, tunnels, tickets, control, lifecycles, browser>>

relocate(i, g) ==
  /\ active[i]
  /\ placement[i] # g
  /\ generation[i] < MaxGeneration
  /\ placement' = [placement EXCEPT ![i] = g]
  /\ generation' = [generation EXCEPT ![i] = @ + 1]
  /\ lease' = [lease EXCEPT ![i] = NoLease]
  /\ UNCHANGED <<active, bearer, tunnels, tickets, control, lifecycles, browser>>

retire(i) ==
  /\ active[i]
  /\ generation[i] < MaxGeneration
  /\ active' = [active EXCEPT ![i] = FALSE]
  /\ generation' = [generation EXCEPT ![i] = @ + 1]
  /\ lease' = [lease EXCEPT ![i] = NoLease]
  /\ UNCHANGED <<placement, bearer, tunnels, tickets, control, lifecycles, browser>>

(* expires_at passes; every reader of the row asks for expires_at > now(). *)
lease_expires(i) ==
  /\ lease[i].generation > 0
  /\ lease' = [lease EXCEPT ![i] = NoLease]
  /\ UNCHANGED <<active, placement, generation, bearer, tunnels, tickets, control, lifecycles, browser>>

-----------------------------------------------------------------------------
(***************************************************************************)
(* Control connections: POST /v1/tunnel.                                   *)
(***************************************************************************)
Goto(c, l) == pc' = [pc EXCEPT ![c] = l]

(* The connection is done with the request and awaits the next one.        *)
Served(c) ==
  /\ Goto(c, "accept")
  /\ req' = [req EXCEPT ![c] = NoReq]

(* hostname and authenticate_bearer passed, for the bearer that is         *)
(* unrevoked now. A refused request is answered 401 and changes nothing.   *)
post_authenticate(c, i) ==
  /\ pc[c] = "accept"
  /\ active[i]
  /\ req' = [req EXCEPT ![c] = [NoReq EXCEPT !.id = i, !.bearer = bearer[i]]]
  /\ Goto(c, "claim")
  /\ UNCHANGED <<store, tunnels, tickets, lifecycles, browser>>

(* claim_tunnel: a transaction of its own that does not look at bearers.   *)
claim_tunnel(c) ==
  LET i == req[c].id IN
  /\ pc[c] = "claim"
  /\ active[i]
  /\ placement[i] = GatewayOf[c]
  /\ generation[i] < MaxGeneration
  /\ generation' = [generation EXCEPT ![i] = @ + 1]
  /\ lease' = [lease EXCEPT ![i] = [generation |-> generation[i] + 1,
                                     gateway |-> GatewayOf[c],
                                     bearer |-> req[c].bearer]]
  /\ req' = [req EXCEPT ![c].generation = generation[i] + 1]
  /\ Goto(c, "insert")
  /\ UNCHANGED <<active, placement, bearer, tunnels, tickets, lifecycles, browser>>

generation_can_replace(current, candidate) == current < candidate

Lifecycle(c, i, n) ==
  [conn |-> c, id |-> i, generation |-> n, pc |-> "run", stop |-> FALSE]

(* The lifecycle of a displaced entry sees its cancel flag.                *)
Cancelled(g, t) ==
  {IF GatewayOf[l.conn] = g /\ l.id = t.id /\ l.generation = t.generation
   THEN [l EXCEPT !.stop = TRUE] ELSE l : l \in lifecycles}

insert_tunnel(c) ==
  LET g == GatewayOf[c]
      h == HostOf[req[c].id]
      t == [id |-> req[c].id, generation |-> req[c].generation]
  IN
  /\ pc[c] = "insert"
  /\ \/ /\ generation_can_replace(tunnels[g][h].generation, t.generation)
        /\ tunnels' = [tunnels EXCEPT ![g][h] = t]
        /\ lifecycles' = Cancelled(g, tunnels[g][h]) \cup {Lifecycle(c, t.id, t.generation)}
     \/ /\ ~generation_can_replace(tunnels[g][h].generation, t.generation)   \* 409
        /\ UNCHANGED <<tunnels, lifecycles>>
  /\ Served(c)
  /\ UNCHANGED <<store, tickets, browser>>

-----------------------------------------------------------------------------
(***************************************************************************)
(* Control connections: CONNECT, which claims a ticket.                    *)
(***************************************************************************)

(* hostname and authenticate_bearer passed for installation i. The peer    *)
(* chooses the generation, the ticket and the authority it names.          *)
connect_authenticate(c, i, n, b, h) ==
  /\ pc[c] = "accept"
  /\ active[i]
  /\ req' = [req EXCEPT ![c] = [NoReq EXCEPT !.id = i, !.generation = n,
                                             !.ticket = b, !.authority = h]]
  /\ Goto(c, "map")
  /\ UNCHANGED <<store, tunnels, tickets, lifecycles, browser>>

OwnsTunnel(c) ==
  tunnels[GatewayOf[c]][HostOf[req[c].id]] =
    [id |-> req[c].id, generation |-> req[c].generation]

IsCurrent(c) == tunnel_is_current(req[c].id, GatewayOf[c], req[c].generation)

(* Two of the checks made before the ticket is touched: the in-memory map, *)
(* then the lease. Either failing is a 401.                                *)
connect_check(c) ==
  /\ \/ /\ pc[c] = "map"
        /\ IF OwnsTunnel(c) THEN Goto(c, "current") /\ UNCHANGED req ELSE Served(c)
     \/ /\ pc[c] = "current"
        /\ IF IsCurrent(c) THEN Goto(c, "ticket") /\ UNCHANGED req ELSE Served(c)
  /\ UNCHANGED <<store, tunnels, tickets, lifecycles, browser>>

(* Slip: the claimant's own identity is not compared with the ticket's.    *)
MutClaimMatches(t, r) ==
  /\ t.ticket = r.ticket
  /\ ~t.expired
  /\ r.authority = t.host
  /\ r.generation = t.generation

ticket_claim_matches(t, r) ==
  /\ t.ticket = r.ticket
  /\ ~t.expired
  /\ r.authority = t.host
  /\ HostOf[r.id] = t.host /\ r.id = t.id /\ r.generation = t.generation

(* Slip: the ticket is read but stays in the map.                          *)
MutTakeTicket(c) ==
  LET g == GatewayOf[c]
      match == {t \in tickets[g] : ticket_claim_matches(t, req[c])}
  IN
  /\ pc[c] = "ticket"
  /\ \/ /\ match # {}
        /\ req' = [req EXCEPT ![c].stale = ~IsCurrent(c)]
        /\ Goto(c, "map2")
     \/ /\ match = {}
        /\ Served(c)
  /\ UNCHANGED <<store, tunnels, tickets, lifecycles, browser>>

(* Under the tickets lock: a matching ticket is removed, and whether its   *)
(* generation is fenced at this moment is noted (history only). Anything   *)
(* else is answered 410.                                                   *)
take_ticket(c) ==
  LET g == GatewayOf[c]
      match == {t \in tickets[g] : ticket_claim_matches(t, req[c])}
  IN
  /\ pc[c] = "ticket"
  /\ \/ /\ match # {}
        /\ tickets' = [tickets EXCEPT ![g] = @ \ match]
        /\ req' = [req EXCEPT ![c].stale = ~IsCurrent(c)]
        /\ Goto(c, "map2")
     \/ /\ match = {}
        /\ Served(c)
        /\ UNCHANGED tickets
  /\ UNCHANGED <<store, tunnels, lifecycles, browser>>

(* Slip: with the ticket in hand only the in-memory map is looked at.      *)
MutRecheck(c) ==
  /\ pc[c] = "map2"
  /\ IF OwnsTunnel(c) THEN Goto(c, "send") /\ UNCHANGED req ELSE Served(c)
  /\ UNCHANGED <<store, tunnels, tickets, lifecycles, browser>>

(* The ownership checks are made again with the ticket in hand; failing    *)
(* now drops the ticket (410).                                             *)
connect_recheck(c) ==
  /\ \/ /\ pc[c] = "map2"
        /\ IF OwnsTunnel(c) THEN Goto(c, "current2") /\ UNCHANGED req ELSE Served(c)
     \/ /\ pc[c] = "current2"
        /\ IF IsCurrent(c) THEN Goto(c, "send") /\ UNCHANGED req ELSE Served(c)
  /\ UNCHANGED <<store, tunnels, tickets, lifecycles, browser>>

(* 200, and the stream goes to the browser if it still awaits it.          *)
send_claim(c) ==
  LET b == req[c].ticket IN
  /\ pc[c] = "send"
  /\ browser' = IF browser[b].pc = "waiting"
                THEN [browser EXCEPT ![b].pc = "attached",
                                     ![b].via = [id |-> req[c].id, generation |-> req[c].generation],
                                     ![b].stale = req[c].stale]
                ELSE browser
  /\ Served(c)
  /\ UNCHANGED <<store, tunnels, tickets, lifecycles>>

(* Slip: the shutdown flag is not sent to the connection's lifecycles.     *)
MutConnectionFails(c) ==
  /\ pc[c] # "closing"
  /\ Goto(c, "closing")
  /\ req' = [req EXCEPT ![c] = NoReq]
  /\ UNCHANGED <<store, tunnels, tickets, lifecycles, browser>>

(* The peer goes away, an await fails (a claim_tunnel conflict too), or a  *)
(* response cannot be sent: serve_control_connection returns and every     *)
(* lifecycle of the connection is told to stop. control_connection returns *)
(* when all of them have.                                                  *)
connection_fails(c) ==
  /\ pc[c] # "closing"
  /\ Goto(c, "closing")
  /\ req' = [req EXCEPT ![c] = NoReq]
  /\ lifecycles' = {IF l.conn = c THEN [l EXCEPT !.stop = TRUE] ELSE l : l \in lifecycles}
  /\ UNCHANGED <<store, tunnels, tickets, browser>>

connection_reopens(c) ==
  /\ pc[c] = "closing"
  /\ \A l \in lifecycles : l.conn # c
  /\ Goto(c, "accept")
  /\ UNCHANGED <<store, tunnels, tickets, req, lifecycles, browser>>

-----------------------------------------------------------------------------
(***************************************************************************)
(* tunnel_lifecycle.                                                       *)
(***************************************************************************)
Owns(l) ==
  tunnels[GatewayOf[l.conn]][HostOf[l.id]] = [id |-> l.id, generation |-> l.generation]

LifecycleGoto(l, p) == lifecycles' = (lifecycles \ {l}) \cup {[l EXCEPT !.pc = p]}

(* Every 15 s: the map, then renew_tunnel.                                 *)
heartbeat(l) ==
  /\ l.pc = "run"
  /\ LifecycleGoto(l, IF Owns(l) THEN "renew" ELSE "exit")
  /\ UNCHANGED <<store, tunnels, tickets, control, browser>>

(* Slip: a renewal that touches no row counts as renewed.                  *)
MutRenew(l) ==
  /\ l.pc = "renew"
  /\ LifecycleGoto(l, "run")
  /\ UNCHANGED <<store, tunnels, tickets, control, browser>>

renew_tunnel(l) ==
  /\ l.pc = "renew"
  /\ LifecycleGoto(l, IF tunnel_is_current(l.id, GatewayOf[l.conn], l.generation)
                      THEN "run" ELSE "exit")
  /\ UNCHANGED <<store, tunnels, tickets, control, browser>>

(* Cancelled, connection shut down, stream reset, or a send failed or      *)
(* timed out.                                                              *)
lifecycle_stops(l) ==
  /\ l.pc # "exit"
  /\ LifecycleGoto(l, "exit")
  /\ UNCHANGED <<store, tunnels, tickets, control, browser>>

(* Slip: the host's entry is removed whoever owns it now.                  *)
MutExit(l) ==
  /\ l.pc = "exit"
  /\ tunnels' = [tunnels EXCEPT ![GatewayOf[l.conn]][HostOf[l.id]] = NoTunnel]
  /\ lifecycles' = lifecycles \ {l}
  /\ UNCHANGED <<store, tickets, control, browser>>

(* The entry is removed only while it is still this tunnel's own.          *)
lifecycle_exit(l) ==
  /\ l.pc = "exit"
  /\ tunnels' = IF Owns(l)
                THEN [tunnels EXCEPT ![GatewayOf[l.conn]][HostOf[l.id]] = NoTunnel]
                ELSE tunnels
  /\ lifecycles' = lifecycles \ {l}
  /\ UNCHANGED <<store, tickets, control, browser>>

-----------------------------------------------------------------------------
(***************************************************************************)
(* browser_connection.                                                     *)
(***************************************************************************)
BrowserGoto(b, p) == browser' = [browser EXCEPT ![b].pc = p]

(* read_sni gave SniOf[b]; the tunnel is cloned out of the map.            *)
lookup_tunnel(b) ==
  LET t == tunnels[SiteOf[b]][SniOf[b]] IN
  /\ browser[b].pc = "new"
  /\ IF t.generation = 0 THEN BrowserGoto(b, "closed")
     ELSE browser' = [browser EXCEPT ![b].pc = "found", ![b].tunnel = t]
  /\ UNCHANGED <<store, tunnels, tickets, control, lifecycles>>

check_tunnel(b) ==
  /\ browser[b].pc = "found"
  /\ BrowserGoto(b, IF tunnel_is_current(browser[b].tunnel.id, SiteOf[b],
                                         browser[b].tunnel.generation)
                    THEN "current" ELSE "closed")
  /\ UNCHANGED <<store, tunnels, tickets, control, lifecycles>>

(* The ticket is published, then the Open event is sent.                   *)
insert_ticket(b) ==
  /\ browser[b].pc = "current"
  /\ tickets' = [tickets EXCEPT ![SiteOf[b]] = @ \cup
       {[ticket |-> b, host |-> SniOf[b], id |-> browser[b].tunnel.id,
         generation |-> browser[b].tunnel.generation, expired |-> FALSE]}]
  /\ BrowserGoto(b, "waiting")
  /\ UNCHANGED <<store, tunnels, control, lifecycles>>

(* The ticket's deadline passes before its browser has noticed its own.    *)
ticket_expires(g, t) ==
  /\ t \in tickets[g]
  /\ ~t.expired
  /\ tickets' = [tickets EXCEPT ![g] = (@ \ {t}) \cup {[t EXCEPT !.expired = TRUE]}]
  /\ UNCHANGED <<store, tunnels, control, lifecycles, browser>>

(* Slip: a browser whose ticket was taken waits for its stream for ever.   *)
MutGivesUp(b) ==
  /\ browser[b].pc = "waiting"
  /\ \E t \in tickets[SiteOf[b]] : t.ticket = b
  /\ tickets' = [tickets EXCEPT ![SiteOf[b]] = {t \in @ : t.ticket # b}]
  /\ BrowserGoto(b, "closed")
  /\ UNCHANGED <<store, tunnels, control, lifecycles>>

(* Open could not be sent, the setup deadline passed, or the claimed       *)
(* ticket was dropped: the ticket is removed and the browser closed.       *)
browser_gives_up(b) ==
  /\ browser[b].pc = "waiting"
  /\ tickets' = [tickets EXCEPT ![SiteOf[b]] = {t \in @ : t.ticket # b}]
  /\ BrowserGoto(b, "closed")
  /\ UNCHANGED <<store, tunnels, control, lifecycles>>

(* The bridge ends: both sides are done, one fails, nothing moves for two  *)
(* minutes, or half an hour is over.                                       *)
bridge(b) ==
  /\ browser[b].pc = "attached"
  /\ BrowserGoto(b, "closed")
  /\ UNCHANGED <<store, tunnels, tickets, control, lifecycles>>

-----------------------------------------------------------------------------
(* Each installation, allocated at generation 1, is ready and has been     *)
(* issued its first tunnel bearer at generation 2.                         *)
Init ==
  /\ active = [i \in Installations |-> TRUE]
  /\ placement \in [Installations -> Gateways]
  /\ generation = [i \in Installations |-> 2]
  /\ bearer = [i \in Installations |-> 2]
  /\ lease = [i \in Installations |-> NoLease]
  /\ tunnels = [g \in Gateways |-> [h \in Hosts |-> NoTunnel]]
  /\ tickets = [g \in Gateways |-> {}]
  /\ pc = [c \in Conns |-> "accept"]
  /\ req = [c \in Conns |-> NoReq]
  /\ lifecycles = {}
  /\ browser = [b \in Browsers |-> NewBrowser]

StoreStep ==
  \E i \in Installations :
    \/ rotate_tunnel_bearer(i)
    \/ rotate_other_bearer(i)
    \/ \E g \in Gateways : relocate(i, g)
    \/ retire(i)
    \/ lease_expires(i)

ConnStep(c) ==
  \/ \E i \in Installations :
       \/ post_authenticate(c, i)
       \/ \E n \in Generations \ {0}, b \in Browsers, h \in Hosts :
            connect_authenticate(c, i, n, b, h)
  \/ claim_tunnel(c)
  \/ insert_tunnel(c)
  \/ connect_check(c)
  \/ take_ticket(c)
  \/ connect_recheck(c)
  \/ send_claim(c)
  \/ connection_fails(c)
  \/ connection_reopens(c)

LifecycleStep(l) ==
  heartbeat(l) \/ renew_tunnel(l) \/ lifecycle_stops(l) \/ lifecycle_exit(l)

BrowserStep(b) ==
  lookup_tunnel(b) \/ check_tunnel(b) \/ insert_ticket(b) \/ browser_gives_up(b) \/ bridge(b)

Next ==
  \/ StoreStep
  \/ \E c \in Conns : ConnStep(c)
  \/ \E l \in lifecycles : LifecycleStep(l)
  \/ \E b \in Browsers : BrowserStep(b)
  \/ \E g \in Gateways : \E t \in tickets[g] : ticket_expires(g, t)

Spec == Init /\ [][Next]_vars

(***************************************************************************)
(* Fairness: tasks that are scheduled run. The heartbeat interval ticks, a *)
(* stop flag is noticed, a browser's deadlines pass, and the awaits of its *)
(* connection complete. No peer, browser or operator is obliged to do      *)
(* anything, and no lease is obliged to expire.                            *)
(***************************************************************************)
LifecycleOf(i, n) == {l \in lifecycles : l.id = i /\ l.generation = n}

Fairness ==
  /\ \A i \in Installations, n \in Generations :
       /\ WF_vars(\E l \in LifecycleOf(i, n) : heartbeat(l) \/ renew_tunnel(l) \/ lifecycle_exit(l))
       /\ WF_vars(\E l \in LifecycleOf(i, n) : l.stop /\ lifecycle_stops(l))
  /\ \A c \in Conns : WF_vars(connection_reopens(c))
  /\ \A b \in Browsers : WF_vars(BrowserStep(b))

FairSpec == Spec /\ Fairness

-----------------------------------------------------------------------------
(***************************************************************************)
(* Properties.                                                             *)
(***************************************************************************)
Tunnel == [id : Installations, generation : Generations]
Lease == [generation : Generations, gateway : Gateways, bearer : Generations]
Ticket == [ticket : Browsers, host : Hosts, id : Installations,
           generation : Generations, expired : BOOLEAN]
Request == [id : Installations, generation : Generations, ticket : Browsers,
            authority : Hosts, bearer : Generations, stale : BOOLEAN]
Life == [conn : Conns, id : Installations, generation : Generations,
         pc : {"run", "renew", "exit"}, stop : BOOLEAN]
Connection == [pc : {"new", "found", "current", "waiting", "attached", "closed"},
               tunnel : Tunnel, via : Tunnel, stale : BOOLEAN]

(* Every variable keeps the shape its table, map or task gives it.         *)
TypeOK ==
  /\ active \in [Installations -> BOOLEAN]
  /\ placement \in [Installations -> Gateways]
  /\ generation \in [Installations -> Generations]
  /\ bearer \in [Installations -> Generations]
  /\ lease \in [Installations -> Lease]
  /\ tunnels \in [Gateways -> [Hosts -> Tunnel]]
  /\ tickets \in [Gateways -> SUBSET Ticket]
  /\ pc \in [Conns -> {"accept", "claim", "insert", "map", "current", "ticket", "map2",
                       "current2", "send", "closing"}]
  /\ req \in [Conns -> Request]
  /\ lifecycles \subseteq Life
  /\ browser \in [Browsers -> Connection]

(* Exact routing: a browser is only ever joined to a stream opened by the  *)
(* installation that owns the name it asked for, under the generation its  *)
(* ticket was minted for, whatever ticket, generation and authority peers  *)
(* present and however reconnects race.                                    *)
ExactRouting ==
  \A b \in Browsers : browser[b].pc = "attached" =>
    /\ HostOf[browser[b].via.id] = SniOf[b]
    /\ browser[b].via = browser[b].tunnel

(* A generation that was already fenced when its ticket was taken never    *)
(* gets the stream: rotation, relocation, retirement or expiry between the *)
(* first checks and the ticket is caught by the second ones.               *)
NoAttachAfterFence ==
  \A b \in Browsers : browser[b].pc = "attached" => ~browser[b].stale

(* A ticket is claimed at most once: while one request holds it, it is in  *)
(* no other request's hands and can no longer be found in the map.         *)
HoldsTicket(c, b) == pc[c] \in {"map2", "current2", "send"} /\ req[c].ticket = b

TicketClaimedOnce ==
  \A c \in Conns, b \in Browsers : HoldsTicket(c, b) =>
    /\ \A d \in Conns : HoldsTicket(d, b) => d = c
    /\ \A g \in Gateways : \A t \in tickets[g] : t.ticket # b
    /\ browser[b].pc # "attached"

(* A stale claim or a late cleanup never displaces a newer tunnel: an      *)
(* entry leaves the map only for a higher generation or by the end of its  *)
(* own lifecycle.                                                          *)
DisplacedOnlyByNewer ==
  [][\A g \in Gateways, h \in Hosts :
       LET t == tunnels[g][h]
           ofT == {l \in lifecycles : /\ GatewayOf[l.conn] = g
                                     /\ l.id = t.id
                                     /\ l.generation = t.generation}
       IN tunnels'[g][h] # t =>
            \/ tunnels'[g][h].generation > t.generation
            \/ ofT # {} /\ ofT \cap lifecycles' = {}]_vars

(* Credential rotation fences old sessions: a current lease was claimed    *)
(* with the bearer that is unrevoked now.                                  *)
RotationFencesOldSessions ==
  \A i \in Installations :
    lease[i].generation > 0 => lease[i].bearer = bearer[i]

(* A tunnel whose lease is gone or taken over leaves its gateway's map.    *)
FencedTunnelGoes ==
  \A g \in Gateways, i \in Installations, n \in Generations :
    (/\ tunnels[g][HostOf[i]] = [id |-> i, generation |-> n]
     /\ ~tunnel_is_current(i, g, n))
      ~> (n = 0 \/ tunnels[g][HostOf[i]] # [id |-> i, generation |-> n])

(* A control connection that ends is gone with all its tunnels.            *)
ClosedConnectionDrains ==
  \A c \in Conns : (pc[c] = "closing") ~> (pc[c] = "accept")

(* A browser's connection ends and gives its slot back, whatever becomes   *)
(* of its ticket, of the request that took it and of the tunnel.           *)
BrowserSettles ==
  \A b \in Browsers : (browser[b].pc # "new") ~> (browser[b].pc = "closed")
=============================================================================
