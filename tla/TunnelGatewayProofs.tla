------------------------- MODULE TunnelGatewayProofs -------------------------
(***************************************************************************)
(* Proofs about TunnelGateway, for any number of installations, gateways,  *)
(* connections, browsers and generations.                                  *)
(*                                                                         *)
(* A ticket in a map and a ticket in a request's hands both name the       *)
(* tunnel its browser looked up (TicketInv, HoldInv); no generation is     *)
(* ahead of its installation's (GenerationInv), so one that is fenced      *)
(* stays fenced (StaleInv); and a generation is claimed once, so that it   *)
(* has one lifecycle (LifecycleInv).                                       *)
(***************************************************************************)
EXTENDS TunnelGateway, TLAPS

(* What was claimed, published or looked up is at most the installation's  *)
(* generation.                                                             *)
GenerationInv ==
  /\ \A g \in Gateways, h \in Hosts : tunnels[g][h].generation <= generation[tunnels[g][h].id]
  /\ \A c \in Conns : pc[c] = "insert" => req[c].generation <= generation[req[c].id]
  /\ \A l \in lifecycles : l.generation <= generation[l.id]
  /\ \A b \in Browsers : browser[b].tunnel.generation <= generation[browser[b].tunnel.id]

(* A published ticket is its waiting browser's one, at that browser's      *)
(* gateway, for the name and the tunnel that browser looked up.            *)
TicketInv ==
  \A g \in Gateways : \A t \in tickets[g] :
    /\ SiteOf[t.ticket] = g
    /\ browser[t.ticket].pc = "waiting"
    /\ t.host = SniOf[t.ticket]
    /\ t.id = browser[t.ticket].tunnel.id
    /\ t.generation = browser[t.ticket].tunnel.generation
    /\ \A u \in tickets[g] : u.ticket = t.ticket => u = t

(* A request that holds a ticket is of the owner of the browser's name.    *)
HoldInv ==
  \A c \in Conns, b \in Browsers : HoldsTicket(c, b) =>
    /\ browser[b].pc \in {"waiting", "closed"}
    /\ HostOf[req[c].id] = SniOf[b]
    /\ req[c].id = browser[b].tunnel.id
    /\ req[c].generation = browser[b].tunnel.generation

(* A generation that was fenced when its ticket was taken is still.        *)
StaleInv ==
  \A c \in Conns : pc[c] \in {"map2", "current2", "send"} /\ req[c].stale =>
    pc[c] # "send" /\ ~IsCurrent(c)

(* A claimed generation is with the request that claimed it or with one    *)
(* lifecycle.                                                              *)
Claimed(c, i, n) == pc[c] = "insert" /\ req[c].id = i /\ req[c].generation = n
LifecycleInv ==
  /\ \A l, m \in lifecycles : l.id = m.id /\ l.generation = m.generation => l = m
  /\ \A c \in Conns, l \in lifecycles : ~Claimed(c, l.id, l.generation)
  /\ \A c, d \in Conns : pc[c] = "insert" /\ Claimed(d, req[c].id, req[c].generation) => d = c

IInv ==
  /\ TypeOK
  /\ GenerationInv
  /\ TicketInv
  /\ HoldInv
  /\ TicketClaimedOnce
  /\ ExactRouting
  /\ StaleInv
  /\ NoAttachAfterFence
  /\ LifecycleInv
-----------------------------------------------------------------------------
(***************************************************************************)
(* Rows, entries and tasks, field by field.                                *)
(***************************************************************************)
USE DEF store, control

LEMMA Constants ==
  /\ MaxGeneration \in Nat /\ 0 \in Generations /\ 2 \in Generations
  /\ Generations \subseteq Nat
  /\ \A i \in Installations : HostOf[i] \in Hosts
  /\ \A c \in Conns : GatewayOf[c] \in Gateways
  /\ \A b \in Browsers : SiteOf[b] \in Gateways /\ SniOf[b] \in Hosts
BY GatewayAssumption DEF GatewayAssumption, Generations

LEMMA NullTypes ==
  /\ NoLease \in Lease /\ NoLease.generation = 0
  /\ NoTunnel \in Tunnel /\ NoTunnel.generation = 0
  /\ NoReq \in Request
  /\ NewBrowser \in Connection /\ NewBrowser.pc = "new" /\ NewBrowser.tunnel = NoTunnel
<1>1. /\ (CHOOSE i \in Installations : TRUE) \in Installations
      /\ (CHOOSE h \in Hosts : TRUE) \in Hosts
      /\ (CHOOSE g \in Gateways : TRUE) \in Gateways
      /\ (CHOOSE b \in Browsers : TRUE) \in Browsers
  BY GatewayAssumption DEF GatewayAssumption
<1>2. NoLease \in Lease /\ NoLease.generation = 0
  BY <1>1, Constants DEF NoLease, Lease
<1>3. NoTunnel \in Tunnel /\ NoTunnel.generation = 0
  BY <1>1, Constants DEF NoTunnel, Tunnel
<1>4. NoReq \in Request
  BY <1>1, Constants DEF NoReq, Request
<1> QED BY <1>2, <1>3, <1>4 DEF NewBrowser, Connection

LEMMA PostRequest ==
  ASSUME NEW i \in Installations, NEW n \in Generations
  PROVE  [NoReq EXCEPT !.id = i, !.bearer = n] \in Request
BY NullTypes DEF Request

LEMMA ConnectRequest ==
  ASSUME NEW i \in Installations, NEW n \in Generations, NEW b \in Browsers, NEW h \in Hosts
  PROVE  [NoReq EXCEPT !.id = i, !.generation = n, !.ticket = b, !.authority = h] \in Request
BY NullTypes DEF Request

LEMMA RequestFields ==
  ASSUME NEW r \in Request
  PROVE  /\ \A n \in Generations :
              /\ [r EXCEPT !.generation = n] \in Request
              /\ [r EXCEPT !.generation = n].id = r.id
              /\ [r EXCEPT !.generation = n].generation = n
         /\ \A s \in BOOLEAN :
              /\ [r EXCEPT !.stale = s] \in Request
              /\ [r EXCEPT !.stale = s].id = r.id
              /\ [r EXCEPT !.stale = s].generation = r.generation
              /\ [r EXCEPT !.stale = s].ticket = r.ticket
              /\ [r EXCEPT !.stale = s].stale = s
BY DEF Request

LEMMA LifeFields ==
  ASSUME NEW l \in Life
  PROVE  /\ [l EXCEPT !.stop = TRUE] \in Life
         /\ [l EXCEPT !.stop = TRUE].conn = l.conn
         /\ [l EXCEPT !.stop = TRUE].id = l.id
         /\ [l EXCEPT !.stop = TRUE].generation = l.generation
         /\ \A p \in {"run", "renew", "exit"} :
              /\ [l EXCEPT !.pc = p] \in Life
              /\ [l EXCEPT !.pc = p].conn = l.conn
              /\ [l EXCEPT !.pc = p].id = l.id
              /\ [l EXCEPT !.pc = p].generation = l.generation
BY DEF Life

LEMMA ConnectionAt ==
  ASSUME NEW x \in Connection, NEW p \in {"current", "waiting", "closed"}
  PROVE  /\ [x EXCEPT !.pc = p] \in Connection
         /\ [x EXCEPT !.pc = p].pc = p
         /\ [x EXCEPT !.pc = p].tunnel = x.tunnel
BY DEF Connection

LEMMA ConnectionFound ==
  ASSUME NEW x \in Connection, NEW t \in Tunnel
  PROVE  /\ [x EXCEPT !.pc = "found", !.tunnel = t] \in Connection
         /\ [x EXCEPT !.pc = "found", !.tunnel = t].pc = "found"
         /\ [x EXCEPT !.pc = "found", !.tunnel = t].tunnel = t
BY DEF Connection

LEMMA TicketFields ==
  ASSUME NEW t \in Ticket
  PROVE  /\ [t EXCEPT !.expired = TRUE] \in Ticket
         /\ [t EXCEPT !.expired = TRUE].ticket = t.ticket
         /\ [t EXCEPT !.expired = TRUE].host = t.host
         /\ [t EXCEPT !.expired = TRUE].id = t.id
         /\ [t EXCEPT !.expired = TRUE].generation = t.generation
BY DEF Ticket

-----------------------------------------------------------------------------
(***************************************************************************)
(* What the steps do.                                                      *)
(***************************************************************************)

(* The store's own steps: generations grow and leases go.                  *)
LEMMA StoreFacts ==
  ASSUME TypeOK, StoreStep
  PROVE  /\ UNCHANGED <<tunnels, tickets, pc, req, lifecycles, browser>>
         /\ active' \in [Installations -> BOOLEAN]
         /\ placement' \in [Installations -> Gateways]
         /\ generation' \in [Installations -> Generations]
         /\ bearer' \in [Installations -> Generations]
         /\ lease' \in [Installations -> Lease]
         /\ \A i \in Installations : generation'[i] >= generation[i]
         /\ \A i \in Installations : lease'[i] \in {lease[i], NoLease}
<1>1. PICK i \in Installations :
        \/ rotate_tunnel_bearer(i) \/ rotate_other_bearer(i) \/ retire(i) \/ lease_expires(i)
        \/ \E g \in Gateways : relocate(i, g)
  BY DEF StoreStep
<1>2. generation[i] \in Nat /\ (generation[i] < MaxGeneration => generation[i] + 1 \in Generations)
      /\ \A j \in Installations : generation[j] \in Nat
  BY Constants DEF TypeOK, Generations
<1>3. UNCHANGED <<tunnels, tickets, pc, req, lifecycles, browser>>
  BY <1>1 DEF rotate_tunnel_bearer, rotate_other_bearer, retire, lease_expires, relocate
<1>4. active' \in [Installations -> BOOLEAN] /\ placement' \in [Installations -> Gateways]
  BY <1>1 DEF rotate_tunnel_bearer, rotate_other_bearer, retire, lease_expires, relocate, TypeOK
<1>5. /\ bearer' \in [Installations -> Generations]
      /\ generation' \in [Installations -> Generations]
      /\ \A j \in Installations : generation'[j] >= generation[j]
  <2>1. /\ UNCHANGED generation \/ (generation[i] < MaxGeneration
                                      /\ generation' = [generation EXCEPT ![i] = generation[i] + 1])
        /\ UNCHANGED bearer \/ (generation[i] < MaxGeneration
                                      /\ bearer' = [bearer EXCEPT ![i] = generation[i] + 1])
    BY <1>1 DEF rotate_tunnel_bearer, rotate_other_bearer, retire, lease_expires, relocate
  <2>2. /\ generation' \in [Installations -> Generations]
        /\ \A j \in Installations : generation'[j] >= generation[j]
    <3>1. CASE UNCHANGED generation
      BY <1>2, <3>1 DEF TypeOK
    <3>2. CASE generation[i] < MaxGeneration /\ generation' = [generation EXCEPT ![i] = generation[i] + 1]
      BY <1>2, <3>2 DEF TypeOK
    <3> QED BY <2>1, <3>1, <3>2
  <2>3. bearer' \in [Installations -> Generations]
    BY <1>2, <2>1 DEF TypeOK
  <2> QED BY <2>2, <2>3
<1>6. UNCHANGED lease \/ lease' = [lease EXCEPT ![i] = NoLease]
  BY <1>1 DEF rotate_tunnel_bearer, rotate_other_bearer, retire, lease_expires, relocate
<1>7. lease' \in [Installations -> Lease] /\ \A j \in Installations : lease'[j] \in {lease[j], NoLease}
  BY <1>6, NullTypes DEF TypeOK
<1> QED BY <1>3, <1>4, <1>5, <1>7
Held == {"map2", "current2", "send"}
Places == {"accept", "claim", "insert", "map", "current", "ticket", "map2", "current2", "send", "closing"}

(* A step of connection c that puts it at p with request r.                *)
LEMMA MoveFacts ==
  ASSUME TypeOK, NEW c \in Conns, NEW p \in Places, Goto(c, p),
         NEW r \in Request, req' = [req EXCEPT ![c] = r] \/ (UNCHANGED req /\ r = req[c])
  PROVE  /\ pc' \in [Conns -> Places] /\ pc'[c] = p
         /\ req' \in [Conns -> Request] /\ req'[c] = r
         /\ \A d \in Conns : d # c => pc'[d] = pc[d] /\ req'[d] = req[d]
<1>1. pc' \in [Conns -> Places] /\ pc'[c] = p /\ \A d \in Conns : d # c => pc'[d] = pc[d]
  BY DEF TypeOK, Goto, Places
<1>2. req' \in [Conns -> Request] /\ req'[c] = r /\ \A d \in Conns : d # c => req'[d] = req[d]
  BY DEF TypeOK
<1> QED BY <1>1, <1>2

Moved(c) ==
  /\ pc' \in [Conns -> Places]
  /\ req' \in [Conns -> Request]
  /\ \A d \in Conns : d # c => pc'[d] = pc[d] /\ req'[d] = req[d]

(* Steps that only move their connection, never into a claim and into a    *)
(* ticket's possession only from there.                                    *)
QuietConn(c) ==
  /\ Moved(c)
  /\ pc'[c] # "insert"
  /\ pc'[c] \in Held => pc[c] \in Held /\ req'[c] = req[c]
  /\ pc'[c] = "send" => IsCurrent(c)

LEMMA ServedFacts ==
  ASSUME TypeOK, NEW c \in Conns, Served(c)
  PROVE  QuietConn(c) /\ pc'[c] = "accept"
<1>1. "accept" \in Places /\ "accept" \notin Held
  BY DEF Places, Held
<1>2. Goto(c, "accept") /\ req' = [req EXCEPT ![c] = NoReq] /\ NoReq \in Request
  BY NullTypes DEF Served
<1>3. Moved(c) /\ pc'[c] = "accept"
  BY <1>1, <1>2, MoveFacts DEF Moved
<1> QED BY <1>1, <1>3 DEF QuietConn

LEMMA QuietConnSteps ==
  ASSUME TypeOK, NEW c \in Conns,
         \/ \E i \in Installations : post_authenticate(c, i)
         \/ \E i \in Installations, n \in Generations \ {0}, b \in Browsers, h \in Hosts :
              connect_authenticate(c, i, n, b, h)
         \/ connect_check(c) \/ connect_recheck(c) \/ connection_reopens(c)
  PROVE  QuietConn(c) /\ UNCHANGED <<store, tunnels, tickets, lifecycles, browser>>
<1>1. UNCHANGED <<store, tunnels, tickets, lifecycles, browser>>
  BY DEF post_authenticate, connect_authenticate, connect_check, connect_recheck, connection_reopens
<1>2. ASSUME NEW i \in Installations, post_authenticate(c, i) PROVE QuietConn(c)
  <2> DEFINE r == [NoReq EXCEPT !.id = i, !.bearer = bearer[i]]
  <2>1. r \in Request
    BY PostRequest DEF TypeOK
  <2>2. Goto(c, "claim") /\ req' = [req EXCEPT ![c] = r] /\ "claim" \in Places /\ "claim" \notin Held
    BY <1>2 DEF post_authenticate, Places, Held
  <2> HIDE DEF r
  <2> QED BY <2>1, <2>2, MoveFacts DEF QuietConn, Moved
<1>3. ASSUME NEW i \in Installations, NEW n \in Generations \ {0}, NEW b \in Browsers, NEW h \in Hosts,
             connect_authenticate(c, i, n, b, h)
      PROVE QuietConn(c)
  <2> DEFINE r == [NoReq EXCEPT !.id = i, !.generation = n, !.ticket = b, !.authority = h]
  <2>1. r \in Request
    BY ConnectRequest
  <2>2. Goto(c, "map") /\ req' = [req EXCEPT ![c] = r] /\ "map" \in Places /\ "map" \notin Held
    BY <1>3 DEF connect_authenticate, Places, Held
  <2> HIDE DEF r
  <2> QED BY <2>1, <2>2, MoveFacts DEF QuietConn, Moved
<1>4. ASSUME UNCHANGED req, NEW p \in {"current", "ticket", "accept"}, Goto(c, p) PROVE QuietConn(c)
  <2>1. p \in Places /\ p \notin Held /\ req[c] \in Request /\ p # "insert"
    BY DEF TypeOK, Places, Held
  <2> QED BY <1>4, <2>1, MoveFacts DEF QuietConn, Moved, Held
<1>5. ASSUME UNCHANGED req, pc[c] \in Held, NEW p \in {"current2", "send"}, Goto(c, p),
             p = "send" => IsCurrent(c)
      PROVE  QuietConn(c)
  <2>1. p \in Places /\ req[c] \in Request /\ p # "insert"
    BY DEF TypeOK, Places
  <2> QED BY <1>5, <2>1, MoveFacts DEF QuietConn, Moved
<1>6. CASE connect_check(c)
  BY <1>4, <1>6, ServedFacts DEF connect_check
<1>7. CASE connect_recheck(c)
  <2>1. pc[c] \in Held
    BY <1>7 DEF connect_recheck, Held
  <2> QED BY <1>5, <1>7, <2>1, ServedFacts DEF connect_recheck
<1>8. CASE connection_reopens(c)
  BY <1>4, <1>8 DEF connection_reopens
<1> QED BY <1>1, <1>2, <1>3, <1>6, <1>7, <1>8

(* A claim is of a new generation.                                         *)
LEMMA ClaimFacts ==
  ASSUME TypeOK, NEW c \in Conns, claim_tunnel(c)
  PROVE  /\ UNCHANGED <<active, placement, bearer, tunnels, tickets, lifecycles, browser>>
         /\ Moved(c) /\ pc'[c] = "insert"
         /\ req'[c].id = req[c].id /\ req'[c].generation = generation[req[c].id] + 1
         /\ generation' \in [Installations -> Generations]
         /\ generation'[req[c].id] = generation[req[c].id] + 1
         /\ \A i \in Installations : i # req[c].id =>
              generation'[i] = generation[i] /\ lease'[i] = lease[i]
         /\ lease' \in [Installations -> Lease]
         /\ lease'[req[c].id].generation = generation[req[c].id] + 1
<1> DEFINE i == req[c].id
           n == generation[i] + 1
           x == [generation |-> n, gateway |-> GatewayOf[c], bearer |-> req[c].bearer]
           r == [req[c] EXCEPT !.generation = n]
<1>1. req[c] \in Request /\ i \in Installations
  BY DEF TypeOK, Request
<1>2. n \in Generations
  BY <1>1, Constants DEF claim_tunnel, TypeOK, Generations
<1>3. r \in Request /\ r.id = i /\ r.generation = n
  BY <1>1, <1>2, RequestFields
<1>4. x \in Lease /\ x.generation = n
  BY <1>1, <1>2, Constants DEF Lease, Request
<1>5. /\ UNCHANGED <<active, placement, bearer, tunnels, tickets, lifecycles, browser>>
      /\ generation' = [generation EXCEPT ![i] = n]
      /\ lease' = [lease EXCEPT ![i] = x]
      /\ req' = [req EXCEPT ![c] = r]
      /\ Goto(c, "insert") /\ "insert" \in Places
  BY DEF claim_tunnel, Places
<1> HIDE DEF r, x, n
<1>6. Moved(c) /\ pc'[c] = "insert" /\ req'[c] = r
  BY <1>3, <1>5, MoveFacts DEF Moved
<1>7. /\ generation' \in [Installations -> Generations] /\ generation'[i] = n
      /\ \A j \in Installations : j # i => generation'[j] = generation[j]
  BY <1>1, <1>2, <1>5 DEF TypeOK
<1>8. /\ lease' \in [Installations -> Lease] /\ lease'[i] = x
      /\ \A j \in Installations : j # i => lease'[j] = lease[j]
  BY <1>1, <1>4, <1>5 DEF TypeOK
<1> QED BY <1>3, <1>4, <1>5, <1>6, <1>7, <1>8 DEF n
(* Lifecycles that are told something, or end, stay who they are.          *)
SameLives(S) ==
  /\ S \subseteq Life
  /\ \A m \in S : \E l \in lifecycles : m.id = l.id /\ m.generation = l.generation
  /\ \A l, m \in S : l.id = m.id /\ l.generation = m.generation => l = m

LEMMA ImageOfLives ==
  ASSUME LifecycleInv, NEW f \in [lifecycles -> Life],
         \A l \in lifecycles : f[l].id = l.id /\ f[l].generation = l.generation
  PROVE  SameLives({f[l] : l \in lifecycles})
<1> DEFINE S == {f[l] : l \in lifecycles}
<1>1. \A m \in S : \E l \in lifecycles : m = f[l] /\ m \in Life /\ m.id = l.id /\ m.generation = l.generation
  OBVIOUS
<1> HIDE DEF S
<1>2. ASSUME NEW m \in S, NEW n \in S, m.id = n.id, m.generation = n.generation PROVE m = n
  <2>1. PICK k \in lifecycles : m = f[k] /\ m.id = k.id /\ m.generation = k.generation
    BY <1>1
  <2>2. PICK l \in lifecycles : n = f[l] /\ n.id = l.id /\ n.generation = l.generation
    BY <1>1
  <2>3. k = l
    BY <1>2, <2>1, <2>2 DEF LifecycleInv
  <2> QED BY <2>1, <2>2, <2>3
<1>3. SameLives(S)
  BY <1>1, <1>2 DEF SameLives
<1> QED BY <1>3 DEF S

LEMMA CancelledLives ==
  ASSUME TypeOK, LifecycleInv, NEW g, NEW t
  PROVE  SameLives(Cancelled(g, t))
<1> DEFINE f == [l \in lifecycles |->
                   IF GatewayOf[l.conn] = g /\ l.id = t.id /\ l.generation = t.generation
                   THEN [l EXCEPT !.stop = TRUE] ELSE l]
<1>1. \A l \in lifecycles : f[l] \in Life /\ f[l].id = l.id /\ f[l].generation = l.generation
  BY LifeFields DEF TypeOK
<1>2. Cancelled(g, t) = {f[l] : l \in lifecycles}
  BY DEF Cancelled
<1>3. f \in [lifecycles -> Life]
  BY <1>1
<1> HIDE DEF f
<1> QED BY <1>1, <1>2, <1>3, ImageOfLives

LEMMA StoppedLives ==
  ASSUME TypeOK, LifecycleInv, NEW c \in Conns
  PROVE  SameLives({IF l.conn = c THEN [l EXCEPT !.stop = TRUE] ELSE l : l \in lifecycles})
<1> DEFINE f == [l \in lifecycles |-> IF l.conn = c THEN [l EXCEPT !.stop = TRUE] ELSE l]
<1>1. \A l \in lifecycles : f[l] \in Life /\ f[l].id = l.id /\ f[l].generation = l.generation
  BY LifeFields DEF TypeOK
<1>2. {IF l.conn = c THEN [l EXCEPT !.stop = TRUE] ELSE l : l \in lifecycles} = {f[l] : l \in lifecycles}
  OBVIOUS
<1>3. f \in [lifecycles -> Life]
  BY <1>1
<1> HIDE DEF f
<1> QED BY <1>1, <1>2, <1>3, ImageOfLives

LEMMA MovedLife ==
  ASSUME TypeOK, LifecycleInv, NEW l \in lifecycles, NEW p \in {"run", "renew", "exit"},
         LifecycleGoto(l, p)
  PROVE  SameLives(lifecycles')
<1> DEFINE x == [l EXCEPT !.pc = p]
<1>1. x \in Life /\ x.id = l.id /\ x.generation = l.generation
  BY LifeFields DEF TypeOK
<1>2. lifecycles' = (lifecycles \ {l}) \cup {x}
  BY DEF LifecycleGoto
<1> HIDE DEF x
<1>3. lifecycles' \subseteq Life
  BY <1>1, <1>2 DEF TypeOK
<1>4. \A m \in lifecycles' : \E k \in lifecycles : m.id = k.id /\ m.generation = k.generation
  BY <1>1, <1>2
<1>5. \A k, m \in lifecycles' : k.id = m.id /\ k.generation = m.generation => k = m
  BY <1>1, <1>2 DEF LifecycleInv
<1> QED BY <1>3, <1>4, <1>5 DEF SameLives

(* A tunnel that is published is the one its request claimed.              *)
LEMMA InsertFacts ==
  ASSUME TypeOK, LifecycleInv, NEW c \in Conns, insert_tunnel(c)
  PROVE  LET r == req[c]
             x == Lifecycle(c, r.id, r.generation)
             g == GatewayOf[c]
             h == HostOf[r.id]
         IN
         /\ UNCHANGED <<store, tickets, browser>>
         /\ QuietConn(c) /\ pc[c] = "insert" /\ pc'[c] = "accept"
         /\ r \in Request /\ r.id \in Installations /\ r.generation \in Generations
         /\ \/ UNCHANGED <<tunnels, lifecycles>>
            \/ /\ tunnels' \in [Gateways -> [Hosts -> Tunnel]]
               /\ tunnels'[g][h].id = r.id /\ tunnels'[g][h].generation = r.generation
               /\ tunnels[g][h].generation < r.generation
               /\ \A k \in Gateways, m \in Hosts : k # g \/ m # h => tunnels'[k][m] = tunnels[k][m]
               /\ x \in Life /\ x.id = r.id /\ x.generation = r.generation
               /\ \E S : SameLives(S) /\ lifecycles' = S \cup {x}
<1> DEFINE r == req[c]
           x == Lifecycle(c, r.id, r.generation)
           g == GatewayOf[c]
           h == HostOf[r.id]
           t == [id |-> r.id, generation |-> r.generation]
<1>1. r \in Request /\ r.id \in Installations /\ r.generation \in Generations
  BY DEF TypeOK, Request
<1>2. UNCHANGED <<store, tickets, browser>> /\ Served(c) /\ pc[c] = "insert"
  BY DEF insert_tunnel
<1>3. QuietConn(c) /\ pc'[c] = "accept"
  BY <1>2, ServedFacts
<1>4. x \in Life /\ x.id = r.id /\ x.generation = r.generation
  BY <1>1 DEF Lifecycle, Life
<1>5. t \in Tunnel /\ t.id = r.id /\ t.generation = r.generation /\ g \in Gateways /\ h \in Hosts
  BY <1>1, Constants DEF Tunnel
<1>6. \/ UNCHANGED <<tunnels, lifecycles>>
      \/ /\ tunnels' = [tunnels EXCEPT ![g] = [tunnels[g] EXCEPT ![h] = t]]
         /\ tunnels[g][h].generation < r.generation
         /\ lifecycles' = Cancelled(g, tunnels[g][h]) \cup {x}
  BY DEF insert_tunnel, generation_can_replace
<1>7. SameLives(Cancelled(g, tunnels[g][h]))
  BY CancelledLives
<1> HIDE DEF t, x
<1>8. ASSUME tunnels' = [tunnels EXCEPT ![g] = [tunnels[g] EXCEPT ![h] = t]]
      PROVE  /\ tunnels' \in [Gateways -> [Hosts -> Tunnel]]
             /\ tunnels'[g][h] = t
             /\ \A k \in Gateways, m \in Hosts : k # g \/ m # h => tunnels'[k][m] = tunnels[k][m]
  BY <1>5, <1>8 DEF TypeOK
<1> HIDE DEF g, h
<1> QED BY <1>1, <1>2, <1>3, <1>4, <1>5, <1>6, <1>7, <1>8 DEF x, g, h
LEMMA TakeCases ==
  ASSUME TypeOK, NEW c \in Conns, take_ticket(c)
  PROVE  (Served(c) /\ UNCHANGED <<store, tunnels, tickets, lifecycles, browser>>) \/ ~Served(c)
<1>1. ASSUME Served(c), Goto(c, "map2") PROVE FALSE
  BY <1>1 DEF Served, Goto, TypeOK
<1> QED BY <1>1 DEF take_ticket

(* A ticket that is taken is gone, and was this request's own.             *)
LEMMA TakeFacts ==
  ASSUME TypeOK, NEW c \in Conns, take_ticket(c), ~Served(c)
  PROVE  /\ UNCHANGED <<store, tunnels, lifecycles, browser>>
         /\ Moved(c) /\ pc'[c] = "map2"
         /\ req[c] \in Request
         /\ req'[c].id = req[c].id /\ req'[c].generation = req[c].generation
         /\ req'[c].ticket = req[c].ticket /\ req'[c].stale = ~IsCurrent(c)
         /\ tickets' = [tickets EXCEPT ![GatewayOf[c]] = {t \in @ : ~ticket_claim_matches(t, req[c])}]
         /\ \E t \in tickets[GatewayOf[c]] : ticket_claim_matches(t, req[c])
<1> DEFINE s == ~IsCurrent(c)
           r == [req[c] EXCEPT !.stale = s]
<1>1. /\ UNCHANGED <<store, tunnels, lifecycles, browser>>
      /\ tickets' = [tickets EXCEPT ![GatewayOf[c]] =
           @ \ {t \in tickets[GatewayOf[c]] : ticket_claim_matches(t, req[c])}]
      /\ \E t \in tickets[GatewayOf[c]] : ticket_claim_matches(t, req[c])
      /\ req' = [req EXCEPT ![c] = r] /\ Goto(c, "map2") /\ "map2" \in Places
  BY DEF take_ticket, Places
<1>2. req[c] \in Request /\ s \in BOOLEAN
  BY DEF TypeOK
<1> HIDE DEF s
<1>3. r \in Request /\ r.id = req[c].id /\ r.generation = req[c].generation
      /\ r.ticket = req[c].ticket /\ r.stale = s
  BY <1>2, RequestFields
<1> HIDE DEF r
<1>4. Moved(c) /\ pc'[c] = "map2" /\ req'[c] = r
  BY <1>1, <1>3, MoveFacts DEF Moved
<1>5. tickets' = [tickets EXCEPT ![GatewayOf[c]] = {t \in @ : ~ticket_claim_matches(t, req[c])}]
  <2>1. tickets[GatewayOf[c]] \ {t \in tickets[GatewayOf[c]] : ticket_claim_matches(t, req[c])}
          = {t \in tickets[GatewayOf[c]] : ~ticket_claim_matches(t, req[c])}
    OBVIOUS
  <2> QED BY <1>1, <2>1
<1> QED BY <1>1, <1>2, <1>3, <1>4, <1>5 DEF s

(* The stream goes to the browser whose ticket the request holds.          *)
LEMMA SendFacts ==
  ASSUME TypeOK, NEW c \in Conns, send_claim(c)
  PROVE  /\ UNCHANGED <<store, tunnels, tickets, lifecycles>>
         /\ QuietConn(c) /\ pc[c] = "send" /\ pc'[c] = "accept"
         /\ req[c].ticket \in Browsers
         /\ browser' \in [Browsers -> Connection]
         /\ \A b \in Browsers : b # req[c].ticket => browser'[b] = browser[b]
         /\ LET b == req[c].ticket IN
            \/ browser'[b] = browser[b]
            \/ /\ browser[b].pc = "waiting" /\ browser'[b].pc = "attached"
               /\ browser'[b].tunnel = browser[b].tunnel
               /\ browser'[b].via = [id |-> req[c].id, generation |-> req[c].generation]
               /\ browser'[b].stale = req[c].stale
<1> DEFINE b == req[c].ticket
           v == [id |-> req[c].id, generation |-> req[c].generation]
           s == req[c].stale
           y == browser[b]
           x == [y EXCEPT !.pc = "attached", !.via = v, !.stale = s]
<1>1. UNCHANGED <<store, tunnels, tickets, lifecycles>> /\ Served(c) /\ pc[c] = "send"
  BY DEF send_claim
<1>2. QuietConn(c) /\ pc'[c] = "accept"
  BY <1>1, ServedFacts
<1>3. b \in Browsers /\ v \in Tunnel /\ s \in BOOLEAN /\ y \in Connection
  BY DEF TypeOK, Request, Tunnel
<1>4. /\ x \in Connection /\ x.pc = "attached" /\ x.tunnel = y.tunnel
      /\ x.via = v /\ x.stale = s
  <2> HIDE DEF v, s, y
  <2> QED BY <1>3 DEF Connection
<1>5. (browser[b].pc = "waiting" /\ browser' = [browser EXCEPT ![b] = x]) \/ UNCHANGED browser
  BY <1>3 DEF send_claim, TypeOK
<1> HIDE DEF x
<1> QED BY <1>1, <1>2, <1>3, <1>4, <1>5 DEF TypeOK

(* A browser's own steps.                                                  *)
LEMMA BrowserFacts ==
  ASSUME TypeOK, NEW b \in Browsers, BrowserStep(b)
  PROVE  /\ UNCHANGED <<store, tunnels, pc, req, lifecycles>>
         /\ browser' \in [Browsers -> Connection]
         /\ \A k \in Browsers : k # b => browser'[k] = browser[k]
         /\ \/ /\ UNCHANGED tickets /\ browser[b].pc = "new" /\ browser'[b].pc = "found"
               /\ browser'[b].tunnel = tunnels[SiteOf[b]][SniOf[b]]
            \/ /\ UNCHANGED tickets /\ browser'[b].tunnel = browser[b].tunnel
               /\ browser[b].pc # "waiting" /\ browser'[b].pc \in {"current", "closed"}
               /\ browser'[b].pc = "current" => browser[b].pc = "found"
            \/ /\ browser[b].pc = "current" /\ browser'[b].pc = "waiting"
               /\ browser'[b].tunnel = browser[b].tunnel
               /\ tickets' = [tickets EXCEPT ![SiteOf[b]] = @ \cup
                    {[ticket |-> b, host |-> SniOf[b], id |-> browser[b].tunnel.id,
                      generation |-> browser[b].tunnel.generation, expired |-> FALSE]}]
            \/ /\ browser[b].pc = "waiting" /\ browser'[b].pc = "closed"
               /\ browser'[b].tunnel = browser[b].tunnel
               /\ tickets' = [tickets EXCEPT ![SiteOf[b]] = {t \in @ : t.ticket # b}]
<1>1. browser[b] \in Connection /\ tunnels[SiteOf[b]][SniOf[b]] \in Tunnel
  BY Constants DEF TypeOK
<1>2. UNCHANGED <<store, tunnels, pc, req, lifecycles>>
  BY DEF BrowserStep, lookup_tunnel, check_tunnel, insert_ticket, browser_gives_up, bridge
<1>3. ASSUME NEW p \in {"current", "waiting", "closed"}, BrowserGoto(b, p)
      PROVE  /\ browser' \in [Browsers -> Connection]
             /\ browser'[b].pc = p /\ browser'[b].tunnel = browser[b].tunnel
             /\ \A k \in Browsers : k # b => browser'[k] = browser[k]
  <2> DEFINE x == [browser[b] EXCEPT !.pc = p]
  <2>1. x \in Connection /\ x.pc = p /\ x.tunnel = browser[b].tunnel
    BY <1>1, ConnectionAt
  <2>2. browser' = [browser EXCEPT ![b] = x]
    BY <1>3 DEF BrowserGoto
  <2> HIDE DEF x
  <2> QED BY <2>1, <2>2 DEF TypeOK
<1>4. CASE lookup_tunnel(b)
  <2>1. CASE BrowserGoto(b, "closed")
    BY <1>2, <1>3, <1>4, <2>1 DEF lookup_tunnel
  <2>2. CASE ~BrowserGoto(b, "closed")
    <3> DEFINE t == tunnels[SiteOf[b]][SniOf[b]]
               x == [browser[b] EXCEPT !.pc = "found", !.tunnel = t]
    <3>1. x \in Connection /\ x.pc = "found" /\ x.tunnel = t
      BY <1>1, ConnectionFound
    <3>2. browser' = [browser EXCEPT ![b] = x] /\ UNCHANGED tickets /\ browser[b].pc = "new"
      BY <1>4, <2>2 DEF lookup_tunnel
    <3> HIDE DEF x
    <3>3. browser' \in [Browsers -> Connection] /\ browser'[b] = x
          /\ \A k \in Browsers : k # b => browser'[k] = browser[k]
      BY <3>1, <3>2 DEF TypeOK
    <3> QED BY <1>2, <3>1, <3>2, <3>3
  <2> QED BY <2>1, <2>2
<1>5. CASE check_tunnel(b) \/ bridge(b)
  <2>1. UNCHANGED tickets /\ browser[b].pc \in {"found", "attached"}
    BY <1>5 DEF check_tunnel, bridge
  <2>2. PICK p \in {"current", "closed"} : BrowserGoto(b, p) /\ (p = "current" => browser[b].pc = "found")
    BY <1>5 DEF check_tunnel, bridge
  <2> QED BY <1>2, <1>3, <2>1, <2>2
<1>6. CASE insert_ticket(b)
  BY <1>2, <1>3, <1>6 DEF insert_ticket
<1>7. CASE browser_gives_up(b)
  BY <1>2, <1>3, <1>7 DEF browser_gives_up
<1> QED BY <1>4, <1>5, <1>6, <1>7 DEF BrowserStep
LEMMA FailFacts ==
  ASSUME TypeOK, LifecycleInv, NEW c \in Conns, connection_fails(c)
  PROVE  /\ UNCHANGED <<store, tunnels, tickets, browser>>
         /\ QuietConn(c) /\ SameLives(lifecycles')
<1>1. /\ Goto(c, "closing") /\ req' = [req EXCEPT ![c] = NoReq] /\ NoReq \in Request
      /\ "closing" \in Places /\ "closing" \notin Held
  BY NullTypes DEF connection_fails, Places, Held
<1>2. QuietConn(c)
  BY <1>1, MoveFacts DEF QuietConn, Moved
<1>3. SameLives(lifecycles')
  BY StoppedLives DEF connection_fails
<1> QED BY <1>2, <1>3 DEF connection_fails

(* Lifecycles: one entry at most goes, by the end of its own lifecycle.    *)
LEMMA LifeFacts ==
  ASSUME TypeOK, LifecycleInv, NEW l \in lifecycles, LifecycleStep(l)
  PROVE  /\ UNCHANGED <<store, tickets, pc, req, browser>>
         /\ SameLives(lifecycles')
         /\ tunnels' \in [Gateways -> [Hosts -> Tunnel]]
         /\ \A g \in Gateways, h \in Hosts :
              \/ tunnels'[g][h] = tunnels[g][h]
              \/ /\ tunnels'[g][h] = NoTunnel /\ lifecycles' = lifecycles \ {l}
                 /\ g = GatewayOf[l.conn] /\ tunnels[g][h] = [id |-> l.id, generation |-> l.generation]
<1>1. UNCHANGED <<store, tickets, pc, req, browser>>
  BY DEF LifecycleStep, heartbeat, renew_tunnel, lifecycle_stops, lifecycle_exit
<1>2. CASE heartbeat(l) \/ renew_tunnel(l) \/ lifecycle_stops(l)
  <2>1. UNCHANGED tunnels /\ \E p \in {"run", "renew", "exit"} : LifecycleGoto(l, p)
    BY <1>2 DEF heartbeat, renew_tunnel, lifecycle_stops
  <2>2. SameLives(lifecycles')
    BY <2>1, MovedLife
  <2> QED BY <1>1, <2>1, <2>2 DEF TypeOK
<1>3. CASE lifecycle_exit(l)
  <2> DEFINE g == GatewayOf[l.conn]
             h == HostOf[l.id]
  <2>1. g \in Gateways /\ h \in Hosts
    BY Constants DEF TypeOK, Life
  <2>2. lifecycles' = lifecycles \ {l}
    BY <1>3 DEF lifecycle_exit
  <2>3. SameLives(lifecycles')
    BY <2>2 DEF SameLives, TypeOK, LifecycleInv
  <2>4. CASE UNCHANGED tunnels
    BY <1>1, <2>3, <2>4 DEF TypeOK
  <2>5. CASE /\ tunnels[g][h] = [id |-> l.id, generation |-> l.generation]
             /\ tunnels' = [tunnels EXCEPT ![g] = [tunnels[g] EXCEPT ![h] = NoTunnel]]
    <3> HIDE DEF g, h
    <3>1. /\ tunnels' \in [Gateways -> [Hosts -> Tunnel]]
          /\ tunnels'[g][h] = NoTunnel
          /\ \A k \in Gateways, m \in Hosts : k # g \/ m # h => tunnels'[k][m] = tunnels[k][m]
      BY <2>1, <2>5, NullTypes DEF TypeOK
    <3> QED BY <1>1, <2>2, <2>3, <2>5, <3>1 DEF g
  <2> QED BY <1>3, <2>4, <2>5 DEF lifecycle_exit, Owns
<1> QED BY <1>2, <1>3 DEF LifecycleStep

LEMMA ExpireFacts ==
  ASSUME TypeOK, NEW g \in Gateways, NEW t \in tickets[g], ticket_expires(g, t)
  PROVE  /\ UNCHANGED <<store, tunnels, pc, req, lifecycles, browser>>
         /\ tickets' \in [Gateways -> SUBSET Ticket]
         /\ \A k \in Gateways : k # g => tickets'[k] = tickets[k]
         /\ \E x \in Ticket :
              /\ tickets'[g] = (tickets[g] \ {t}) \cup {x}
              /\ x.ticket = t.ticket /\ x.host = t.host /\ x.id = t.id /\ x.generation = t.generation
<1> DEFINE x == [t EXCEPT !.expired = TRUE]
<1>1. t \in Ticket
  BY DEF TypeOK
<1>2. x \in Ticket /\ x.ticket = t.ticket /\ x.host = t.host /\ x.id = t.id /\ x.generation = t.generation
  BY <1>1, TicketFields
<1>3. /\ UNCHANGED <<store, tunnels, pc, req, lifecycles, browser>>
      /\ tickets' = [tickets EXCEPT ![g] = (tickets[g] \ {t}) \cup {x}]
  BY DEF ticket_expires
<1> HIDE DEF x
<1>4. /\ tickets' \in [Gateways -> SUBSET Ticket]
      /\ \A k \in Gateways : k # g => tickets'[k] = tickets[k]
      /\ tickets'[g] = (tickets[g] \ {t}) \cup {x}
  BY <1>2, <1>3 DEF TypeOK
<1> QED BY <1>2, <1>3, <1>4

LEMMA ShapeInit == Init => TypeOK
BY NullTypes, Constants DEF Init, TypeOK

LEMMA TypeStep ==
  ASSUME TypeOK, LifecycleInv, [Next]_vars
  PROVE  TypeOK'
<1>1. CASE UNCHANGED vars
  BY <1>1 DEF vars, TypeOK
<1>2. CASE StoreStep
  BY <1>2, StoreFacts DEF TypeOK
<1>3. ASSUME NEW c \in Conns, ConnStep(c) PROVE TypeOK'
  <2>1. ASSUME Moved(c), UNCHANGED <<store, tunnels, tickets, lifecycles, browser>> PROVE TypeOK'
    BY <2>1 DEF Moved, TypeOK, Places
  <2>2. ASSUME \/ \E i \in Installations : post_authenticate(c, i)
               \/ \E i \in Installations, n \in Generations \ {0}, b \in Browsers, h \in Hosts :
                    connect_authenticate(c, i, n, b, h)
               \/ connect_check(c) \/ connect_recheck(c) \/ connection_reopens(c)
        PROVE  TypeOK'
    BY <2>1, <2>2, QuietConnSteps DEF QuietConn
  <2>3. CASE claim_tunnel(c)
    BY <2>3, ClaimFacts DEF TypeOK, Moved, Places
  <2>4. CASE insert_tunnel(c)
    <3>1. lifecycles' \subseteq Life /\ tunnels' \in [Gateways -> [Hosts -> Tunnel]]
      BY <2>4, InsertFacts DEF TypeOK, SameLives
    <3>2. UNCHANGED <<store, tickets, browser>> /\ Moved(c)
      BY <2>4, InsertFacts DEF QuietConn
    <3> QED BY <3>1, <3>2 DEF TypeOK, Moved, Places
  <2>5. CASE take_ticket(c)
    <3>1. CASE Served(c) /\ UNCHANGED tickets
      BY <2>1, <2>5, <3>1, ServedFacts DEF take_ticket, QuietConn
    <3>2. CASE ~Served(c)
      <4>1. /\ UNCHANGED <<store, tunnels, lifecycles, browser>> /\ Moved(c)
            /\ tickets' = [tickets EXCEPT ![GatewayOf[c]] = {t \in @ : ~ticket_claim_matches(t, req[c])}]
        BY <2>5, <3>2, TakeFacts
      <4>2. tickets' \in [Gateways -> SUBSET Ticket]
        BY <4>1, Constants DEF TypeOK
      <4> QED BY <4>1, <4>2 DEF TypeOK, Moved, Places
    <3> QED BY <2>5, <3>1, <3>2, TakeCases
  <2>6. CASE send_claim(c)
    BY <2>6, SendFacts DEF TypeOK, QuietConn, Moved, Places
  <2>7. CASE connection_fails(c)
    BY <2>7, FailFacts DEF TypeOK, QuietConn, Moved, Places, SameLives
  <2> QED BY <1>3, <2>2, <2>3, <2>4, <2>5, <2>6, <2>7 DEF ConnStep
<1>4. ASSUME NEW l \in lifecycles, LifecycleStep(l) PROVE TypeOK'
  BY <1>4, LifeFacts DEF TypeOK, SameLives
<1>5. ASSUME NEW b \in Browsers, BrowserStep(b) PROVE TypeOK'
  <2>1. tickets' \in [Gateways -> SUBSET Ticket]
    <3> DEFINE x == [ticket |-> b, host |-> SniOf[b], id |-> browser[b].tunnel.id,
                     generation |-> browser[b].tunnel.generation, expired |-> FALSE]
    <3>1. browser[b].tunnel \in Tunnel
      BY DEF TypeOK, Connection
    <3>2. x \in Ticket
      BY <3>1, Constants DEF Ticket, Tunnel
    <3> HIDE DEF x
    <3>3. \/ UNCHANGED tickets
          \/ tickets' = [tickets EXCEPT ![SiteOf[b]] = @ \cup {x}]
          \/ tickets' = [tickets EXCEPT ![SiteOf[b]] = {t \in @ : t.ticket # b}]
      BY <1>5, BrowserFacts DEF x
    <3> QED BY <3>2, <3>3, Constants DEF TypeOK
  <2>2. UNCHANGED <<store, tunnels, pc, req, lifecycles>> /\ browser' \in [Browsers -> Connection]
    BY <1>5, BrowserFacts
  <2> QED BY <2>1, <2>2 DEF TypeOK
<1>6. ASSUME NEW g \in Gateways, NEW t \in tickets[g], ticket_expires(g, t) PROVE TypeOK'
  BY <1>6, ExpireFacts DEF TypeOK
<1> QED BY <1>1, <1>2, <1>3, <1>4, <1>5, <1>6 DEF Next
-----------------------------------------------------------------------------
(***************************************************************************)
(* Every step keeps the invariant.                                         *)
(***************************************************************************)

(* Generations are numbers, and installations own them.                    *)
LEMMA Numbers ==
  ASSUME TypeOK
  PROVE  /\ \A i \in Installations : generation[i] \in Nat
         /\ \A g \in Gateways, h \in Hosts :
              tunnels[g][h].id \in Installations /\ tunnels[g][h].generation \in Nat
         /\ \A c \in Conns : req[c].id \in Installations /\ req[c].generation \in Nat
         /\ \A l \in lifecycles : l.id \in Installations /\ l.generation \in Nat
         /\ \A b \in Browsers : /\ browser[b].tunnel.id \in Installations
                                /\ browser[b].tunnel.generation \in Nat
                                /\ browser[b].tunnel \in Tunnel
<1>1. \A i \in Installations : generation[i] \in Nat
  BY Constants DEF TypeOK
<1>2. \A t \in Tunnel : t.id \in Installations /\ t.generation \in Nat
  BY Constants DEF Tunnel
<1>3. \A g \in Gateways, h \in Hosts : tunnels[g][h] \in Tunnel
  BY DEF TypeOK
<1>4. \A c \in Conns : req[c].id \in Installations /\ req[c].generation \in Nat
  BY Constants DEF TypeOK, Request
<1>5. \A l \in lifecycles : l.id \in Installations /\ l.generation \in Nat
  BY Constants DEF TypeOK, Life
<1>6. \A b \in Browsers : browser[b].tunnel \in Tunnel
  BY DEF TypeOK, Connection
<1> QED BY <1>1, <1>2, <1>3, <1>4, <1>5, <1>6

LEMMA StoreInv ==
  ASSUME IInv, TypeOK', StoreStep
  PROVE  IInv'
<1>1. /\ UNCHANGED <<tunnels, tickets, pc, req, lifecycles, browser>>
      /\ generation' \in [Installations -> Generations]
      /\ \A i \in Installations : generation'[i] >= generation[i]
      /\ \A i \in Installations : lease'[i] \in {lease[i], NoLease}
  BY StoreFacts DEF IInv
<1>2. \A i \in Installations : generation'[i] \in Nat /\ generation[i] \in Nat
  BY <1>1, Numbers, Constants DEF IInv
<1>3. ASSUME NEW i \in Installations, NEW n \in Nat, n <= generation[i] PROVE n <= generation'[i]
  BY <1>1, <1>2, <1>3
<1>4. GenerationInv'
  BY <1>1, <1>3, Numbers DEF IInv, GenerationInv
<1>5. TicketInv' /\ HoldInv' /\ TicketClaimedOnce' /\ ExactRouting' /\ NoAttachAfterFence' /\ LifecycleInv'
  BY <1>1 DEF IInv, TicketInv, HoldInv, TicketClaimedOnce, HoldsTicket, ExactRouting,
              NoAttachAfterFence, LifecycleInv, Claimed
<1>6. StaleInv'
  <2>1. ASSUME NEW c \in Conns, ~IsCurrent(c) PROVE ~IsCurrent(c)'
    <3>1. lease'[req[c].id] \in {lease[req[c].id], NoLease} /\ NoLease.generation = 0
      BY <1>1, Numbers, NullTypes DEF IInv
    <3> QED BY <1>1, <2>1, <3>1, Numbers DEF IsCurrent, tunnel_is_current, IInv
  <2> QED BY <1>1, <2>1 DEF IInv, StaleInv
<1> QED BY <1>4, <1>5, <1>6 DEF IInv

(* A connection moves, no claim begins, lifecycles may hear of it.         *)
LEMMA QuietInv ==
  ASSUME IInv, TypeOK', NEW c \in Conns, QuietConn(c),
         UNCHANGED <<store, tunnels, tickets, browser>>, SameLives(lifecycles')
  PROVE  IInv'
<1>1. \A d \in Conns : d # c => pc'[d] = pc[d] /\ req'[d] = req[d]
  BY DEF QuietConn, Moved
<1>2. pc'[c] # "insert" /\ (pc'[c] \in Held => pc[c] \in Held /\ req'[c] = req[c])
      /\ (pc'[c] = "send" => IsCurrent(c))
  BY DEF QuietConn
<1>3. GenerationInv'
  BY <1>1, <1>2, Numbers DEF IInv, GenerationInv, SameLives
<1>4. \A d \in Conns, b \in Browsers : HoldsTicket(d, b)' => HoldsTicket(d, b) /\ req'[d] = req[d]
  BY <1>1, <1>2 DEF HoldsTicket, Held
<1>5. TicketInv' /\ ExactRouting' /\ NoAttachAfterFence'
  BY DEF IInv, TicketInv, ExactRouting, NoAttachAfterFence
<1>6. HoldInv'
  BY <1>4 DEF IInv, HoldInv
<1>7. TicketClaimedOnce'
  BY <1>4 DEF IInv, TicketClaimedOnce
<1>8. StaleInv'
  <2>1. ASSUME NEW d \in Conns, pc'[d] \in Held, req'[d].stale PROVE pc'[d] # "send" /\ ~IsCurrent(d)'
    <3>1. req'[d] = req[d] /\ pc[d] \in Held
      BY <1>1, <1>2, <2>1
    <3>2. ~IsCurrent(d) /\ pc[d] # "send"
      BY <2>1, <3>1 DEF IInv, StaleInv, Held
    <3>3. ~IsCurrent(d)'
      BY <3>1, <3>2 DEF IsCurrent, tunnel_is_current
    <3> QED BY <1>1, <1>2, <3>2, <3>3
  <2> QED BY <2>1 DEF StaleInv, Held
<1>9. LifecycleInv'
  <2>1. \A d \in Conns : pc'[d] = "insert" => d # c /\ pc[d] = "insert" /\ req'[d] = req[d]
    BY <1>1, <1>2
  <2>2. \A d \in Conns, l \in lifecycles' : ~Claimed(d, l.id, l.generation)'
    <3> SUFFICES ASSUME NEW d \in Conns, NEW l \in lifecycles', Claimed(d, l.id, l.generation)' PROVE FALSE
      OBVIOUS
    <3>1. pc'[d] = "insert" /\ req'[d].id = l.id /\ req'[d].generation = l.generation
      BY DEF Claimed
    <3>2. PICK k \in lifecycles : l.id = k.id /\ l.generation = k.generation
      BY DEF SameLives
    <3> QED BY <2>1, <3>1, <3>2 DEF IInv, LifecycleInv, Claimed
  <2>3. \A d, e \in Conns : pc'[d] = "insert" /\ Claimed(e, req[d].id, req[d].generation)' => e = d
    <3> SUFFICES ASSUME NEW d \in Conns, NEW e \in Conns, pc'[d] = "insert",
                        Claimed(e, req[d].id, req[d].generation)'
                 PROVE  e = d
      OBVIOUS
    <3>1. pc'[e] = "insert" /\ req'[e].id = req'[d].id /\ req'[e].generation = req'[d].generation
      BY DEF Claimed
    <3> QED BY <2>1, <3>1 DEF IInv, LifecycleInv, Claimed
  <2> QED BY <2>2, <2>3 DEF LifecycleInv, SameLives
<1> QED BY <1>3, <1>5, <1>6, <1>7, <1>8, <1>9 DEF IInv

(* A claim fences what was claimed before.                                 *)
LEMMA ClaimInv ==
  ASSUME IInv, TypeOK', NEW c \in Conns, claim_tunnel(c)
  PROVE  IInv'
<1> DEFINE i == req[c].id
           n == generation[i] + 1
<1>1. /\ UNCHANGED <<tunnels, tickets, lifecycles, browser>>
      /\ pc'[c] = "insert" /\ req'[c].id = i /\ req'[c].generation = n
      /\ \A d \in Conns : d # c => pc'[d] = pc[d] /\ req'[d] = req[d]
      /\ generation'[i] = n /\ lease'[i].generation = n
      /\ \A j \in Installations : j # i => generation'[j] = generation[j] /\ lease'[j] = lease[j]
  BY ClaimFacts DEF IInv, Moved
<1>2. i \in Installations /\ generation[i] \in Nat /\ \A j \in Installations : generation[j] \in Nat
  BY Numbers DEF IInv
<1>3. \A j \in Installations, k \in Nat : k <= generation[j] => k <= generation'[j]
  BY <1>1, <1>2
<1>4. GenerationInv'
  <2>1. \A d \in Conns : pc'[d] = "insert" => req'[d].generation <= generation'[req'[d].id]
    BY <1>1, <1>2, <1>3, Numbers DEF IInv, GenerationInv
  <2>2. \A l \in lifecycles : l.generation <= generation'[l.id]
    BY <1>3, Numbers DEF IInv, GenerationInv
  <2>3. \A b \in Browsers : browser[b].tunnel.generation <= generation'[browser[b].tunnel.id]
    BY <1>3, Numbers DEF IInv, GenerationInv
  <2>4. \A g \in Gateways, h \in Hosts : tunnels[g][h].generation <= generation'[tunnels[g][h].id]
    BY <1>3, Numbers DEF IInv, GenerationInv
  <2> QED BY <1>1, <2>1, <2>2, <2>3, <2>4 DEF GenerationInv
<1>5. \A d \in Conns, b \in Browsers : HoldsTicket(d, b)' => d # c /\ HoldsTicket(d, b) /\ req'[d] = req[d]
  BY <1>1 DEF HoldsTicket
<1>6. TicketInv' /\ ExactRouting' /\ NoAttachAfterFence'
  BY <1>1 DEF IInv, TicketInv, ExactRouting, NoAttachAfterFence
<1>7. HoldInv' /\ TicketClaimedOnce'
  <2>1. HoldInv'
    BY <1>1, <1>5 DEF IInv, HoldInv
  <2>2. TicketClaimedOnce'
    BY <1>1, <1>5 DEF IInv, TicketClaimedOnce
  <2> QED BY <2>1, <2>2
<1>8. StaleInv'
  <2> SUFFICES ASSUME NEW d \in Conns, pc'[d] \in Held, req'[d].stale
               PROVE  pc'[d] # "send" /\ ~IsCurrent(d)'
    BY DEF StaleInv, Held
  <2>1. d # c /\ req'[d] = req[d] /\ pc'[d] = pc[d]
    BY <1>1 DEF Held
  <2>2. ~IsCurrent(d) /\ pc[d] # "send" /\ HoldsTicket(d, req[d].ticket) /\ req[d].ticket \in Browsers
    BY <2>1 DEF IInv, StaleInv, Held, HoldsTicket, TypeOK, Request
  <2>3. req[d].generation <= generation[req[d].id]
    BY <2>2 DEF IInv, HoldInv, GenerationInv
  <2>4. lease'[req[d].id].generation # req[d].generation \/ lease'[req[d].id] = lease[req[d].id]
    BY <1>1, <1>2, <2>3, Numbers DEF IInv
  <2>5. ~IsCurrent(d)'
    BY <2>1, <2>2, <2>4 DEF IsCurrent, tunnel_is_current
  <2> QED BY <2>1, <2>2, <2>5
<1>9. LifecycleInv'
  <2>1. \A l \in lifecycles : ~(l.id = i /\ l.generation = n)
    BY <1>2, Numbers DEF IInv, GenerationInv
  <2>2. \A d \in Conns : pc[d] = "insert" => ~(req[d].id = i /\ req[d].generation = n)
    BY <1>2, Numbers DEF IInv, GenerationInv
  <2>3. \A d \in Conns, l \in lifecycles' : ~Claimed(d, l.id, l.generation)'
    BY <1>1, <2>1 DEF IInv, LifecycleInv, Claimed
  <2>4. \A d, e \in Conns : pc'[d] = "insert" /\ Claimed(e, req[d].id, req[d].generation)' => e = d
    BY <1>1, <2>2 DEF IInv, LifecycleInv, Claimed
  <2> QED BY <1>1, <2>3, <2>4 DEF IInv, LifecycleInv
<1> QED BY <1>4, <1>6, <1>7, <1>8, <1>9 DEF IInv
(* A tunnel is published and its lifecycle starts.                         *)
LEMMA InsertInv ==
  ASSUME IInv, TypeOK', NEW c \in Conns, insert_tunnel(c)
  PROVE  IInv'
<1> DEFINE r == req[c]
           g == GatewayOf[c]
           h == HostOf[r.id]
           x == Lifecycle(c, r.id, r.generation)
<1>1. /\ UNCHANGED <<store, tickets, browser>>
      /\ QuietConn(c) /\ pc[c] = "insert" /\ pc'[c] = "accept"
      /\ r.id \in Installations
  BY InsertFacts DEF IInv
<1>2. CASE UNCHANGED <<tunnels, lifecycles>>
  <2>1. SameLives(lifecycles')
    BY <1>2 DEF SameLives, IInv, TypeOK, LifecycleInv
  <2> QED BY <1>1, <1>2, <2>1, QuietInv
<1>3. CASE ~UNCHANGED <<tunnels, lifecycles>>
  <2>1. /\ tunnels'[g][h].id = r.id /\ tunnels'[g][h].generation = r.generation
        /\ \A k \in Gateways, m \in Hosts : k # g \/ m # h => tunnels'[k][m] = tunnels[k][m]
        /\ x.id = r.id /\ x.generation = r.generation
        /\ \E S : SameLives(S) /\ lifecycles' = S \cup {x}
    BY <1>3, InsertFacts DEF IInv
  <2>2. PICK S : SameLives(S) /\ lifecycles' = S \cup {x}
    BY <2>1
  <2> HIDE DEF x
  <2>3. \A d \in Conns : d # c => pc'[d] = pc[d] /\ req'[d] = req[d]
    BY <1>1 DEF QuietConn, Moved
  <2>4. r.generation <= generation[r.id]
    BY <1>1 DEF IInv, GenerationInv
  <2>5. GenerationInv'
    <3>1. \A k \in Gateways, m \in Hosts : tunnels'[k][m].generation <= generation[tunnels'[k][m].id]
      BY <2>1, <2>4 DEF IInv, GenerationInv
    <3>2. \A l \in lifecycles' : l.generation <= generation[l.id]
      BY <2>1, <2>2, <2>4 DEF IInv, GenerationInv, SameLives
    <3>3. \A d \in Conns : pc'[d] = "insert" => req'[d].generation <= generation[req'[d].id]
      BY <1>1, <2>3 DEF IInv, GenerationInv
    <3>4. \A b \in Browsers : browser[b].tunnel.generation <= generation[browser[b].tunnel.id]
      BY DEF IInv, GenerationInv
    <3> QED BY <1>1, <3>1, <3>2, <3>3, <3>4 DEF GenerationInv
  <2>6. \A d \in Conns, b \in Browsers : HoldsTicket(d, b)' => HoldsTicket(d, b) /\ req'[d] = req[d]
    BY <1>1, <2>3 DEF HoldsTicket
  <2>7. TicketInv' /\ ExactRouting' /\ NoAttachAfterFence'
    BY <1>1 DEF IInv, TicketInv, ExactRouting, NoAttachAfterFence
  <2>8. HoldInv'
    BY <1>1, <2>6 DEF IInv, HoldInv
  <2>9. TicketClaimedOnce'
    BY <1>1, <2>6 DEF IInv, TicketClaimedOnce
  <2>10. StaleInv'
    <3> SUFFICES ASSUME NEW d \in Conns, pc'[d] \in Held, req'[d].stale
                 PROVE  pc'[d] # "send" /\ ~IsCurrent(d)'
      BY DEF StaleInv, Held
    <3>1. d # c /\ req'[d] = req[d] /\ pc'[d] = pc[d]
      BY <1>1, <2>3 DEF Held
    <3>2. ~IsCurrent(d) /\ pc[d] # "send"
      BY <3>1 DEF IInv, StaleInv, Held
    <3>3. ~IsCurrent(d)'
      BY <1>1, <3>1, <3>2 DEF IsCurrent, tunnel_is_current
    <3> QED BY <3>1, <3>2, <3>3
  <2>11. LifecycleInv'
    <3>1. \A l \in S : ~(l.id = r.id /\ l.generation = r.generation)
      BY <1>1, <2>2 DEF IInv, LifecycleInv, Claimed, SameLives
    <3>2. \A l, m \in lifecycles' : l.id = m.id /\ l.generation = m.generation => l = m
      BY <2>1, <2>2, <3>1 DEF SameLives
    <3>3. \A d \in Conns : pc'[d] = "insert" => d # c /\ pc[d] = "insert" /\ req'[d] = req[d]
      BY <1>1, <2>3
    <3>4. \A d \in Conns : pc'[d] = "insert" => ~(req[d].id = r.id /\ req[d].generation = r.generation)
      BY <1>1, <3>3 DEF IInv, LifecycleInv, Claimed
    <3>5. \A d \in Conns, l \in lifecycles' : ~Claimed(d, l.id, l.generation)'
      <4> SUFFICES ASSUME NEW d \in Conns, NEW l \in lifecycles', Claimed(d, l.id, l.generation)' PROVE FALSE
        OBVIOUS
      <4>1. pc'[d] = "insert" /\ req'[d].id = l.id /\ req'[d].generation = l.generation
        BY DEF Claimed
      <4>2. l # x
        BY <2>1, <3>3, <3>4, <4>1
      <4>3. PICK k \in lifecycles : l.id = k.id /\ l.generation = k.generation
        BY <2>2, <4>2 DEF SameLives
      <4> QED BY <3>3, <4>1, <4>3 DEF IInv, LifecycleInv, Claimed
    <3>6. \A d, e \in Conns : pc'[d] = "insert" /\ Claimed(e, req[d].id, req[d].generation)' => e = d
      BY <3>3 DEF IInv, LifecycleInv, Claimed
    <3> QED BY <3>2, <3>5, <3>6 DEF LifecycleInv
  <2> QED BY <2>5, <2>7, <2>8, <2>9, <2>10, <2>11 DEF IInv
<1> QED BY <1>2, <1>3

(* A request takes its ticket: no other one has it, and the map has none.  *)
LEMMA TakeInv ==
  ASSUME IInv, TypeOK', NEW c \in Conns, take_ticket(c)
  PROVE  IInv'
<1>1. CASE Served(c) /\ UNCHANGED <<store, tunnels, tickets, lifecycles, browser>>
  <2>1. SameLives(lifecycles')
    BY <1>1 DEF SameLives, IInv, TypeOK, LifecycleInv
  <2> QED BY <1>1, <2>1, ServedFacts, QuietInv DEF IInv
<1>2. CASE ~Served(c)
  <2> DEFINE r == req[c]
             g == GatewayOf[c]
  <2>1. /\ UNCHANGED <<store, tunnels, lifecycles, browser>>
        /\ Moved(c) /\ pc'[c] = "map2" /\ r \in Request
        /\ req'[c].id = r.id /\ req'[c].generation = r.generation
        /\ req'[c].ticket = r.ticket /\ req'[c].stale = ~IsCurrent(c)
        /\ tickets' = [tickets EXCEPT ![g] = {t \in @ : ~ticket_claim_matches(t, r)}]
        /\ \E t \in tickets[g] : ticket_claim_matches(t, r)
    BY <1>2, TakeFacts DEF IInv
  <2>2. PICK u \in tickets[g] : ticket_claim_matches(u, r)
    BY <2>1
  <2>3. r.ticket \in Browsers /\ r.id \in Installations /\ g \in Gateways
    BY <2>1, Constants DEF Request
  <2> DEFINE b == r.ticket
  <2>4. /\ u.ticket = b /\ HostOf[r.id] = u.host /\ r.id = u.id /\ r.generation = u.generation
    BY <2>2 DEF ticket_claim_matches
  <2>5. /\ SiteOf[b] = g /\ browser[b].pc = "waiting" /\ u.host = SniOf[b]
        /\ u.id = browser[b].tunnel.id /\ u.generation = browser[b].tunnel.generation
    BY <2>2, <2>3, <2>4 DEF IInv, TicketInv
  <2>6. \A d \in Conns : ~HoldsTicket(d, b)
    BY <2>2, <2>3, <2>4 DEF IInv, TicketClaimedOnce
  <2>7. /\ \A k \in Gateways : tickets'[k] \subseteq tickets[k]
        /\ \A t \in tickets'[g] : ~ticket_claim_matches(t, r)
    BY <2>1, <2>3 DEF IInv, TypeOK
  <2>8. \A k \in Gateways : \A t \in tickets'[k] : t.ticket # b
    <3> SUFFICES ASSUME NEW k \in Gateways, NEW t \in tickets'[k], t.ticket = b PROVE FALSE
      OBVIOUS
    <3>1. t \in tickets[k]
      BY <2>7
    <3>2. k = g
      BY <2>5, <3>1 DEF IInv, TicketInv
    <3>3. t = u
      BY <2>2, <2>3, <2>4, <3>1, <3>2 DEF IInv, TicketInv
    <3> QED BY <2>2, <2>7, <3>2, <3>3
  <2>9. /\ \A d \in Conns : d # c => pc'[d] = pc[d] /\ req'[d] = req[d]
    BY <2>1 DEF Moved
  <2>10. \A d \in Conns, k \in Browsers : HoldsTicket(d, k)' =>
           \/ d = c /\ k = b
           \/ d # c /\ k # b /\ HoldsTicket(d, k) /\ req'[d] = req[d]
    BY <2>1, <2>6, <2>9 DEF HoldsTicket
  <2>11. GenerationInv'
    BY <2>1, <2>9 DEF IInv, GenerationInv
  <2>12. TicketInv'
    BY <2>1, <2>7 DEF IInv, TicketInv
  <2>13. HoldInv'
    BY <2>1, <2>4, <2>5, <2>10 DEF IInv, HoldInv
  <2>14. TicketClaimedOnce'
    BY <2>1, <2>5, <2>7, <2>8, <2>10 DEF IInv, TicketClaimedOnce
  <2>15. ExactRouting' /\ NoAttachAfterFence'
    BY <2>1 DEF IInv, ExactRouting, NoAttachAfterFence
  <2>16. StaleInv'
    <3> SUFFICES ASSUME NEW d \in Conns, pc'[d] \in Held, req'[d].stale
                 PROVE  pc'[d] # "send" /\ ~IsCurrent(d)'
      BY DEF StaleInv, Held
    <3>1. CASE d = c
      BY <2>1, <3>1 DEF IsCurrent, tunnel_is_current
    <3>2. CASE d # c
      <4>1. ~IsCurrent(d) /\ pc[d] # "send"
        BY <2>9, <3>2 DEF IInv, StaleInv, Held
      <4>2. ~IsCurrent(d)'
        BY <2>1, <2>9, <3>2, <4>1 DEF IsCurrent, tunnel_is_current
      <4> QED BY <2>9, <3>2, <4>1, <4>2
    <3> QED BY <3>1, <3>2
  <2>17. LifecycleInv'
    BY <2>1, <2>9 DEF IInv, LifecycleInv, Claimed
  <2> QED BY <2>11, <2>12, <2>13, <2>14, <2>15, <2>16, <2>17 DEF IInv
<1> QED BY <1>1, <1>2, TakeCases DEF IInv
(* The holder of the ticket joins the browser to its own stream.           *)
LEMMA SendInv ==
  ASSUME IInv, TypeOK', NEW c \in Conns, send_claim(c)
  PROVE  IInv'
<1>1. SameLives(lifecycles) /\ UNCHANGED <<store, tunnels, tickets, lifecycles>>
  BY SendFacts DEF SameLives, IInv, TypeOK, LifecycleInv
<1>2. CASE UNCHANGED browser
  <2>1. QuietConn(c)
    BY SendFacts DEF IInv
  <2> QED BY <1>1, <1>2, <2>1, QuietInv
<1>3. CASE ~UNCHANGED browser
  <2> DEFINE b == req[c].ticket
             r == req[c]
  <2>1. /\ QuietConn(c) /\ pc[c] = "send" /\ pc'[c] = "accept"
        /\ b \in Browsers
        /\ \A k \in Browsers : k # b => browser'[k] = browser[k]
    BY SendFacts DEF IInv
  <2>2. /\ browser[b].pc = "waiting" /\ browser'[b].pc = "attached"
        /\ browser'[b].tunnel = browser[b].tunnel
        /\ browser'[b].via = [id |-> r.id, generation |-> r.generation]
        /\ browser'[b].stale = r.stale
    <3>1. browser'[b] = browser[b] => UNCHANGED browser
      BY <2>1 DEF IInv, TypeOK
    <3> QED BY <1>3, <3>1, SendFacts DEF IInv
  <2>3. HoldsTicket(c, b)
    BY <2>1 DEF HoldsTicket
  <2>4. /\ HostOf[r.id] = SniOf[b] /\ r.id = browser[b].tunnel.id
        /\ r.generation = browser[b].tunnel.generation
    BY <2>1, <2>3 DEF IInv, HoldInv
  <2>5. /\ \A d \in Conns : HoldsTicket(d, b) => d = c
        /\ \A g \in Gateways : \A t \in tickets[g] : t.ticket # b
    BY <2>1, <2>3 DEF IInv, TicketClaimedOnce
  <2>6. ~r.stale
    BY <2>1 DEF IInv, StaleInv
  <2>7. browser'[b].via = browser[b].tunnel /\ browser'[b].via.id = r.id
    <3>1. browser[b].tunnel \in Tunnel
      BY <2>1, Numbers DEF IInv
    <3>2. \A t \in Tunnel : t = [id |-> t.id, generation |-> t.generation]
      BY DEF Tunnel
    <3> QED BY <2>2, <2>4, <3>1, <3>2
  <2>8. \A d \in Conns : d # c => pc'[d] = pc[d] /\ req'[d] = req[d]
    BY <2>1 DEF QuietConn, Moved
  <2>9. \A d \in Conns, k \in Browsers : HoldsTicket(d, k)' =>
          d # c /\ k # b /\ HoldsTicket(d, k) /\ req'[d] = req[d]
    BY <2>1, <2>5, <2>8 DEF HoldsTicket
  <2>10. \A k \in Browsers : browser'[k].tunnel = browser[k].tunnel
    BY <2>1, <2>2
  <2>11. GenerationInv'
    BY <1>1, <2>1, <2>8, <2>10 DEF IInv, GenerationInv
  <2>12. TicketInv'
    <3>1. \A g \in Gateways : \A t \in tickets[g] : t.ticket \in Browsers /\ t.ticket # b
      BY <2>5 DEF IInv, TypeOK, Ticket
    <3> QED BY <1>1, <2>1, <3>1 DEF IInv, TicketInv
  <2>13. HoldInv'
    BY <2>1, <2>9 DEF IInv, HoldInv
  <2>14. TicketClaimedOnce'
    BY <1>1, <2>1, <2>9 DEF IInv, TicketClaimedOnce
  <2>15. ExactRouting'
    BY <2>1, <2>2, <2>4, <2>7 DEF IInv, ExactRouting
  <2>16. NoAttachAfterFence'
    BY <2>1, <2>2, <2>6 DEF IInv, NoAttachAfterFence
  <2>17. StaleInv'
    <3> SUFFICES ASSUME NEW d \in Conns, pc'[d] \in Held, req'[d].stale
                 PROVE  pc'[d] # "send" /\ ~IsCurrent(d)'
      BY DEF StaleInv, Held
    <3>1. d # c /\ req'[d] = req[d] /\ pc'[d] = pc[d]
      BY <2>1, <2>8 DEF Held
    <3>2. ~IsCurrent(d) /\ pc[d] # "send"
      BY <3>1 DEF IInv, StaleInv, Held
    <3>3. ~IsCurrent(d)'
      BY <1>1, <3>1, <3>2 DEF IsCurrent, tunnel_is_current
    <3> QED BY <3>1, <3>2, <3>3
  <2>18. LifecycleInv'
    <3>1. \A d \in Conns : pc'[d] = "insert" => d # c /\ pc[d] = "insert" /\ req'[d] = req[d]
      BY <2>1, <2>8
    <3> QED BY <1>1, <3>1 DEF IInv, LifecycleInv, Claimed
  <2> QED BY <2>11, <2>12, <2>13, <2>14, <2>15, <2>16, <2>17, <2>18 DEF IInv
<1> QED BY <1>2, <1>3

(* A lifecycle step may remove its own entry.                              *)
LEMMA LifeInv ==
  ASSUME IInv, TypeOK', NEW l \in lifecycles, LifecycleStep(l)
  PROVE  IInv'
<1>1. /\ UNCHANGED <<store, tickets, pc, req, browser>>
      /\ SameLives(lifecycles')
      /\ \A g \in Gateways, h \in Hosts : tunnels'[g][h] \in {tunnels[g][h], NoTunnel}
  <2>1. TypeOK /\ LifecycleInv
    BY DEF IInv
  <2>2. UNCHANGED <<store, tickets, pc, req, browser>> /\ SameLives(lifecycles')
    BY <2>1, LifeFacts
  <2>3. \A g \in Gateways, h \in Hosts :
          \/ tunnels'[g][h] = tunnels[g][h]
          \/ /\ tunnels'[g][h] = NoTunnel /\ lifecycles' = lifecycles \ {l}
             /\ g = GatewayOf[l.conn] /\ tunnels[g][h] = [id |-> l.id, generation |-> l.generation]
    BY <2>1, LifeFacts
  <2> QED BY <2>2, <2>3
<1>2. GenerationInv'
  <2>1. NoTunnel.generation <= generation[NoTunnel.id]
    BY NullTypes, Numbers DEF IInv, Tunnel
  <2>2. \A g \in Gateways, h \in Hosts : tunnels'[g][h].generation <= generation[tunnels'[g][h].id]
    BY <1>1, <2>1 DEF IInv, GenerationInv
  <2>3. \A m \in lifecycles' : m.generation <= generation[m.id]
    BY <1>1 DEF IInv, GenerationInv, SameLives
  <2> QED BY <1>1, <2>2, <2>3 DEF IInv, GenerationInv
<1>3. TicketInv' /\ HoldInv' /\ TicketClaimedOnce' /\ ExactRouting' /\ NoAttachAfterFence'
  BY <1>1 DEF IInv, TicketInv, HoldInv, TicketClaimedOnce, HoldsTicket, ExactRouting, NoAttachAfterFence
<1>4. StaleInv'
  BY <1>1 DEF IInv, StaleInv, IsCurrent, tunnel_is_current
<1>5. LifecycleInv'
  <2>1. \A d \in Conns, m \in lifecycles' : ~Claimed(d, m.id, m.generation)'
    <3> SUFFICES ASSUME NEW d \in Conns, NEW m \in lifecycles' PROVE ~Claimed(d, m.id, m.generation)'
      OBVIOUS
    <3>1. PICK k \in lifecycles : m.id = k.id /\ m.generation = k.generation
      BY <1>1 DEF SameLives
    <3> QED BY <1>1, <3>1 DEF IInv, LifecycleInv, Claimed
  <2>2. \A d, e \in Conns : pc'[d] = "insert" /\ Claimed(e, req[d].id, req[d].generation)' => e = d
    BY <1>1 DEF IInv, LifecycleInv, Claimed
  <2> QED BY <1>1, <2>1, <2>2 DEF LifecycleInv, SameLives
<1> QED BY <1>2, <1>3, <1>4, <1>5 DEF IInv

(* A ticket that expires is still its browser's.                           *)
LEMMA ExpireInv ==
  ASSUME IInv, TypeOK', NEW g \in Gateways, NEW t \in tickets[g], ticket_expires(g, t)
  PROVE  IInv'
<1>1. /\ UNCHANGED <<store, tunnels, pc, req, lifecycles, browser>>
      /\ \A k \in Gateways : k # g => tickets'[k] = tickets[k]
  BY ExpireFacts DEF IInv
<1>2. PICK x \in Ticket :
        /\ tickets'[g] = (tickets[g] \ {t}) \cup {x}
        /\ x.ticket = t.ticket /\ x.host = t.host /\ x.id = t.id /\ x.generation = t.generation
  BY ExpireFacts DEF IInv
<1>3. \A k \in Gateways : \A u \in tickets'[k] : \E v \in tickets[k] :
        u.ticket = v.ticket /\ u.host = v.host /\ u.id = v.id /\ u.generation = v.generation
  BY <1>1, <1>2
<1>4. GenerationInv' /\ HoldInv' /\ ExactRouting' /\ NoAttachAfterFence' /\ StaleInv' /\ LifecycleInv'
  BY <1>1 DEF IInv, GenerationInv, HoldInv, HoldsTicket, ExactRouting, NoAttachAfterFence, StaleInv,
              IsCurrent, tunnel_is_current, LifecycleInv, Claimed
<1>5. TicketClaimedOnce'
  <2>1. \A c \in Conns, b \in Browsers : HoldsTicket(c, b)' <=> HoldsTicket(c, b)
    BY <1>1 DEF HoldsTicket
  <2> QED BY <1>1, <1>3, <2>1 DEF IInv, TicketClaimedOnce
<1>6. TicketInv'
  <2> SUFFICES ASSUME NEW k \in Gateways, NEW u \in tickets'[k]
               PROVE  /\ SiteOf[u.ticket] = k
                      /\ browser[u.ticket].pc = "waiting"
                      /\ u.host = SniOf[u.ticket]
                      /\ u.id = browser[u.ticket].tunnel.id
                      /\ u.generation = browser[u.ticket].tunnel.generation
                      /\ \A v \in tickets'[k] : v.ticket = u.ticket => v = u
    BY <1>1 DEF TicketInv
  <2>1. /\ SiteOf[u.ticket] = k
        /\ browser[u.ticket].pc = "waiting"
        /\ u.host = SniOf[u.ticket]
        /\ u.id = browser[u.ticket].tunnel.id
        /\ u.generation = browser[u.ticket].tunnel.generation
    BY <1>3 DEF IInv, TicketInv
  <2>2. \A v, w \in tickets[k] : v.ticket = w.ticket => v = w
    BY DEF IInv, TicketInv
  <2>3. \A v \in tickets'[k] : v.ticket = u.ticket => v = u
    BY <1>1, <1>2, <2>2
  <2> QED BY <2>1, <2>3
<1> QED BY <1>4, <1>5, <1>6 DEF IInv
(* A browser looks its tunnel up, publishes its ticket, or closes.         *)
LEMMA BrowserInv ==
  ASSUME IInv, TypeOK', NEW b \in Browsers, BrowserStep(b)
  PROVE  IInv'
<1> DEFINE x == [ticket |-> b, host |-> SniOf[b], id |-> browser[b].tunnel.id,
                 generation |-> browser[b].tunnel.generation, expired |-> FALSE]
           s == SiteOf[b]
<1>1. /\ UNCHANGED <<store, tunnels, pc, req, lifecycles>>
      /\ \A k \in Browsers : k # b => browser'[k] = browser[k]
  BY BrowserFacts DEF IInv
<1>2. \/ /\ UNCHANGED tickets /\ browser[b].pc = "new" /\ browser'[b].pc = "found"
         /\ browser'[b].tunnel = tunnels[SiteOf[b]][SniOf[b]]
      \/ /\ UNCHANGED tickets /\ browser'[b].tunnel = browser[b].tunnel
         /\ browser[b].pc # "waiting" /\ browser'[b].pc \in {"current", "closed"}
         /\ browser'[b].pc = "current" => browser[b].pc = "found"
      \/ /\ browser[b].pc = "current" /\ browser'[b].pc = "waiting"
         /\ browser'[b].tunnel = browser[b].tunnel
         /\ tickets' = [tickets EXCEPT ![s] = @ \cup {x}]
      \/ /\ browser[b].pc = "waiting" /\ browser'[b].pc = "closed"
         /\ browser'[b].tunnel = browser[b].tunnel
         /\ tickets' = [tickets EXCEPT ![s] = {t \in @ : t.ticket # b}]
  BY BrowserFacts DEF IInv
<1>3. /\ x.ticket = b /\ x.host = SniOf[b] /\ x.id = browser[b].tunnel.id
      /\ x.generation = browser[b].tunnel.generation
  OBVIOUS
<1> HIDE DEF x
<1>4. s \in Gateways /\ SniOf[b] \in Hosts
  BY Constants
<1>5. \A c \in Conns, k \in Browsers : HoldsTicket(c, k)' <=> HoldsTicket(c, k)
  BY <1>1 DEF HoldsTicket
<1>6. /\ browser'[b].pc # "attached"
      /\ \/ browser'[b].tunnel = browser[b].tunnel
         \/ browser[b].pc = "new" /\ browser'[b].tunnel = tunnels[s][SniOf[b]]
  BY <1>2
<1>7. GenerationInv'
  <2>1. \A k \in Browsers : browser'[k].tunnel.generation <= generation[browser'[k].tunnel.id]
    BY <1>1, <1>4, <1>6 DEF IInv, GenerationInv
  <2> QED BY <1>1, <2>1 DEF IInv, GenerationInv
<1>8. ExactRouting' /\ NoAttachAfterFence'
  BY <1>1, <1>6 DEF IInv, ExactRouting, NoAttachAfterFence
<1>9. StaleInv' /\ LifecycleInv'
  BY <1>1 DEF IInv, StaleInv, IsCurrent, tunnel_is_current, LifecycleInv, Claimed
<1>10. HoldInv'
  <2> SUFFICES ASSUME NEW c \in Conns, HoldsTicket(c, b)
               PROVE  /\ browser'[b].pc \in {"waiting", "closed"}
                      /\ browser'[b].tunnel = browser[b].tunnel
    BY <1>1, <1>5 DEF IInv, HoldInv
  <2>1. browser[b].pc \in {"waiting", "closed"}
    BY DEF IInv, HoldInv
  <2> QED BY <1>2, <2>1
<1>11. \A k \in Gateways : \A t \in tickets'[k] :
         \/ t \in tickets[k] /\ (browser'[b].pc = "closed" => t.ticket # b)
         \/ t = x /\ k = s /\ browser[b].pc = "current" /\ browser'[b].pc = "waiting"
                  /\ browser'[b].tunnel = browser[b].tunnel
  <2>1. tickets \in [Gateways -> SUBSET Ticket]
    BY DEF IInv, TypeOK
  <2>2. \A k \in Gateways : \A t \in tickets[k] : t.ticket = b => browser[b].pc = "waiting" /\ k = s
    BY DEF IInv, TicketInv
  <2>3. CASE UNCHANGED tickets /\ browser[b].pc # "waiting"
    BY <2>2, <2>3
  <2>4. CASE /\ tickets' = [tickets EXCEPT ![s] = @ \cup {x}]
             /\ browser[b].pc = "current" /\ browser'[b].pc = "waiting"
             /\ browser'[b].tunnel = browser[b].tunnel
    BY <1>4, <2>1, <2>4
  <2>5. CASE tickets' = [tickets EXCEPT ![s] = {t \in @ : t.ticket # b}]
    BY <1>4, <2>1, <2>2, <2>5
  <2> QED BY <1>2, <2>3, <2>4, <2>5
<1>12. \A k \in Gateways : \A t \in tickets[k] : t.ticket \in Browsers
  BY DEF IInv, TypeOK, Ticket
<1>13. TicketClaimedOnce'
  <2>1. ASSUME NEW c \in Conns, HoldsTicket(c, b) PROVE browser[b].pc # "current"
    BY <2>1 DEF IInv, HoldInv
  <2>2. ASSUME NEW c \in Conns, NEW k \in Browsers, HoldsTicket(c, k),
               NEW g \in Gateways, NEW t \in tickets'[g]
        PROVE  t.ticket # k
    BY <1>3, <1>11, <2>1, <2>2 DEF IInv, TicketClaimedOnce
  <2>3. \A k \in Browsers : browser'[k].pc = "attached" => browser[k].pc = "attached"
    BY <1>1, <1>6
  <2> QED BY <1>5, <2>2, <2>3 DEF IInv, TicketClaimedOnce
<1>14. TicketInv'
  <2> SUFFICES ASSUME NEW k \in Gateways, NEW t \in tickets'[k]
               PROVE  /\ SiteOf[t.ticket] = k
                      /\ browser'[t.ticket].pc = "waiting"
                      /\ t.host = SniOf[t.ticket]
                      /\ t.id = browser'[t.ticket].tunnel.id
                      /\ t.generation = browser'[t.ticket].tunnel.generation
                      /\ \A u \in tickets'[k] : u.ticket = t.ticket => u = t
    BY DEF TicketInv
  <2>1. CASE t \in tickets[k] /\ t.ticket # b
    <3>1. t.ticket \in Browsers /\ browser'[t.ticket] = browser[t.ticket]
      BY <1>1, <1>12, <2>1
    <3>2. \A u \in tickets'[k] : u.ticket = t.ticket => u = t
      BY <1>3, <1>11, <2>1 DEF IInv, TicketInv
    <3> QED BY <2>1, <3>1, <3>2 DEF IInv, TicketInv
  <2>2. CASE t \in tickets[k] /\ t.ticket = b
    <3>1. browser[b].pc = "waiting" /\ browser'[b].pc # "closed"
      BY <1>11, <2>2 DEF IInv, TicketInv
    <3> QED BY <1>2, <3>1
  <2>3. CASE t = x /\ k = s /\ browser[b].pc = "current" /\ browser'[b].pc = "waiting"
             /\ browser'[b].tunnel = browser[b].tunnel
    <3>1. \A u \in tickets[k] : u.ticket # b
      BY <2>3 DEF IInv, TicketInv
    <3>2. \A u \in tickets'[k] : u.ticket = t.ticket => u = t
      BY <1>3, <1>11, <2>3, <3>1
    <3> QED BY <1>3, <2>3, <3>2
  <2> QED BY <1>11, <2>1, <2>2, <2>3
<1> QED BY <1>7, <1>8, <1>9, <1>10, <1>13, <1>14 DEF IInv

-----------------------------------------------------------------------------
(***************************************************************************)
(* The invariant and what follows from it.                                 *)
(***************************************************************************)
LEMMA InvInit == Init => IInv
<1> SUFFICES ASSUME Init PROVE IInv
  OBVIOUS
<1>1. TypeOK
  BY ShapeInit
<1>2. GenerationInv
  BY <1>1, NullTypes, Numbers DEF Init, GenerationInv
<1>3. \A b \in Browsers : browser[b].pc = "new"
  BY NullTypes DEF Init
<1>4. TicketInv /\ HoldInv /\ TicketClaimedOnce /\ StaleInv /\ LifecycleInv
  BY DEF Init, TicketInv, HoldInv, TicketClaimedOnce, HoldsTicket, StaleInv, LifecycleInv, Claimed
<1>5. ExactRouting /\ NoAttachAfterFence
  BY <1>3 DEF ExactRouting, NoAttachAfterFence
<1> QED BY <1>1, <1>2, <1>4, <1>5 DEF IInv

LEMMA InvStep ==
  ASSUME IInv, [Next]_vars
  PROVE  IInv'
<1>1. TypeOK'
  BY TypeStep DEF IInv
<1>2. CASE UNCHANGED vars
  <2>1. GenerationInv' /\ TicketInv' /\ LifecycleInv'
    BY <1>2 DEF vars, IInv, GenerationInv, TicketInv, LifecycleInv, Claimed
  <2>2. HoldInv' /\ TicketClaimedOnce' /\ ExactRouting' /\ StaleInv' /\ NoAttachAfterFence'
    BY <1>2 DEF vars, IInv, HoldInv, TicketClaimedOnce, HoldsTicket, ExactRouting, StaleInv,
                IsCurrent, tunnel_is_current, NoAttachAfterFence
  <2> QED BY <1>1, <2>1, <2>2 DEF IInv
<1>3. CASE StoreStep
  BY <1>1, <1>3, StoreInv
<1>4. ASSUME NEW c \in Conns, ConnStep(c) PROVE IInv'
  <2>1. ASSUME \/ \E i \in Installations : post_authenticate(c, i)
               \/ \E i \in Installations, n \in Generations \ {0}, b \in Browsers, h \in Hosts :
                    connect_authenticate(c, i, n, b, h)
               \/ connect_check(c) \/ connect_recheck(c) \/ connection_reopens(c)
        PROVE  IInv'
    <3>1. QuietConn(c) /\ UNCHANGED <<store, tunnels, tickets, lifecycles, browser>>
      BY <2>1, QuietConnSteps DEF IInv
    <3>2. SameLives(lifecycles')
      BY <3>1 DEF SameLives, IInv, TypeOK, LifecycleInv
    <3> QED BY <1>1, <3>1, <3>2, QuietInv
  <2>2. CASE connection_fails(c)
    <3>1. /\ UNCHANGED <<store, tunnels, tickets, browser>>
          /\ QuietConn(c) /\ SameLives(lifecycles')
      BY <2>2, FailFacts DEF IInv
    <3> QED BY <1>1, <3>1, QuietInv
  <2> QED BY <1>1, <1>4, <2>1, <2>2, ClaimInv, InsertInv, TakeInv, SendInv DEF ConnStep
<1>5. ASSUME NEW l \in lifecycles, LifecycleStep(l) PROVE IInv'
  BY <1>1, <1>5, LifeInv
<1>6. ASSUME NEW b \in Browsers, BrowserStep(b) PROVE IInv'
  BY <1>1, <1>6, BrowserInv
<1>7. ASSUME NEW g \in Gateways, NEW t \in tickets[g], ticket_expires(g, t) PROVE IInv'
  BY <1>1, <1>7, ExpireInv
<1> QED BY <1>2, <1>3, <1>4, <1>5, <1>6, <1>7 DEF Next

LEMMA Invariant == Spec => []IInv
BY InvInit, InvStep, PTL DEF Spec
(* Every table, map and task keeps its shape, whichever awaits interleave. *)
THEOREM TypeCorrect == Spec => []TypeOK
BY Invariant, PTL DEF IInv

(* A browser is only joined to a stream of the installation that owns the  *)
(* name it asked for, under the generation its ticket was minted for.      *)
THEOREM RoutedExactly == Spec => []ExactRouting
BY Invariant, PTL DEF IInv

(* A ticket is in one place: its map, or one request's hands.              *)
THEOREM ClaimedOnce == Spec => []TicketClaimedOnce
BY Invariant, PTL DEF IInv

(* A generation fenced before its ticket was taken gets no stream.         *)
THEOREM FencedNotAttached == Spec => []NoAttachAfterFence
BY Invariant, PTL DEF IInv

(* A tunnel leaves the map for a higher generation, or by the end of the   *)
(* one lifecycle that is its own.                                          *)
LEMMA Displacement ==
  ASSUME IInv, [Next]_vars, NEW g \in Gateways, NEW h \in Hosts, tunnels'[g][h] # tunnels[g][h]
  PROVE  \/ tunnels'[g][h].generation > tunnels[g][h].generation
         \/ \E l \in lifecycles :
              /\ GatewayOf[l.conn] = g /\ l.id = tunnels[g][h].id
              /\ l.generation = tunnels[g][h].generation /\ lifecycles' = lifecycles \ {l}
<1>1. tunnels[g][h].generation \in Nat
  BY Numbers DEF IInv
<1>2. CASE \E c \in Conns : insert_tunnel(c)
  <2>1. PICK c \in Conns : insert_tunnel(c)
    BY <1>2
  <2>2. /\ TypeOK /\ LifecycleInv
    BY DEF IInv
  <2>3. \/ UNCHANGED tunnels
        \/ /\ tunnels'[GatewayOf[c]][HostOf[req[c].id]].generation = req[c].generation
           /\ tunnels[GatewayOf[c]][HostOf[req[c].id]].generation < req[c].generation
           /\ \A k \in Gateways, m \in Hosts :
                k # GatewayOf[c] \/ m # HostOf[req[c].id] => tunnels'[k][m] = tunnels[k][m]
    BY <2>1, <2>2, InsertFacts
  <2>4. req[c].generation \in Nat
    BY Numbers DEF IInv
  <2> QED BY <1>1, <2>3, <2>4
<1>3. CASE \E l \in lifecycles : LifecycleStep(l)
  <2>1. PICK l \in lifecycles : LifecycleStep(l)
    BY <1>3
  <2>2. TypeOK /\ LifecycleInv
    BY DEF IInv
  <2>3. lifecycles' = lifecycles \ {l} /\ g = GatewayOf[l.conn]
        /\ tunnels[g][h] = [id |-> l.id, generation |-> l.generation]
    <3>1. \A k \in Gateways, m \in Hosts :
            \/ tunnels'[k][m] = tunnels[k][m]
            \/ /\ tunnels'[k][m] = NoTunnel /\ lifecycles' = lifecycles \ {l}
               /\ k = GatewayOf[l.conn] /\ tunnels[k][m] = [id |-> l.id, generation |-> l.generation]
      BY <2>1, <2>2, LifeFacts
    <3> QED BY <3>1
  <2> QED BY <2>3
<1>4. CASE UNCHANGED tunnels
  BY <1>4
<1> QED BY <1>2, <1>3, <1>4
  DEF Next, vars, StoreStep, rotate_tunnel_bearer, rotate_other_bearer, relocate, retire, lease_expires,
      ConnStep, post_authenticate, connect_authenticate, claim_tunnel, connect_check, take_ticket,
      connect_recheck, send_claim, connection_fails, connection_reopens, BrowserStep, lookup_tunnel,
      check_tunnel, insert_ticket, browser_gives_up, bridge, ticket_expires

(* A stale claim or a late cleanup never displaces a newer tunnel.         *)
THEOREM NewerStays == Spec => DisplacedOnlyByNewer
<1>1. ASSUME IInv, [Next]_vars
      PROVE  [\A g \in Gateways, h \in Hosts :
                LET t == tunnels[g][h]
                    ofT == {l \in lifecycles : /\ GatewayOf[l.conn] = g
                                              /\ l.id = t.id
                                              /\ l.generation = t.generation}
                IN tunnels'[g][h] # t =>
                     \/ tunnels'[g][h].generation > t.generation
                     \/ ofT # {} /\ ofT \cap lifecycles' = {}]_vars
  <2> SUFFICES ASSUME NEW g \in Gateways, NEW h \in Hosts, tunnels'[g][h] # tunnels[g][h],
                      ~(tunnels'[g][h].generation > tunnels[g][h].generation)
               PROVE  LET ofT == {l \in lifecycles : /\ GatewayOf[l.conn] = g
                                                    /\ l.id = tunnels[g][h].id
                                                    /\ l.generation = tunnels[g][h].generation}
                      IN ofT # {} /\ ofT \cap lifecycles' = {}
    OBVIOUS
  <2>1. PICK l \in lifecycles :
          /\ GatewayOf[l.conn] = g /\ l.id = tunnels[g][h].id
          /\ l.generation = tunnels[g][h].generation /\ lifecycles' = lifecycles \ {l}
    BY <1>1, Displacement
  <2>2. \A m \in lifecycles : m.id = l.id /\ m.generation = l.generation => m = l
    BY <1>1 DEF IInv, LifecycleInv
  <2> QED BY <2>1, <2>2
<1> QED BY <1>1, Invariant, PTL DEF Spec, DisplacedOnlyByNewer
=============================================================================
