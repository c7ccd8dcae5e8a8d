---------------------------- MODULE TunnelClient ----------------------------
(***************************************************************************)
(* The tunnel client: one run of run_until_ready after another under       *)
(* Broker's supervisor, the decoder of the control stream and the stream   *)
(* tasks (bloom-relay-client, bloom-relay-protocol). The gateway, the      *)
(* network, Broker and the credentials of the control plane are here as    *)
(* far as the client meets them; TunnelGateway and Credentials have them   *)
(* in full.                                                                *)
(*                                                                         *)
(* A gateway's DATA frames may reach the client split and joined in any    *)
(* way, as a proxy between them re-frames the stream. The gateway speaks   *)
(* the client's version and offers only the tunnel's own hostname, so the  *)
(* refusals of other versions and hostnames have nothing to refuse.        *)
(***************************************************************************)
EXTENDS Naturals, Sequences, FiniteSets

CONSTANTS
  MaxEvents,       \* bound: control events ever written
  Opens,           \* which of them are OPEN (the others are heartbeats)
  EventLen,        \* bytes of an encoded event, its newline included
  MaxFrame,        \* bytes of a DATA frame (16 KiB)
  MaxControlBody,  \* MAX_CONTROL_BODY (16 KiB)
  MaxStreams,      \* MAX_INSTALLATION_STREAMS (128)
  MaxCredential,   \* bound: tunnel credentials ever issued
  MaxFaults        \* bound: losses, GOAWAYs and shutdowns

Events == 1 .. MaxEvents

ASSUME ClientAssumption ==
  /\ {MaxEvents, MaxFaults} \subseteq Nat
  /\ {MaxFrame, MaxControlBody, MaxStreams, MaxCredential} \subseteq Nat \ {0}
  /\ EventLen \in Nat \ {0, 1}
  /\ EventLen <= MaxControlBody
  /\ Opens \subseteq Events

VARIABLES
  current,    \* the tunnel credential the store accepts
  file,       \* the credential in the client's file (0: none yet)
  pc,         \* where the client's run is
  held,       \* the credential this run read
  ready,      \* the readiness Broker watches
  link,       \* the connection as the client finds it
  gateway,    \* the gateway's side of the control request
  lease,      \* the lease of the claim has not been fenced
  late,       \* history: the claim followed a rotation it had not seen
  written,    \* events the gateway wrote in this session
  wire,       \* their bytes still under way
  pending,    \* ControlDecoder.pending
  acted,      \* events the decoder has handed to the loop in this session
  goaway,     \* the peer has sent GOAWAY
  streams,    \* stream tasks, each with its permit and ticket
  finished,   \* completions the JoinSet has not yet handed over
  events,     \* events written so far
  faults      \* faults so far

broker  == <<current, file>>
session == <<link, gateway, lease, late>>
stream  == <<written, wire, pending, acted>>
tasks   == <<streams, finished>>
vars == <<broker, pc, held, ready, session, stream, goaway, tasks, events, faults>>

-----------------------------------------------------------------------------
(***************************************************************************)
(* ControlDecoder. Byte i of event e is <<e, i>>, the last one a newline.  *)
(***************************************************************************)
Bytes == Events \X (1 .. EventLen)
IsNewline(b) == b[2] = EventLen
Encode(e) == [i \in 1 .. EventLen |-> <<e, i>>]

(* The places of the newlines in a buffer, in order; the 0th is its start. *)
LineEnds(s) == {i \in DOMAIN s : IsNewline(s[i])}
LineEnd(s, k) ==
  IF k = 0 THEN 0
  ELSE CHOOSE i \in LineEnds(s) : Cardinality({j \in LineEnds(s) : j <= i}) = k
Line(s, k) == SubSeq(s, LineEnd(s, k - 1) + 1, LineEnd(s, k))
Lines(s) == 1 .. Cardinality(LineEnds(s))

TooLarge(chunk) ==
  Len(chunk) > MaxControlBody \/ Len(pending) + Len(chunk) > MaxControlBody

InvalidEncoding(chunk) ==
  \E k \in Lines(pending \o chunk) :
    \A e \in Events : Line(pending \o chunk, k) # Encode(e)

(* Slip: a frame is taken for one message.                                 *)
MutDecoded(chunk) ==
  LET s == pending \o chunk
  IN [k \in Lines(s) \cap {1} |-> CHOOSE e \in Events : Line(s, k) = Encode(e)]

(* The events of the lines a chunk completes; what is left stays pending.  *)
Decoded(chunk) ==
  LET s == pending \o chunk
  IN [k \in Lines(s) |-> CHOOSE e \in Events : Line(s, k) = Encode(e)]

Rest(chunk) ==
  LET s == pending \o chunk
  IN SubSeq(s, LineEnd(s, Cardinality(LineEnds(s))) + 1, Len(s))

-----------------------------------------------------------------------------
(***************************************************************************)
(* The client's run.                                                       *)
(***************************************************************************)
(* run_until_ready returns, with whatever result: its locals go, the tasks *)
(* of the JoinSet are aborted, the connection closes and ReadyGuard takes  *)
(* the readiness back.                                                     *)
Return ==
  /\ pc' = "down"
  /\ held' = 0
  /\ ready' = FALSE
  /\ link' = "none" /\ gateway' = "none" /\ lease' = FALSE /\ late' = FALSE
  /\ written' = <<>> /\ wire' = <<>> /\ pending' = <<>> /\ acted' = <<>>
  /\ goaway' = FALSE
  /\ streams' = {} /\ finished' = {}

(* Slip: the secret read by the first run is kept for the later ones.      *)
MutRead ==
  /\ pc = "down"
  /\ file > 0
  /\ held' = 1
  /\ pc' = "dial"
  /\ UNCHANGED <<broker, ready, session, stream, goaway, tasks, events, faults>>

(* The supervisor starts the next run, which reads the credential file     *)
(* once. A file that is not a credential ends the run at once.             *)
read_credential ==
  /\ pc = "down"
  /\ file > 0
  /\ held' = file
  /\ pc' = "dial"
  /\ UNCHANGED <<broker, ready, session, stream, goaway, tasks, events, faults>>

(* TCP, TLS and HTTP/2 are up and POST /v1/tunnel is on its way.           *)
post_tunnel ==
  /\ pc = "dial"
  /\ pc' = "posted"
  /\ link' = "up"
  /\ UNCHANGED <<broker, held, ready, gateway, lease, late, stream, goaway, tasks, events, faults>>

(* The gateway refuses a credential that is not the current one: Rejected. *)
post_refused ==
  /\ pc = "posted"
  /\ link = "up"
  /\ gateway = "none"
  /\ held # current
  /\ Return
  /\ UNCHANGED <<broker, events, faults>>

(* A success status: the tunnel is claimed and Broker is told so.          *)
post_accepted ==
  /\ pc = "posted"
  /\ link = "up"
  /\ gateway \in {"claimed", "ended"}
  /\ pc' = "serving"
  /\ ready' = TRUE
  /\ UNCHANGED <<broker, held, session, stream, goaway, tasks, events, faults>>

(* Slip: an OPEN is served without a permit.                               *)
MutSpawned(unexpired) == unexpired

(* The events a frame completes that get a stream task: those OPENs that   *)
(* are unexpired by the client's clock, as far as the permits go.          *)
Spawned(unexpired) ==
  {e \in unexpired :
     Cardinality({f \in unexpired : f <= e}) + Cardinality(streams) <= MaxStreams}

SpawnedTask(e) == [ticket |-> e, pc |-> "spawned"]

(* A DATA frame of n bytes.                                                *)
frame(n) ==
  LET chunk == SubSeq(wire, 1, n) IN
  /\ pc = "serving"
  /\ link = "up"
  /\ n <= Len(wire)
  /\ IF TooLarge(chunk) \/ InvalidEncoding(chunk)
     THEN Return
     ELSE /\ wire' = SubSeq(wire, n + 1, Len(wire))
          /\ pending' = Rest(chunk)
          /\ acted' = acted \o Decoded(chunk)
          /\ \E unexpired \in SUBSET (Opens \cap {Decoded(chunk)[k] : k \in DOMAIN Decoded(chunk)}) :
               streams' = streams \cup {SpawnedTask(e) : e \in Spawned(unexpired)}
          /\ UNCHANGED <<pc, held, ready, session, written, goaway, finished>>
  /\ UNCHANGED <<broker, events, faults>>

(* The control stream ends: Transport.                                     *)
end_of_stream ==
  /\ pc = "serving"
  /\ link = "up"
  /\ gateway = "ended"
  /\ wire = <<>>
  /\ Return
  /\ UNCHANGED <<broker, events, faults>>

(* No answer for ten seconds, or no control data for 45.                   *)
data_timeout ==
  /\ link = "silent"
  /\ Return
  /\ UNCHANGED <<broker, events, faults>>

(* The HTTP/2 driver's task completes: any completion is fatal.            *)
connection_completes ==
  /\ link = "closed"
  /\ Return
  /\ UNCHANGED <<broker, events, faults>>

Finish(s, retired) ==
  /\ streams' = streams \ {s}
  /\ finished' = finished \cup {[ticket |-> s.ticket, retired |-> retired]}
  /\ UNCHANGED <<broker, pc, held, ready, session, stream, goaway, events, faults>>

Proceed(s, l) ==
  /\ streams' = (streams \ {s}) \cup {[s EXCEPT !.pc = l]}
  /\ UNCHANGED <<broker, pc, held, ready, session, stream, goaway, finished, events, faults>>

(* send_request: after a GOAWAY no new stream can be opened.               *)
send_request(s) ==
  /\ s.pc = "spawned"
  /\ IF goaway THEN Finish(s, TRUE) ELSE Proceed(s, "connect")

(* The gateway answered success and the fixed upstream took the connection.*)
open_stream(s) ==
  /\ s.pc = "connect"
  /\ Proceed(s, "bridge")

(* CONNECT refused or unanswered, the upstream down, either side done, a   *)
(* reset, or a stream timeout; the GOAWAY may have cut this stream off.    *)
stream_ends(s) ==
  /\ s.pc \in {"connect", "bridge"}
  /\ \E retired \in {FALSE, goaway} : Finish(s, retired)

(* Slip: every result of a stream is taken to concern its browser only.    *)
MutFatal(c) == FALSE

(* A stream that met the GOAWAY retires the tunnel; every other result of  *)
(* a stream concerns its browser only.                                     *)
into_fatal_error(c) == c.retired

join_next(c) ==
  \/ /\ into_fatal_error(c)
     /\ Return
     /\ UNCHANGED <<broker, events, faults>>
  \/ /\ ~into_fatal_error(c)
     /\ finished' = finished \ {c}
     /\ UNCHANGED <<broker, pc, held, ready, session, stream, goaway, streams, events, faults>>

-----------------------------------------------------------------------------
(***************************************************************************)
(* What surrounds the client.                                              *)
(***************************************************************************)
Fault == faults < MaxFaults /\ faults' = faults + 1

(* Broker shuts the run down, or a step of connecting fails.               *)
shutdown ==
  /\ pc # "down"
  /\ Fault
  /\ Return
  /\ UNCHANGED <<broker, events>>

(* The connection is gone, with a word to the client or without one.       *)
connection_lost ==
  /\ link = "up"
  /\ Fault
  /\ link' \in {"closed", "silent"}
  /\ gateway' = "none" /\ lease' = FALSE /\ wire' = <<>>
  /\ UNCHANGED <<broker, pc, held, ready, late, written, pending, acted, goaway, tasks, events>>

peer_goaway ==
  /\ link = "up"
  /\ ~goaway
  /\ Fault
  /\ goaway' = TRUE
  /\ UNCHANGED <<broker, pc, held, ready, session, stream, tasks, events>>

(* A rotation commits: the old bearer is revoked and the lease deleted.    *)
rotate_credential ==
  /\ current < MaxCredential
  /\ current' = current + 1
  /\ lease' = FALSE
  /\ UNCHANGED <<file, pc, held, ready, link, gateway, late, stream, goaway, tasks, events, faults>>

(* Broker has the receipt and replaces the protected file.                 *)
install_credential ==
  /\ file < current
  /\ file' = current
  /\ UNCHANGED <<current, pc, held, ready, session, stream, goaway, tasks, events, faults>>

gateway_authenticates ==
  /\ pc = "posted"
  /\ link = "up"
  /\ gateway = "none"
  /\ held = current
  /\ gateway' = "authenticated"
  /\ UNCHANGED <<broker, pc, held, ready, link, lease, late, stream, goaway, tasks, events, faults>>

gateway_claims ==
  /\ gateway = "authenticated"
  /\ gateway' = "claimed"
  /\ lease' = TRUE
  /\ late' = (held # current)
  /\ UNCHANGED <<broker, pc, held, ready, link, stream, goaway, tasks, events, faults>>

(* tunnel_lifecycle writes a heartbeat or an OPEN.                         *)
gateway_writes ==
  /\ gateway = "claimed"
  /\ events < MaxEvents
  /\ events' = events + 1
  /\ written' = Append(written, events + 1)
  /\ wire' = wire \o Encode(events + 1)
  /\ UNCHANGED <<broker, pc, held, ready, session, pending, acted, goaway, tasks, faults>>

(* The lease is lost: the next heartbeat ends the lifecycle.               *)
gateway_ends ==
  /\ gateway = "claimed"
  /\ ~lease
  /\ gateway' = "ended"
  /\ UNCHANGED <<broker, pc, held, ready, link, lease, late, stream, goaway, tasks, events, faults>>

-----------------------------------------------------------------------------
Init ==
  /\ current = 1 /\ file = 0
  /\ pc = "down" /\ held = 0 /\ ready = FALSE
  /\ link = "none" /\ gateway = "none" /\ lease = FALSE /\ late = FALSE
  /\ written = <<>> /\ wire = <<>> /\ pending = <<>> /\ acted = <<>>
  /\ goaway = FALSE
  /\ streams = {} /\ finished = {}
  /\ events = 0 /\ faults = 0

RunStep ==
  \/ read_credential \/ post_tunnel \/ post_refused \/ post_accepted
  \/ \E n \in 1 .. MaxFrame : frame(n)
  \/ end_of_stream \/ data_timeout \/ connection_completes
  \/ \E c \in finished : join_next(c)

StreamStep(s) == send_request(s) \/ open_stream(s) \/ stream_ends(s)

GatewayStep == gateway_authenticates \/ gateway_claims \/ gateway_ends

Next ==
  \/ RunStep
  \/ \E s \in streams : StreamStep(s)
  \/ GatewayStep \/ gateway_writes
  \/ rotate_credential \/ install_credential
  \/ shutdown \/ connection_lost \/ peer_goaway

Spec == Init /\ [][Next]_vars

(* The client's loop polls every branch of its select, tasks are scheduled,*)
(* requests and streams have timeouts, the supervisor restarts a run that  *)
(* returned, Broker retries a renewal until it has the receipt, and the    *)
(* gateway answers and, every 15 seconds, renews its lease. Nothing makes  *)
(* a gateway write, a link fail or a credential rotate.                    *)
Fairness ==
  /\ WF_vars(read_credential) /\ WF_vars(post_tunnel)
  /\ WF_vars(post_refused) /\ WF_vars(post_accepted)
  /\ WF_vars(\E n \in 1 .. MaxFrame : frame(n))
  /\ WF_vars(end_of_stream) /\ WF_vars(data_timeout) /\ WF_vars(connection_completes)
  /\ WF_vars(\E c \in finished : join_next(c))
  /\ \A e \in Events : WF_vars(\E s \in streams : s.ticket = e /\ StreamStep(s))
  /\ WF_vars(GatewayStep)
  /\ WF_vars(install_credential)

FairSpec == Spec /\ Fairness

-----------------------------------------------------------------------------
(***************************************************************************)
(* Properties.                                                             *)
(***************************************************************************)
(* Every variable keeps its shape; readiness is shown only by a run that   *)
(* serves; the streams stay within the permits and belong to OPENs of the  *)
(* session that the decoder has handed over.                               *)
TypeOK ==
  /\ current \in 1 .. MaxCredential
  /\ {file, held} \subseteq 0 .. MaxCredential
  /\ pc \in {"down", "dial", "posted", "serving"}
  /\ ready = (pc = "serving")
  /\ link \in {"none", "up", "closed", "silent"}
  /\ gateway \in {"none", "authenticated", "claimed", "ended"}
  /\ {lease, late, goaway} \subseteq BOOLEAN
  /\ {written, acted} \subseteq Seq(Events)
  /\ {wire, pending} \subseteq Seq(Bytes)
  /\ Cardinality(streams) <= MaxStreams
  /\ \A s \in streams : /\ s.pc \in {"spawned", "connect", "bridge"}
                        /\ s.ticket \in Opens \cap {acted[k] : k \in DOMAIN acted}
  /\ finished \subseteq [ticket : Opens, retired : BOOLEAN]
  /\ events \in 0 .. MaxEvents
  /\ faults \in 0 .. MaxFaults

(* However the frames are cut and joined, and wherever a session breaks    *)
(* off, the loop acts on exactly what the gateway wrote, in order: no OPEN *)
(* gets two CONNECTs and none is lost inside a session that lives on.      *)
Channel == INSTANCE ControlChannel
ImplementsControlChannel == Channel!Spec

(* Whatever was rotated, lost or shut down, the client comes to hold a     *)
(* tunnel whose lease is live, claimed with the current credential. The    *)
(* exception is a claim that raced a rotation (see the findings): such a   *)
(* tunnel stays up with the revoked credential.                            *)
TunnelComesBack == []<>(ready /\ lease /\ (held = current \/ late))

(* An OPEN that arrives after the peer's GOAWAY is not dropped in silence: *)
(* the run ends, so that the supervisor replaces the tunnel.               *)
RetiredTunnelIsReplaced ==
  (goaway /\ \E s \in streams : s.pc = "spawned") ~> ~ready
=============================================================================
