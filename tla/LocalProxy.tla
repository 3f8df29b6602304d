----------------------------- MODULE LocalProxy -----------------------------
(***************************************************************************)
(* One connection to a loopback front end of the client: the SOCKS5        *)
(* CONNECT of socks5.rs, the HTTP CONNECT proxy of http_connect.rs, the    *)
(* streaming HTTP proxy of http_proxy.rs and a --forward listener          *)
(* (forward.rs).  Each turns what the client asks for into TCP tunnels     *)
(* through the gateway.  What the client sends is a script of items: a     *)
(* request (its kind and target) or a piece of data.                       *)
(***************************************************************************)
EXTENDS Integers, Sequences, SequencesExt, FiniteSets

CONSTANTS
  Targets,    \* destinations a client may name
  Scripts     \* per front end, the item sequences its clients send

VARIABLES
  conn,       \* the connection's task
  wire,       \* what the client has still to send, and whether it hung up
  gateway,    \* the tunnel the connection is opening or using
  lingering,  \* tunnels of finished exchanges whose target has not closed yet
  out,        \* per target, the items that reached it
  answers     \* the answers the client got, in order

lvars == <<conn, wire, gateway, lingering, out, answers>>

Data(i) == [kind |-> "data", target |-> i]
Closed == [front |-> "socks", pc |-> "closed", req |-> Data(0), early |-> <<>>, to |-> Data(0)]

(* SOCKS5 replies (RFC 1928, 6) and HTTP statuses.                         *)
REPLY_SUCCEEDED == 0
REPLY_GENERAL_FAILURE == 1
REPLY_NOT_ALLOWED == 2
REPLY_HOST_UNREACHABLE == 4
REPLY_CONNECTION_REFUSED == 5
REPLY_COMMAND_NOT_SUPPORTED == 7
REPLY_ADDRESS_TYPE_NOT_SUPPORTED == 8

(* How the gateway or the connection to it may fail a tunnel.              *)
Errors == {"forbidden", "connection_refused", "dns_error", "rejected", "broken"}

(* connect_reply_for                                                       *)
ConnectReplyFor(e) ==
  CASE e = "forbidden" -> REPLY_NOT_ALLOWED
    [] e = "connection_refused" -> REPLY_CONNECTION_REFUSED
    [] e = "dns_error" -> REPLY_HOST_UNREACHABLE
    [] OTHER -> REPLY_GENERAL_FAILURE

HttpStatusFor(e) == IF e = "forbidden" THEN 403 ELSE 502

(* A request that is answered, or dropped, without asking the gateway: the *)
(* answers written to the client.                                          *)
SocksRefusal ==
  [bad_version |-> <<>>, no_method |-> <<255>>,
   bad_request_version |-> <<0>>, bad_domain |-> <<0>>, no_request |-> <<0>>,
   bad_atyp |-> <<0, REPLY_ADDRESS_TYPE_NOT_SUPPORTED>>,
   bind |-> <<0, REPLY_COMMAND_NOT_SUPPORTED>>,
   bad_target |-> <<0, REPLY_GENERAL_FAILURE>>]
ConnectRefusal == [malformed |-> <<400>>, oversized |-> <<400>>, origin_form |-> <<405>>,
                   bad_target |-> <<400>>]
ProxyRefusal == [malformed |-> <<400>>, origin_form |-> <<400>>, bad_target |-> <<400>>]

Refusals(front) ==
  CASE front = "socks" -> SocksRefusal
    [] front = "http_connect" -> ConnectRefusal
    [] OTHER -> ProxyRefusal

(* hyper keeps the connection for another request after one it could read. *)
KeepsAlive(front, kind) == front = "http_proxy" /\ kind # "malformed"

LInit ==
  /\ \E front \in DOMAIN Scripts, s \in UNION {Scripts[f] : f \in DOMAIN Scripts} :
       /\ s \in Scripts[front]
       /\ conn = [Closed EXCEPT !.front = front, !.pc = IF front = "forward" THEN "open" ELSE "read",
                                !.req = IF front = "forward" THEN Head(s) ELSE Data(0)]
       /\ wire = [items |-> IF front = "forward" THEN Tail(s) ELSE s, script |-> s, eof |-> FALSE]
  /\ gateway = "idle"
  /\ lingering = 0
  /\ out = [t \in Targets |-> <<>>]
  /\ answers = <<>>

HangUp ==
  /\ ~wire.eof
  /\ wire' = [wire EXCEPT !.eof = TRUE]
  /\ UNCHANGED <<conn, gateway, lingering, out, answers>>

(* Data the client has sent behind the request, which read_head may take   *)
(* in the same chunk.                                                      *)
Following == LET rest == Tail(wire.items)
             IN {k \in 0 .. Len(rest) : \A i \in 1 .. k : rest[i].kind = "data"}

ReadRequest ==
  /\ conn.pc = "read"
  /\ wire.items # <<>>
  /\ LET item == Head(wire.items) IN
     \E k \in IF conn.front = "http_connect" THEN Following ELSE {0} :
       /\ wire' = [wire EXCEPT !.items = SubSeq(@, k + 2, Len(@))]
       /\ IF item.kind \in DOMAIN Refusals(conn.front)
          THEN /\ answers' = answers \o Refusals(conn.front)[item.kind]
               /\ conn' = [conn EXCEPT !.pc = IF KeepsAlive(conn.front, item.kind) THEN "read"
                                              ELSE "closed"]
          ELSE /\ item.kind \in {"connect", "plain"}
               /\ answers' = IF conn.front = "socks" THEN Append(answers, 0) ELSE answers
               /\ conn' = [conn EXCEPT !.pc = "open", !.req = item,
                                       !.early = SubSeq(wire.items, 2, k + 1)]
  /\ UNCHANGED <<gateway, lingering, out>>

(* read_exact or read_head at the end of the stream, or hyper's            *)
(* header_read_timeout: http_connect answers 400, the others hang up.      *)
Truncated ==
  /\ conn.pc = "read"
  /\ wire.eof /\ wire.items = <<>>
  /\ conn' = [conn EXCEPT !.pc = "closed"]
  /\ answers' = IF conn.front = "http_connect" THEN Append(answers, 400) ELSE answers
  /\ UNCHANGED <<wire, gateway, lingering, out>>

(* connect_tcp: the request goes out, and the gateway opens or refuses.    *)
ConnectTcp ==
  /\ conn.pc = "open"
  /\ gateway' = "asked"
  /\ conn' = [conn EXCEPT !.pc = "opening"]
  /\ UNCHANGED <<wire, lingering, out, answers>>

Refused(e) ==
  /\ conn.pc = "opening"
  /\ gateway' = "idle"
  /\ answers' = CASE conn.front = "forward" -> answers
                  [] conn.front = "socks" -> Append(answers, ConnectReplyFor(e))
                  [] OTHER -> Append(answers, HttpStatusFor(e))
  /\ conn' = [conn EXCEPT !.pc = IF conn.front = "http_proxy" THEN "read" ELSE "closed"]
  /\ UNCHANGED <<wire, lingering, out>>

(* Only http_proxy gives up on the gateway: the tunnel that may still be   *)
(* opened is dropped with the future.                                      *)
OpenTimesOut ==
  /\ conn.pc = "opening"
  /\ conn.front = "http_proxy"
  /\ gateway' = "idle"
  /\ answers' = Append(answers, 502)
  /\ conn' = [conn EXCEPT !.pc = "read"]
  /\ UNCHANGED <<wire, lingering, out>>

Success == [socks |-> <<REPLY_SUCCEEDED>>, http_connect |-> <<200>>, http_proxy |-> <<200>>,
            forward |-> <<>>]

(* The tunnel is open.  A CONNECT is answered first; a plain request has   *)
(* its own answer coming from the target.                                  *)
Opened ==
  /\ conn.pc = "opening"
  /\ gateway' = "open"
  /\ IF conn.req.kind = "plain"
     THEN /\ conn' = [conn EXCEPT !.pc = "head", !.to = conn.req]
          /\ UNCHANGED answers
     ELSE /\ conn' = [conn EXCEPT !.pc = IF conn.front = "http_connect" THEN "early" ELSE "relay",
                                  !.to = conn.req]
          /\ answers' = answers \o Success[conn.front]
  /\ UNCHANGED <<wire, lingering, out>>

Deliver(items) == out' = [out EXCEPT ![conn.to.target] = @ \o items]

(* http_connect writes the rewritten head down the tunnel; http_proxy has  *)
(* hyper send the request over it (or time out in the handshake, or fail). *)
SendPlain ==
  /\ conn.pc = "head"
  /\ \/ /\ Deliver(<<conn.req>>)
        /\ IF conn.front = "http_connect"
           THEN conn' = [conn EXCEPT !.pc = "early"]
           ELSE conn' = [conn EXCEPT !.pc = "answer"]
        /\ UNCHANGED <<gateway, lingering, answers>>
     \/ /\ gateway' = "idle"
        /\ IF conn.front = "http_connect"
           THEN conn' = [conn EXCEPT !.pc = "closed"] /\ UNCHANGED <<lingering, answers>>
           ELSE /\ conn' = [conn EXCEPT !.pc = "read"]
                /\ answers' = Append(answers, 502)
                /\ lingering' = lingering + 1
        /\ UNCHANGED out
  /\ UNCHANGED wire

(* The target's answer to a request of http_proxy.  The connection over    *)
(* the tunnel is let go of, but its relay, a task of its own, stays until  *)
(* the target closes.                                                      *)
TargetAnswers ==
  /\ conn.pc = "answer"
  /\ gateway' = "idle"
  /\ lingering' = lingering + 1
  /\ \E status \in {200, 502} : answers' = Append(answers, status)
  /\ conn' = [conn EXCEPT !.pc = "read"]
  /\ UNCHANGED <<wire, out>>

TargetCloses ==
  /\ lingering > 0
  /\ lingering' = lingering - 1
  /\ UNCHANGED <<conn, wire, gateway, out, answers>>

(* Mutant: what came with the head is forgotten.                           *)
WriteEarly_Dropped ==
  /\ conn.pc = "early"
  /\ conn' = [conn EXCEPT !.pc = "relay", !.early = <<>>]
  /\ UNCHANGED <<wire, gateway, lingering, out, answers>>

WriteEarly ==
  /\ conn.pc = "early"
  /\ Deliver(conn.early)
  /\ conn' = [conn EXCEPT !.pc = "relay", !.early = <<>>]
  /\ UNCHANGED <<wire, gateway, lingering, answers>>

RelayUp ==
  /\ conn.pc = "relay"
  /\ wire.items # <<>>
  /\ Deliver(<<Head(wire.items)>>)
  /\ wire' = [wire EXCEPT !.items = Tail(@)]
  /\ UNCHANGED <<conn, gateway, lingering, answers>>

(* The relay ends: the client hung up and everything went out, or either   *)
(* side broke.                                                             *)
RelayEnds ==
  /\ conn.pc \in {"early", "relay"}
  /\ gateway' = "idle"
  /\ conn' = [conn EXCEPT !.pc = "closed"]
  /\ UNCHANGED <<wire, lingering, out, answers>>

LNext ==
  \/ HangUp \/ ReadRequest \/ Truncated \/ ConnectTcp \/ OpenTimesOut \/ Opened \/ SendPlain
  \/ TargetAnswers \/ TargetCloses \/ WriteEarly \/ RelayUp \/ RelayEnds
  \/ \E e \in Errors : Refused(e)

LSpec == LInit /\ [][LNext]_lvars

-----------------------------------------------------------------------------

(* The items of a script that belong to the request at i: the request      *)
(* itself when it is passed on, and, unless it is one exchange of a        *)
(* streaming proxy, everything the client sends behind it.                 *)
Owed(front, s, i) ==
  CASE front = "http_proxy" /\ s[i].kind = "plain" -> <<s[i]>>
    [] front = "http_connect" /\ s[i].kind = "plain" -> SubSeq(s, i, Len(s))
    [] OTHER -> SubSeq(s, i + 1, Len(s))

(* Nothing a client sends reaches a target other than the one its request  *)
(* named and the gateway opened, and nothing is lost, repeated or          *)
(* reordered on the way: a request's head comes first, then what arrived   *)
(* in the same read as the head, then the rest.                            *)
ReachesOnlyTheAsked ==
  \A t \in Targets :
    LET s == wire.script
        asked == {i \in 1 .. Len(s) : s[i].kind \in {"connect", "plain"} /\ s[i].target = t}
        owed == [i \in asked |-> Owed(conn.front, s, i)]
    IN out[t] # <<>> =>
         IF conn.front = "http_proxy"
         THEN \E last \in asked :
                \E S \in SUBSET {i \in asked : i <= last} :
                  IsPrefix(out[t], FlattenSeq([n \in 1 .. Cardinality(S) |->
                     owed[SetToSortSeq(S, <)[n]]]))
         ELSE \E i \in asked : IsPrefix(out[t], owed[i])

(* Every request is answered once.  http_proxy answers each request it has *)
(* read before it reads the next, whatever fails on the way; the others    *)
(* answer at most once for their single request, with success only in the  *)
(* step that has the tunnel; a --forward connection never gets an answer.  *)
OneAnswerEach ==
  LET asked(items) == Len(SelectSeq(items, LAMBDA x : x.kind # "data"))
      taken == asked(wire.script) - asked(wire.items)
      method == IF conn.front = "socks" THEN 1 ELSE 0
  IN /\ conn.front = "http_proxy" /\ conn.pc = "read" => Len(answers) = taken
     /\ conn.front # "http_proxy" => Len(answers) <= 1 + method
     /\ conn.front = "forward" => answers = <<>>
     /\ conn.pc \in {"early", "relay"} /\ conn.req.kind = "connect" /\ conn.front # "forward" =>
          gateway = "open" /\ Last(answers) \in {REPLY_SUCCEEDED, 200}

(* Only an exchange of http_proxy leaves a tunnel behind its connection's  *)
(* use of it, and never more than it has answered requests for.            *)
NoTunnelLeaks ==
  /\ conn.pc \in {"read", "closed"} => gateway = "idle"
  /\ lingering <= IF conn.front = "http_proxy" THEN Len(answers) ELSE 0

LocalInv == ReachesOnlyTheAsked /\ OneAnswerEach /\ NoTunnelLeaks

-----------------------------------------------------------------------------
(***************************************************************************)
(* A SOCKS5 UDP association of the client (socks5.rs): run_association     *)
(* takes datagrams from the one address it is pinned to, forward hands     *)
(* each to the task of its destination's tunnel and opens a tunnel where   *)
(* there is none, and a pump per tunnel carries datagrams and replies      *)
(* until it is idle, refused, or the association is over.                  *)
(***************************************************************************)
CONSTANTS Senders,      \* addresses datagrams arrive from
          Dests,        \* destinations they name
          QueueCap,     \* the channel of a tunnel (256)
          MaxDatagrams, \* bound: datagrams taken up
          MaxTunnels    \* bound: tunnels opened

VARIABLES assoc,    \* run_association: its state, the pinned client, the datagram in hand
          control,  \* the control connection: open, or at its end
          tunnels,  \* the map: destination -> its tunnel, 0 for none
          pumps,    \* tunnel -> its task
          taken,    \* history: datagrams taken up
          fate,     \* history: what became of each
          parties   \* history: who was forwarded for, and who was answered

uvars == <<assoc, control, tunnels, pumps, taken, fate, parties>>

Ids == 1..MaxTunnels

NoPump == [pc |-> "none", dest |-> CHOOSE d \in Dests : TRUE, client |-> "none",
           queue |-> <<>>, last |-> 0, replies |-> 0, ended |-> FALSE]

UInit ==
    /\ \E c \in Senders \cup {"none"} :
         assoc = [pc |-> "recv", expected |-> c, dest |-> NoPump.dest, packet |-> 0]
    /\ control = "open"
    /\ tunnels = [d \in Dests |-> 0]
    /\ pumps = [t \in Ids |-> NoPump]
    /\ taken = 0
    /\ fate = <<>>
    /\ parties = {}

\* The tunnel's task still holds the receiving end of its channel: it does so
\* until it has closed the tunnel.
Listening(t) == t # 0 /\ pumps[t].pc \in {"run", "closing"}

-----------------------------------------------------------------------------
\* Mutant: the first sender is not remembered.
Pinned_Never(from) == assoc

\* recv_from: anyone but the pinned client is ignored; the first sender is
\* pinned, before anything is known of what it sent.
Pinned(from) == [assoc EXCEPT !.expected = from]

Ignore(from) ==
    /\ assoc.pc = "recv" /\ assoc.expected \notin {"none", from}
    /\ UNCHANGED uvars

\* forward drops what it cannot decode, a fragment, and an invalid destination.
Malformed(from) ==
    /\ assoc.pc = "recv" /\ assoc.expected \in {"none", from}
    /\ assoc' = Pinned(from)
    /\ UNCHANGED <<control, tunnels, pumps, taken, fate, parties>>

\* forward: try_send to the destination's tunnel; if that fails the entry is
\* removed and a new tunnel asked for, while this datagram waits.
Forward(from, d) ==
    /\ assoc.pc = "recv" /\ assoc.expected \in {"none", from}
    /\ taken < MaxDatagrams
    /\ taken' = taken + 1
    /\ parties' = parties \cup {from}
    /\ LET t == tunnels[d]
       IN IF Listening(t) /\ Len(pumps[t].queue) < QueueCap
          THEN /\ pumps' = [pumps EXCEPT ![t].queue = Append(@, taken + 1)]
               /\ fate' = Append(fate, "queued")
               /\ assoc' = Pinned(from)
               /\ UNCHANGED tunnels
          ELSE /\ tunnels' = [tunnels EXCEPT ![d] = 0]
               /\ fate' = Append(fate, "waiting")
               /\ assoc' = [Pinned(from) EXCEPT !.pc = "opening", !.dest = d, !.packet = taken + 1]
               /\ UNCHANGED pumps
    /\ UNCHANGED control

\* Session::connect_udp answers; the loop reads nothing else until it does.
UdpOpened ==
    /\ assoc.pc = "opening"
    /\ \E t \in Ids :
         /\ pumps[t].pc = "none" /\ \A u \in 1..(t - 1) : pumps[u].pc # "none"
         /\ pumps' = [pumps EXCEPT ![t] = [NoPump EXCEPT !.pc = "run", !.dest = assoc.dest,
                                             !.client = assoc.expected, !.queue = <<assoc.packet>>]]
         /\ tunnels' = [tunnels EXCEPT ![assoc.dest] = t]
    /\ fate' = [fate EXCEPT ![assoc.packet] = "queued"]
    /\ assoc' = [assoc EXCEPT !.pc = "recv", !.dest = NoPump.dest, !.packet = 0]
    /\ UNCHANGED <<control, taken, parties>>

UdpRefused ==
    /\ assoc.pc = "opening"
    /\ fate' = [fate EXCEPT ![assoc.packet] = "refused"]
    /\ assoc' = [assoc EXCEPT !.pc = "recv", !.dest = NoPump.dest, !.packet = 0]
    /\ UNCHANGED <<control, tunnels, pumps, taken, parties>>

\* The control connection ends, or the relay socket fails: the map is dropped,
\* and with it every sender.
Over ==
    /\ assoc.pc = "recv" /\ control = "ended"
    /\ assoc' = [assoc EXCEPT !.pc = "over"]
    /\ tunnels' = [d \in Dests |-> 0]
    /\ UNCHANGED <<control, pumps, taken, fate, parties>>

ClientLeaves ==
    /\ control = "open"
    /\ control' = "ended"
    /\ UNCHANGED <<assoc, tunnels, pumps, taken, fate, parties>>

-----------------------------------------------------------------------------
\* pump: one turn of the select, then the end.
Break(t) == [pumps EXCEPT ![t].pc = "closing"]

ToTarget(t) ==
    /\ pumps[t].pc = "run" /\ pumps[t].queue # <<>>
    /\ pumps' = [pumps EXCEPT ![t] = [@ EXCEPT !.queue = Tail(@), !.last = Head(pumps[t].queue)]]
    /\ fate' = [fate EXCEPT ![Head(pumps[t].queue)] = "sent"]
    /\ UNCHANGED <<assoc, control, tunnels, taken, parties>>

\* A reply that cannot be sent to the client ends the pump.
ToClient(t, reached) ==
    /\ pumps[t].pc = "run" /\ pumps[t].replies > 0
    /\ pumps' = [(IF reached THEN pumps ELSE Break(t)) EXCEPT ![t].replies = @ - 1]
    /\ parties' = parties \cup {pumps[t].client}
    /\ UNCHANGED <<assoc, control, tunnels, taken, fate>>

\* Mutant: the pump waits for the gateway alone.
EitherClosed_GatewayOnly(t) ==
    /\ pumps[t].pc = "run"
    /\ pumps[t].ended /\ pumps[t].replies = 0
    /\ pumps' = Break(t)
    /\ UNCHANGED <<assoc, control, tunnels, taken, fate, parties>>

\* No sender is left and nothing is queued, or the gateway ended the tunnel and
\* every reply was read.
EitherClosed(t) ==
    /\ pumps[t].pc = "run"
    /\ \/ pumps[t].queue = <<>> /\ tunnels[pumps[t].dest] # t
       \/ pumps[t].ended /\ pumps[t].replies = 0
    /\ pumps' = Break(t)
    /\ UNCHANGED <<assoc, control, tunnels, taken, fate, parties>>

\* IDLE_TIMEOUT without traffic.
IdleOut(t) ==
    /\ pumps[t].pc = "run" /\ pumps[t].queue = <<>> /\ pumps[t].replies = 0
    /\ pumps' = Break(t)
    /\ UNCHANGED <<assoc, control, tunnels, taken, fate, parties>>

\* tunnel.close, then the receiver is dropped with what is still in it.
PumpEnds(t) ==
    /\ pumps[t].pc = "closing"
    /\ fate' = [n \in DOMAIN fate |-> IF n \in ToSet(pumps[t].queue) THEN "lost" ELSE fate[n]]
    /\ pumps' = [pumps EXCEPT ![t] = [NoPump EXCEPT !.pc = "closed", !.dest = pumps[t].dest]]
    /\ UNCHANGED <<assoc, control, tunnels, taken, parties>>

\* The tunnel: a reply, or its end.
Reply(t) ==
    /\ pumps[t].pc = "run" /\ pumps[t].replies = 0 /\ ~pumps[t].ended
    /\ pumps' = [pumps EXCEPT ![t].replies = 1]
    /\ UNCHANGED <<assoc, control, tunnels, taken, fate, parties>>

TunnelEnds(t) ==
    /\ pumps[t].pc = "run" /\ ~pumps[t].ended
    /\ pumps' = [pumps EXCEPT ![t].ended = TRUE]
    /\ UNCHANGED <<assoc, control, tunnels, taken, fate, parties>>

Pump(t) ==
    \/ ToTarget(t) \/ EitherClosed(t) \/ PumpEnds(t)
    \/ \E reached \in BOOLEAN : ToClient(t, reached)

Association == UdpOpened \/ UdpRefused \/ Over

UNext ==
    \/ \E s \in Senders : Ignore(s) \/ Malformed(s) \/ \E d \in Dests : Forward(s, d)
    \/ Association \/ ClientLeaves
    \/ \E t \in Ids : Pump(t) \/ IdleOut(t) \/ Reply(t) \/ TunnelEnds(t)

\* The select of pump starts at a random branch, so each that stays ready is
\* taken in the end, however many replies come.
USpec ==
    /\ UInit /\ [][UNext]_uvars /\ WF_uvars(Association)
    /\ \A t \in Ids :
         WF_uvars(ToTarget(t)) /\ WF_uvars(EitherClosed(t)) /\ WF_uvars(PumpEnds(t))

-----------------------------------------------------------------------------
\* "Either way, only that one address is served": whoever pins the association,
\* all datagrams forwarded are its own, and every reply of every tunnel goes back
\* to it.
OneClient == parties \subseteq {assoc.expected}

\* A datagram that was handed to a tunnel is in its channel or was sent, unless
\* the tunnel's task had left its loop: only then is the channel dropped with
\* datagrams in it.
LostOnlyAtTheEnd ==
    \A n \in DOMAIN fate :
        CASE fate[n] = "queued" -> \E t \in Ids : n \in ToSet(pumps[t].queue)
          [] fate[n] = "waiting" -> assoc.pc = "opening" /\ assoc.packet = n
          [] fate[n] = "lost" -> \E t \in Ids : pumps[t].pc = "closed"
          [] OTHER -> fate[n] \in {"sent", "refused"}

\* A tunnel's entry leads to the tunnel of its destination, and a tunnel sends
\* what it is given in the order it came: every datagram in a channel is later
\* than what was sent from it.  (Two tunnels of a destination overlap after a
\* full channel; between them there is no order.)
TableTrue ==
    /\ \A d \in Dests : tunnels[d] # 0 => pumps[tunnels[d]].dest = d /\ pumps[tunnels[d]].pc # "none"
    /\ \A t \in Ids :
         LET given == <<pumps[t].last>> \o pumps[t].queue
         IN \A i, j \in DOMAIN given : i < j => given[i] < given[j]
    /\ \A t \in Ids : Len(pumps[t].queue) <= QueueCap

SocksInv == OneClient /\ LostOnlyAtTheEnd /\ TableTrue

\* "RFC 1928 ties the association's lifetime to the TCP connection ... that also
\* tears down every tunnel opened on its behalf": also the ones that are no
\* longer in the map.
StillUp == control = "ended" /\ \E t \in Ids : pumps[t].pc \notin {"none", "closed"}
TornDown == []<>~StillUp
=============================================================================
