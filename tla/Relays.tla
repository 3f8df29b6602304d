------------------------------- MODULE Relays -------------------------------
(***************************************************************************)
(* What carries the bytes of a tunnel.  TCP: relay_tcp on the gateway, and *)
(* the client's TcpTunnel::relay under the names cX.  UDP: the relay of    *)
(* one tunnel on the gateway (rX) and the client's end of one (tX).  Each  *)
(* runs against an environment of its own that stands for its peers, they  *)
(* share nothing, so a behaviour moves one of them and leaves the others   *)
(* where they start.                                                       *)
(***************************************************************************)
EXTENDS TcpRelay

CONSTANTS ClientBuffer, ClientUnits,   \* Buffer and MaxUnits of the client
          Capacity, MaxSize, UdpCap, MaxIn, MaxReplies  \* see UdpRelay

ASSUME RelaysAssumption ==
    /\ ClientBuffer \in Nat \ {0} /\ ClientUnits \in Nat
    /\ {Capacity, MaxSize, UdpCap, MaxIn, MaxReplies} \subseteq Nat

VARIABLES end,   \* the part that runs
          cSent, cAvail, cSrcEnd, cOut, cWrote, cFin, cPump, cHeld, cState,
          idle, rPhase, rStage, rQueued, rReader, rStream, rCapsules,
          rReplies, rInput, rMoved, rDue, rWhy, tPhase, tRecv, tQueued,
          tLate, tReader, tStream, tCapsules, tInput

clientVars == <<cSent, cAvail, cSrcEnd, cOut, cWrote, cFin, cPump, cHeld, cState>>
udpVars ==
    <<idle, rPhase, rStage, rQueued, rReader, rStream, rCapsules, rReplies,
      rInput, rMoved, rDue, rWhy>>
tunnelVars ==
    <<tPhase, tRecv, tQueued, tLate, tReader, tStream, tCapsules, tInput>>

\* The client's target answers as it reads.
Client == INSTANCE TcpTunnel WITH
    Buffer <- ClientBuffer, MaxUnits <- ClientUnits, Echo <- TRUE,
    sent <- cSent, avail <- cAvail, srcEnd <- cSrcEnd, out <- cOut,
    wrote <- cWrote, fin <- cFin, pump <- cPump, held <- cHeld, state <- cState

Relay == INSTANCE UdpRelay WITH
    Cap <- UdpCap,
    phase <- rPhase, stage <- rStage, queued <- rQueued, reader <- rReader,
    stream <- rStream, capsules <- rCapsules, replies <- rReplies,
    input <- rInput, moved <- rMoved, due <- rDue, why <- rWhy

Tunnel == INSTANCE UdpTunnel WITH
    phase <- tPhase, recv <- tRecv, queued <- tQueued, late <- tLate,
    reader <- tReader, stream <- tStream,
    capsules <- tCapsules, input <- tInput

gatewayEnds == <<vars, udpVars>>
clientEnds == <<clientVars, tunnelVars>>
relaysVars == <<end, gatewayEnds, clientEnds>>

OnGateway(A) == end = "gateway" /\ A /\ UNCHANGED <<end, udpVars, clientEnds>>
OnRelay(A) == end = "relay" /\ A /\ UNCHANGED <<end, vars, idle, clientEnds>>
OnClient(A) == end = "client" /\ A /\ UNCHANGED <<end, gatewayEnds, tunnelVars>>
OnTunnel(A) == end = "tunnel" /\ A /\ UNCHANGED <<end, gatewayEnds, clientVars>>

RelaysInit ==
    /\ Init /\ Client!Init /\ Relay!Init /\ Tunnel!Init
    /\ idle => end = "relay"

RelaysNext ==
    \/ OnGateway(Next) \/ OnClient(Client!Next)
    \/ OnRelay(Relay!Next) \/ OnTunnel(Tunnel!Next)

RelaysSpec == RelaysInit /\ [][RelaysNext]_relaysVars

-----------------------------------------------------------------------------
\* relay_tcp: while the tunnel is up every unit read from one side has been
\* written to the other or is in hand, and no chunk is taken up once
\* total_bytes is reached, both directions counted.
TcpInv == TypeOK /\ Client!TypeOK /\ NothingLost /\ CeilingHolds

\* The relay of a UDP tunnel takes up no payload once total_bytes is reached,
\* both directions counted, and one that ends by itself leaves no capsule
\* reader behind that would hold the request stream (server.rs 1270): only one
\* that is dropped, by a revocation, an expiry or the end of its connection,
\* can.  UdpTunnel::drop and a refused connect_udp on the client leave none.
UdpInv ==
    /\ Relay!TypeOK /\ Relay!CeilingHolds /\ Relay!ReaderEndsWithRelay
    /\ Tunnel!TypeOK /\ Tunnel!NoReaderLeft

\* relay_tcp and TcpTunnel::relay both implement the abstract pipe: each
\* direction delivers a prefix of what its source sent and passes its end on
\* behind it, and a relay ends well only when both directions have ended so.
BothKeepPromise == KeepsPromise /\ Client!KeepsPromise

\* UdpTunnel::recv reports the close over no datagram that was queued before
\* it looked at the queue, only over ones that came after.
OnlyLateOnesLost == [][Tunnel!LossIsLate]_tunnelVars
=============================================================================
