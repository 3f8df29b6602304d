------------------------------ MODULE MCRelays ------------------------------
(***************************************************************************)
(* The relays for TLC, with what hands them datagrams and flows: the       *)
(* router of a connection, and the native TUN with a TCP flow of its       *)
(* user-space stack, the stack's queues and its UDP flows.  These, too,    *)
(* run against environments of their own, one part in a behaviour.         *)
(***************************************************************************)
EXTENDS Relays, DatagramRouter, NetStream

CONSTANTS Tuples, MaxSockets, MaxRelays, QueueCap, StreamCap, IngressCap,
          OutCap,                                               \* see NetStack
          FlowKeys, FlowLimit, FlowQueue, ReplyCap, Generations   \* see NetStack

VARIABLES up, sink, tcpQ, udpQ, ingress, kOut, kAvail, udpLoop, flows, flow, missed,
          table, generation, tasks, replies

stackVars ==
    <<up, sink, tcpQ, udpQ, ingress, kOut, kAvail, udpLoop, flows, flow, missed>>
flowVars == <<table, generation, tasks, replies>>

Stack == INSTANCE NetStack WITH out <- kOut, avail <- kAvail

nativeEnds == <<streamVars, stackVars, flowVars>>
allVars == <<relaysVars, routerVars, nativeEnds>>

OnRelays(A) == A /\ UNCHANGED <<routerVars, nativeEnds>>
OnRouter(A) == end = "router" /\ A /\ UNCHANGED <<relaysVars, nativeEnds>>
OnStream(A) == end = "stream" /\ A /\ UNCHANGED <<relaysVars, routerVars, stackVars, flowVars>>
OnStack(A) == end = "stack" /\ A /\ UNCHANGED <<relaysVars, routerVars, streamVars, flowVars>>
OnFlows(A) == end = "flows" /\ A /\ UNCHANGED <<relaysVars, routerVars, streamVars, stackVars>>

MCInit ==
    /\ end \in {"gateway", "client", "router", "relay", "tunnel", "stream", "stack", "flows"}
    /\ RelaysInit /\ RouterInit /\ SInit /\ Stack!KInit /\ Stack!FInit

MCNext ==
    \/ OnRelays(RelaysNext) \/ OnRouter(RouterNext)
    \/ OnStream(SNext) \/ OnStack(Stack!KNext) \/ OnFlows(Stack!FNext)

\* One of the native TUN's UDP flows: they are alike.
OneFlow == CHOOSE k \in FlowKeys : TRUE

\* The fairness of each part's own specification.  Only one part of a behaviour
\* ever has a step, so weak fairness of a disjunction over the parts is weak
\* fairness of the disjunct of the part that runs.  (PollWrite, PollShutdown and
\* RelayDone are steps of one task, enabled one at a time.)  The branches of a
\* select! that are ready are chosen at random: strong fairness for one of them.
MCSpec ==
    /\ MCInit /\ [][MCNext]_allVars
    /\ WF_allVars(\/ OnRelays(\/ OnGateway(Task) \/ OnClient(Client!Pump("up"))
                              \/ OnRelay(Relay!Relay) \/ OnTunnel(Tunnel!Reader))
                  \/ OnStream(Loop) \/ OnStack(Stack!PollSend) \/ OnFlows(Stack!PassReply))
    /\ WF_allVars(\/ OnRelays(\/ OnGateway(Elapse) \/ OnClient(Client!Pump("down"))
                              \/ OnRelay(Relay!Reader) \/ OnTunnel(Tunnel!App))
                  \/ OnStream(Packet(Answering)) \/ OnStack(Stack!HandlePacket)
                  \/ OnFlows(Stack!JoinOf(OneFlow)))
    /\ WF_allVars(\/ OnRelays(\/ OnGateway(Reading("up")) \/ OnClient(Client!Reading("up"))
                              \/ OnRelay(Relay!Elapse))
                  \/ OnStack(Stack!TunWrite)
                  \/ OnStream(PollWrite \/ PollShutdown \/ RelayDone))
    /\ WF_allVars(\/ OnRelays(OnGateway(Reading("down")) \/ OnClient(Client!Reading("down")))
                  \/ OnStream(PollRead))
    /\ SF_allVars(OnStack(Stack!TakeDatagram))

-----------------------------------------------------------------------------
\* The native TUN's stack: a tuple has one flow, flows hold to their permits,
\* and a full queue costs no packet (handle_packet, device.rs); and the table of
\* its UDP flows and their tasks stay in step (native/udp.rs).
NativeInv == Stack!StackInv /\ Stack!UdpFlowInv

\* ResourceLimits.tunnel_idle_timeout tears down a TCP tunnel that carries
\* nothing while its peers read; and on the client, where each direction has
\* a future of its own (client.rs 629), one that is held up by its peer does
\* not keep the other from moving, so that against a target that answers as
\* it reads everything sent, and its end, arrives.  A UDP tunnel ends when its
\* client closes the request stream (server.rs 1262) and when it has been idle
\* for tunnel_idle_timeout, and a capsule reader that outlives a dropped relay
\* (server.rs 1184) does not outlive the request stream; the proxy closing the stream is reported to an
\* application that keeps calling UdpTunnel::recv.  In the native TUN a dropped
\* stream gives up its socket, a shutdown completes, the reader of the TUN is
\* never kept waiting for good, and an ended UDP flow is joined, so that it can
\* open again.
RelaysProgress ==
    []<>~(\/ Overdue \/ Client!Behind \/ Relay!CloseUnseen \/ Relay!Overdue
          \/ Relay!LeftBehind
          \/ Tunnel!CloseUnreported \/ Lingering \/ Stack!Stuck \/ Stack!Left(OneFlow))
=============================================================================
