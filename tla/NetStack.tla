------------------------------ MODULE NetStack ------------------------------
(***************************************************************************)
(* The native TUN (native/mod.rs) over the vendored stack: the packets of  *)
(* local applications go through the stack's sink and its bounded queues   *)
(* to handle_packet, which admits connections, and to the device that the  *)
(* loop of handle_socket polls; replies go back through one bounded queue  *)
(* to the TUN.  handle_packet and handle_socket are arms of one task, so a *)
(* turn of either is one step.  What a connection carries is NetStream's   *)
(* matter; here it is listening, open, or gone.                            *)
(***************************************************************************)
EXTENDS Naturals, Sequences, FiniteSets

CONSTANTS Tuples,                 \* (source, destination); they share a destination
          MaxSockets, MaxRelays,  \* the admission permits, tcp::serve's limit
          QueueCap, StreamCap, IngressCap, OutCap    \* the channels' capacities

VARIABLES up,        \* the tasks of NativeTun::serve run
          sink,      \* Stack.sink_buf
          tcpQ, udpQ, ingress, out,   \* the channels (of udpQ and out, the length)
          avail,     \* iface_ingress_tx_avail
          udpLoop,   \* udp::serve: in "select", or "sending" a reply
          flows,     \* handle_packet's map: tuple -> a flow, or 0
          flow,      \* the flows' control blocks, streams and sockets
          missed     \* packets that left the device's queue unread (history)

stackVars ==
    <<up, sink, tcpQ, udpQ, ingress, out, avail, udpLoop, flows, flow, missed>>

None == [proto |-> "none", syn |-> FALSE]

\* A packet the TUN hands in, by what the checks on its way look at.
Packets ==
    [proto : {"tcp", "udp", "icmp"}, fits : BOOLEAN, intact : BOOLEAN, fragment : BOOLEAN,
     unicast : BOOLEAN, syn : BOOLEAN, tuple : Tuples]

\* What the stack looks at further: of a datagram nothing.
Seen(p) ==
    IF p.proto = "tcp" THEN [proto |-> "tcp", syn |-> p.syn, tuple |-> p.tuple]
    ELSE [proto |-> p.proto, syn |-> FALSE]

Valid(p) == p.fits /\ p.intact /\ ~p.fragment /\ p.proto \in {"tcp", "udp"}

\* One flow more than there are permits for, to see that none gets by.
Flows == 1..(MaxSockets + 1)
Freed == [tuple |-> "none", recv |-> "Closed", stream |-> "dropped", socket |-> "gone"]

\* A control block goes with the last of its stream and its socket.
Kept(f) == IF f.stream = "dropped" /\ f.socket = "gone" THEN Freed ELSE f

KInit ==
    /\ up = TRUE /\ sink = None
    /\ tcpQ = <<>> /\ udpQ = 0 /\ ingress = <<>> /\ out = 0
    /\ avail = FALSE /\ udpLoop = "select"
    /\ flows = [t \in Tuples |-> 0] /\ flow = [f \in Flows |-> Freed] /\ missed = 0

-----------------------------------------------------------------------------
(* From the TUN to the stack.  A packet that fails a check is skipped, and *)
(* SinkExt::send lets no packet in before the one in the slot has left.    *)

\* Mutant: a packet is put in the slot whatever it holds.
StartSend_Overwrites(p) ==
    /\ up /\ Valid(p) /\ sink' = Seen(p)
    /\ missed' = IF sink = None THEN missed ELSE missed + 1
    /\ UNCHANGED <<up, tcpQ, udpQ, ingress, out, avail, udpLoop, flows, flow>>

StartSend(p) ==
    /\ up /\ sink = None /\ Valid(p) /\ p.unicast
    /\ sink' = Seen(p)
    /\ UNCHANGED <<up, tcpQ, udpQ, ingress, out, avail, udpLoop, flows, flow, missed>>

PollSend ==
    /\ up /\ sink # None
    /\ \/ sink.proto = "tcp" /\ Len(tcpQ) < QueueCap
          /\ tcpQ' = Append(tcpQ, [tuple |-> sink.tuple, syn |-> sink.syn]) /\ UNCHANGED udpQ
       \/ sink.proto = "udp" /\ udpQ < QueueCap /\ udpQ' = udpQ + 1 /\ UNCHANGED tcpQ
    /\ sink' = None
    /\ UNCHANGED <<up, ingress, out, avail, udpLoop, flows, flow, missed>>

-----------------------------------------------------------------------------
(* handle_packet.                                                          *)

\* A flow holds its permit while it lives.
Live(f) == flow[f] # Freed
Admitted == {f \in Flows : Live(f)}
Waiting == {f \in Flows : flow[f].stream = "queued"}
Unlisted == {f \in Flows : flow[f].socket = "queued"}

Entry(t, states) ==
    IF flows[t] = 0 THEN 0
    ELSE LET f == flow[flows[t]] IN IF f.tuple = t /\ f.recv \in states THEN flows[t] ELSE 0

\* Mutant: a tuple whose stream was dropped is forgotten before its socket is.
Retained_OpenOnly == [t \in Tuples |-> Entry(t, {"Normal"})]

Retained == [t \in Tuples |-> Entry(t, {"Normal", "Close"})]

\* The permit, and room in both queues, are reserved before anything is made.
\* Mutant: the socket is made without a permit.
Room_NoPermit == Cardinality(Waiting) < StreamCap /\ Cardinality(Unlisted) < StreamCap

Room ==
    /\ Cardinality(Admitted) < MaxSockets
    /\ Cardinality(Waiting) < StreamCap /\ Cardinality(Unlisted) < StreamCap

\* The packet goes on to the device; one that finds its queue full is lost.
Forward(p) ==
    IF Len(ingress) < IngressCap
    THEN ingress' = Append(ingress, p) /\ avail' = TRUE
    ELSE UNCHANGED <<ingress, avail>>

HandlePacket ==
    /\ up /\ tcpQ # <<>>
    /\ tcpQ' = Tail(tcpQ)
    /\ LET p == Head(tcpQ)
           new == p.syn /\ Retained[p.tuple] = 0
       IN  IF new /\ ~Room
           THEN flows' = Retained /\ UNCHANGED <<flow, ingress, avail>>
           ELSE /\ Forward(p)
                /\ IF new
                   THEN LET f == CHOOSE g \in Flows : ~Live(g)
                        IN  /\ flow' = [flow EXCEPT ![f] = [tuple |-> p.tuple, recv |-> "Normal",
                                                   stream |-> "queued", socket |-> "queued"]]
                            /\ flows' = [Retained EXCEPT ![p.tuple] = f]
                   ELSE flows' = Retained /\ UNCHANGED flow
    /\ UNCHANGED <<up, sink, udpQ, out, udpLoop, missed>>

-----------------------------------------------------------------------------
(* handle_socket: new sockets are listed, the device is polled, and then    *)
(* sockets whose stream was dropped are aborted and removed.               *)

Listed == [f \in Flows |-> IF flow[f].socket = "queued" THEN [flow[f] EXCEPT !.socket = "listen"]
                           ELSE flow[f]]

Swept(fl) ==
    [f \in Flows |-> IF fl[f].recv = "Close"
                     THEN Kept([fl[f] EXCEPT !.recv = "Closed", !.socket = "gone"]) ELSE fl[f]]

\* Mutant: the packet is taken before there is room for an answer to it.
Receive_PacketFirst ==
    IF ingress = <<>> THEN avail' = FALSE /\ UNCHANGED <<ingress, out, missed>>
    ELSE IF out = OutCap
    THEN ingress' = Tail(ingress) /\ missed' = missed + 1 /\ UNCHANGED <<out, avail>>
    ELSE ingress' = Tail(ingress) /\ out' \in {out, out + 1} /\ UNCHANGED <<avail, missed>>

\* VirtualDevice::receive: room for an answer first, then a packet; only an
\* empty queue clears the flag.
Receive ==
    IF out = OutCap THEN UNCHANGED <<ingress, out, avail, missed>>
    ELSE IF ingress = <<>> THEN avail' = FALSE /\ UNCHANGED <<ingress, out, missed>>
    ELSE ingress' = Tail(ingress) /\ out' \in {out, out + 1} /\ UNCHANGED <<avail, missed>>

\* A SYN makes a listening socket of its destination an open one, whichever
\* it is, or repeats that of an open connection.
Opened(fl) ==
    LET with(state) == {f \in Flows : fl[f].socket = state}
    IN  IF ingress # <<>> /\ out < OutCap /\ Head(ingress).syn /\ with("listen") # {}
        THEN {[fl EXCEPT ![f].socket = "open"] : f \in with("listen")}
             \cup (IF with("open") # {} THEN {fl} ELSE {})
        ELSE {fl}

Turn ==
    /\ up
    /\ Receive
    /\ \E fl \in Opened(Listed) : flow' = Swept(fl)
    /\ UNCHANGED <<up, sink, tcpQ, udpQ, udpLoop, flows>>

\* A connection's peer closes its half; the socket closes in the end.
PeerCloses(f) ==
    /\ up /\ flow[f].socket = "open"
    /\ flow' = [flow EXCEPT ![f] = IF @.recv = "Closed" THEN Kept([@ EXCEPT !.socket = "gone"])
                                   ELSE [@ EXCEPT !.recv = "Closed"]]
    /\ UNCHANGED <<up, sink, tcpQ, udpQ, ingress, out, avail, udpLoop, flows, missed>>

Drop(f) ==
    Kept([f EXCEPT !.stream = "dropped", !.recv = IF @ = "Normal" THEN "Close" ELSE @])

\* tcp::serve takes a stream; above its limit it drops it at once.
Relays == {f \in Flows : flow[f].stream = "held"}

Accept ==
    /\ up /\ Waiting # {}
    /\ \E f \in Waiting :
            flow' = [flow EXCEPT ![f] = IF Cardinality(Relays) < MaxRelays
                                       THEN [@ EXCEPT !.stream = "held"] ELSE Drop(@)]
    /\ UNCHANGED <<up, sink, tcpQ, udpQ, ingress, out, avail, udpLoop, flows, missed>>

\* The relay ends: the tunnel was refused, timed out, or has carried all.
RelayEnds(f) ==
    /\ up /\ flow[f].stream = "held"
    /\ flow' = [flow EXCEPT ![f] = Drop(@)]
    /\ UNCHANGED <<up, sink, tcpQ, udpQ, ingress, out, avail, udpLoop, flows, missed>>

-----------------------------------------------------------------------------
(* udp::serve takes datagrams and sends replies in one loop, and the TUN   *)
(* is written.                                                             *)

TakeDatagram ==
    /\ up /\ udpLoop = "select" /\ udpQ > 0 /\ udpQ' = udpQ - 1
    /\ UNCHANGED <<up, sink, tcpQ, ingress, out, avail, udpLoop, flows, flow, missed>>

\* A reply that finds the queue full waits for the next free place.
SendReply ==
    /\ up /\ udpLoop = "select"
    /\ IF out < OutCap THEN out' = out + 1 /\ UNCHANGED udpLoop
       ELSE udpLoop' = "sending" /\ UNCHANGED out
    /\ UNCHANGED <<up, sink, tcpQ, udpQ, ingress, avail, flows, flow, missed>>

TunWrite ==
    /\ up /\ out > 0
    /\ IF udpLoop = "sending" THEN udpLoop' = "select" /\ UNCHANGED out
       ELSE out' = out - 1 /\ UNCHANGED udpLoop
    /\ UNCHANGED <<up, sink, tcpQ, udpQ, ingress, avail, flows, flow, missed>>

\* The first task that ends ends them all, and with them every stream.
TaskFails ==
    /\ up /\ up' = FALSE
    /\ flow' = [f \in Flows |-> Freed]
    /\ UNCHANGED <<sink, tcpQ, udpQ, ingress, out, avail, udpLoop, flows, missed>>

KNext ==
    \/ \E p \in Packets : StartSend(p)
    \/ \E f \in Flows : PeerCloses(f) \/ RelayEnds(f)
    \/ PollSend \/ HandlePacket \/ Turn \/ Accept
    \/ TakeDatagram \/ SendReply \/ TunWrite \/ TaskFails

-----------------------------------------------------------------------------
KTypeOK ==
    /\ Len(tcpQ) <= QueueCap /\ Len(ingress) <= IngressCap /\ out <= OutCap
    /\ flows \in [Tuples -> {0} \cup Flows]

\* "Deduplicated full-tuple SYN admission": however often a SYN is repeated and
\* whenever streams are dropped, one flow of a tuple is open for reading.
OneFlowPerTuple ==
    \A f, g \in Flows :
        flow[f].tuple = flow[g].tuple /\ flow[f].recv # "Closed" /\ flow[g].recv # "Closed"
            => f = g

\* "with 1024 socket permits": a flow holds its permit until both its stream
\* and its socket are gone.
SocketsBounded == Cardinality(Admitted) <= MaxSockets

\* A full queue towards the TUN costs no packet on its way in, and the loop
\* does not park over one: the flag stays set while packets are queued.
NoPacketForgotten == missed = 0 /\ (ingress # <<>> => avail)

StackInv == KTypeOK /\ OneFlowPerTuple /\ SocketsBounded /\ NoPacketForgotten

\* As long as the TUN is written, nothing the applications do keeps the
\* reader of the TUN waiting for good.
Stuck == up /\ sink # None

-----------------------------------------------------------------------------
(***************************************************************************)
(* The UDP associations of the native TUN (native/udp.rs), behind udpQ:    *)
(* one loop keeps a table of flows, hands each datagram to the task of its *)
(* flow through a bounded channel, passes replies back, and joins tasks    *)
(* that have ended; each task opens a tunnel and carries its flow until it *)
(* is idle, the tunnel ends, or a datagram cannot be sent.                 *)
(***************************************************************************)
CONSTANTS FlowKeys,              \* (source, destination) of a flow
          FlowLimit, FlowQueue,  \* 1024 flows, 64 datagrams each
          ReplyCap,              \* the channel of replies
          Generations            \* the values a generation has (2^64)

VARIABLES table,       \* flow key -> the generation of its entry, or Absent
          generation,
          tasks,       \* the tasks in the JoinSet
          replies      \* replies on their way to the stack, by flow: those in
                       \* the channel, then those whose tasks wait for a place

udpFlowVars == <<table, generation, tasks, replies>>

Absent == Generations
Entries == {k \in FlowKeys : table[k] # Absent}

FInit ==
    /\ table = [k \in FlowKeys |-> Absent] /\ generation = 0
    /\ tasks = {} /\ replies = <<>>

\* A task goes on as u.
Becomes(t, u) == tasks' = (tasks \ {t}) \cup {u}

-----------------------------------------------------------------------------
(* The loop.                                                               *)

\* A flow without an entry is opened with its first datagram in the channel.
Open(k) ==
    /\ generation' = (generation + 1) % Generations
    /\ table' = [table EXCEPT ![k] = (generation + 1) % Generations]
    /\ tasks' = tasks \cup {[key |-> k, id |-> (generation + 1) % Generations,
                             stage |-> "connecting", queued |-> 1]}

\* Mutant: a datagram that its flow's task no longer takes opens the flow anew.
Datagram_Reopens(k) ==
    /\ LET takers == {t \in tasks : t.key = k /\ t.id = table[k] /\ t.stage # "ended"}
       IN  IF takers # {}
           THEN /\ \E t \in takers :
                     Becomes(t, [t EXCEPT !.queued = IF @ < FlowQueue THEN @ + 1 ELSE @])
                /\ UNCHANGED <<table, generation>>
           ELSE Cardinality(Entries) < FlowLimit /\ Open(k)
    /\ UNCHANGED replies

\* A datagram of a flow with an entry is dropped when the channel is full or
\* its task has ended; one that would need a new entry, when the table is full.
Datagram(k) ==
    /\ IF table[k] # Absent
       THEN /\ \E t \in tasks :
                 /\ t.key = k /\ t.id = table[k] /\ t.stage # "ended" /\ t.queued < FlowQueue
                 /\ Becomes(t, [t EXCEPT !.queued = @ + 1])
            /\ UNCHANGED <<table, generation>>
       ELSE Cardinality(Entries) < FlowLimit /\ Open(k)
    /\ UNCHANGED replies

\* A reply goes to the stack, and the first task that waits for a place gets it.
PassReply ==
    /\ replies # <<>> /\ replies' = Tail(replies)
    /\ IF Len(replies) > ReplyCap
       THEN \E t \in tasks : /\ t.key = replies[ReplyCap + 1] /\ t.stage = "replying"
                             /\ Becomes(t, [t EXCEPT !.stage = "open"])
       ELSE UNCHANGED tasks
    /\ UNCHANGED <<table, generation>>

\* Mutant: the entry of a task that has ended stays.
Join_EntryKept(t) ==
    /\ t.stage = "ended" /\ tasks' = tasks \ {t}
    /\ UNCHANGED <<table, generation, replies>>

Join(t) ==
    /\ t.stage = "ended" /\ tasks' = tasks \ {t}
    /\ table' = IF table[t.key] = t.id THEN [table EXCEPT ![t.key] = Absent] ELSE table
    /\ UNCHANGED <<generation, replies>>

-----------------------------------------------------------------------------
(* flow.  A task that ends drops what its channel holds.                   *)

Ended(t) == [key |-> t.key, id |-> t.id, stage |-> "ended", queued |-> 0]

\* connect_udp answers, is refused, or takes 30 seconds.
Connect(t) ==
    /\ t.stage = "connecting"
    /\ Becomes(t, [t EXCEPT !.stage = "open"]) \/ Becomes(t, Ended(t))
    /\ UNCHANGED <<table, generation, replies>>

\* A datagram is sent, or is too large for the tunnel, or fails the task.
SendDatagram(t) ==
    /\ t.stage = "open" /\ t.queued > 0
    /\ Becomes(t, [t EXCEPT !.queued = @ - 1]) \/ Becomes(t, Ended(t))
    /\ UNCHANGED <<table, generation, replies>>

\* A payload that fits the TUN's packets becomes a reply; its task waits for
\* a place in the channel.
Payload(t) ==
    /\ t.stage = "open"
    /\ replies' = Append(replies, t.key)
    /\ IF Len(replies) < ReplyCap THEN UNCHANGED tasks
       ELSE Becomes(t, [t EXCEPT !.stage = "replying"])
    /\ UNCHANGED <<table, generation>>

\* The tunnel has ended, or nothing has moved for 120 seconds.
Finish(t) ==
    /\ t.stage = "open" /\ Becomes(t, Ended(t))
    /\ UNCHANGED <<table, generation, replies>>

JoinOf(k) == \E t \in tasks : t.key = k /\ Join(t)

FNext ==
    \/ \E k \in FlowKeys : Datagram(k)
    \/ PassReply
    \/ \E t \in tasks : Connect(t) \/ SendDatagram(t) \/ Payload(t) \/ Finish(t) \/ Join(t)

-----------------------------------------------------------------------------
FTypeOK ==
    /\ table \in [FlowKeys -> 0..Generations] /\ generation \in 0..(Generations - 1)
    /\ Len(replies) <= ReplyCap + Cardinality(tasks)
    /\ \A t \in tasks : t.queued \in 0..FlowQueue

\* Entries and tasks belong together one to one, also when generations wrap:
\* a flow has one tunnel at a time, no task is left that the table does not
\* count against its limit, and no entry outlives its task.
OneTaskPerEntry ==
    /\ \A k \in Entries : Cardinality({t \in tasks : t.key = k /\ t.id = table[k]}) = 1
    /\ \A t \in tasks : table[t.key] = t.id
    /\ Cardinality(tasks) <= FlowLimit

UdpFlowInv == FTypeOK /\ OneTaskPerEntry

\* The task of a flow that has ended is joined, after which the flow can be
\* opened again; and no task waits for good to hand in a reply.
Left(k) == \E t \in tasks : t.key = k /\ t.stage \in {"ended", "replying"}
=============================================================================
