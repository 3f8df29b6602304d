--------------------------- MODULE DatagramRouter --------------------------
(***************************************************************************)
(* DatagramRouter: the QUIC datagrams of one connection, fanned out to the *)
(* tunnels that share it.  read_loop delivers one datagram at a time;      *)
(* tunnels register and unregister from their own tasks, and the table is  *)
(* under one lock, so each of these is one step.  A datagram stands for    *)
(* its arrival number on its stream.                                       *)
(***************************************************************************)
EXTENDS Integers, Sequences, FiniteSets

CONSTANTS Streams,             \* request streams of the connection
          MaxPendingPerStream,
          MaxPendingStreams,
          InboundCapacity,
          MaxArrivals          \* bound: datagrams that arrive per stream

\* A tunnel's queue takes all that may be waiting for it: 16 against 256.
ASSUME RouterAssumption ==
    /\ IsFiniteSet(Streams)
    /\ MaxPendingPerStream \in Nat \ {0} /\ MaxPendingStreams \in Nat
    /\ InboundCapacity \in Nat /\ MaxPendingPerStream <= InboundCapacity
    /\ MaxArrivals \in Nat

VARIABLES phase,    \* a stream: new, open (registered) or gone
          active,   \* Routes.active: the streams with a sink
          pending,  \* Routes.pending: no entry is the empty queue
          inbound,  \* the queue behind each sink
          arrived,  \* datagrams read off the connection for each stream
          last      \* the last one each tunnel has taken

routerVars == <<phase, active, pending, inbound, arrived, last>>

RouterInit ==
    /\ phase = [s \in Streams |-> "new"] /\ active = {}
    /\ pending = [s \in Streams |-> <<>>] /\ inbound = [s \in Streams |-> <<>>]
    /\ arrived = [s \in Streams |-> 0] /\ last = [s \in Streams |-> 0]

Waiting == {s \in Streams : pending[s] # <<>>}

\* The queue q with n behind it, the oldest making room.
PushEvicting(q, n) ==
    Append(IF Len(q) = MaxPendingPerStream THEN Tail(q) ELSE q, n)

\* deliver: to the tunnel that claimed the stream, or lost if its queue is
\* full; otherwise held for a tunnel to come, unless too many streams wait.
Deliver(s) ==
    LET n == arrived[s] + 1 IN
    /\ arrived[s] < MaxArrivals
    /\ arrived' = [arrived EXCEPT ![s] = n]
    /\ \/ /\ s \in active
          /\ inbound' = IF Len(inbound[s]) < InboundCapacity
                        THEN [inbound EXCEPT ![s] = Append(@, n)] ELSE inbound
          /\ UNCHANGED pending
       \/ /\ s \notin active
          /\ pending' = IF Cardinality(Waiting) >= MaxPendingStreams
                           /\ s \notin Waiting
                        THEN pending
                        ELSE [pending EXCEPT ![s] = PushEvicting(@, n)]
          /\ UNCHANGED inbound
    /\ UNCHANGED <<phase, active, last>>

\* Mutant: what waits is taken from the new end.
Register_Reversed(s) ==
    /\ phase[s] = "new"
    /\ phase' = [phase EXCEPT ![s] = "open"]
    /\ inbound' = [inbound EXCEPT ![s] = [i \in 1..Len(pending[s]) |->
                      pending[s][Len(pending[s]) + 1 - i]]]
    /\ pending' = [pending EXCEPT ![s] = <<>>]
    /\ active' = active \cup {s}
    /\ UNCHANGED <<arrived, last>>

\* register: what waited goes ahead of what comes.
Register(s) ==
    /\ phase[s] = "new"
    /\ phase' = [phase EXCEPT ![s] = "open"]
    /\ inbound' = [inbound EXCEPT ![s] = pending[s]]
    /\ pending' = [pending EXCEPT ![s] = <<>>]
    /\ active' = active \cup {s}
    /\ UNCHANGED <<arrived, last>>

\* A request that is refused, or never was a tunnel, claims nothing.
Refused(s) ==
    /\ phase[s] = "new"
    /\ phase' = [phase EXCEPT ![s] = "gone"]
    /\ UNCHANGED <<active, pending, inbound, arrived, last>>

Receive(s) ==
    /\ phase[s] = "open" /\ inbound[s] # <<>>
    /\ last' = [last EXCEPT ![s] = Head(inbound[s])]
    /\ inbound' = [inbound EXCEPT ![s] = Tail(@)]
    /\ UNCHANGED <<phase, active, pending, arrived>>

\* The DatagramRoute and the receiver are dropped.
Unregister(s) ==
    /\ phase[s] = "open"
    /\ phase' = [phase EXCEPT ![s] = "gone"]
    /\ active' = active \ {s}
    /\ inbound' = [inbound EXCEPT ![s] = <<>>]
    /\ UNCHANGED <<pending, arrived, last>>

RouterNext ==
    \E s \in Streams : \/ Deliver(s) \/ Register(s) \/ Refused(s)
                       \/ Receive(s) \/ Unregister(s)

RouterSpec == RouterInit /\ [][RouterNext]_routerVars

-----------------------------------------------------------------------------
RouterTypeOK ==
    /\ phase \in [Streams -> {"new", "open", "gone"}]
    /\ active \in SUBSET Streams
    /\ pending \in [Streams -> Seq(Nat)] /\ inbound \in [Streams -> Seq(Nat)]
    /\ arrived \in [Streams -> Nat] /\ last \in [Streams -> Nat]

\* The memory a peer can make the router hold is bounded: by the table for
\* streams nobody has claimed, by the channel for the others.
MemoryBounded ==
    /\ Cardinality(Waiting) <= MaxPendingStreams
    /\ \A s \in Streams : /\ Len(pending[s]) <= MaxPendingPerStream
                          /\ Len(inbound[s]) <= InboundCapacity

\* A tunnel's datagrams are behind its sink, never left in the table: none
\* that races register is stranded.
NoneStranded == \A s \in Streams : phase[s] = "open" => pending[s] = <<>>

\* A tunnel takes its datagrams in the order they arrived, the early ones
\* first, whatever was dropped on the way.
ArrivalOrder ==
    \A s \in Streams :
        \A i \in 1..Len(inbound[s]) :
            /\ inbound[s][i] > (IF i = 1 THEN last[s] ELSE inbound[s][i - 1])
            /\ inbound[s][i] <= arrived[s]

\* What waits for a stream is the latest that arrived for it, without gaps:
\* a full queue makes room at its old end.
LatestWait ==
    \A s \in Streams : \A i \in 1..Len(pending[s]) :
        pending[s][i] = arrived[s] - Len(pending[s]) + i

\* What the router promises a tunnel that registers late: the newest of what
\* came early, in order, none left in the table, and within the bounds that
\* keep a peer from growing it.
RouterInv == RouterTypeOK /\ MemoryBounded /\ NoneStranded /\ ArrivalOrder /\ LatestWait
============================================================================
