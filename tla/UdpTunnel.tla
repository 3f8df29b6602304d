----------------------------- MODULE UdpTunnel -----------------------------
(***************************************************************************)
(* The client's end of a CONNECT-UDP tunnel: connect_udp, the reader task  *)
(* of its request stream, UdpTunnel::recv and Drop.  recv polls the queue, *)
(* then the reader's handle; the router and the reader are other tasks,    *)
(* which on a runtime of several threads run between the two polls.        *)
(***************************************************************************)
EXTENDS Integers

CONSTANTS Capacity,  \* INBOUND_CAPACITY
          MaxIn      \* bound: datagrams and capsules the proxy sends

VARIABLES phase,    \* request, registered, open or gone
          recv,     \* idle, inbound, reader, parked, or none: None was returned
          queued,   \* datagrams in the tunnel's queue
          late,     \* how many of them came after recv found the queue empty
          reader,   \* none, reading, sending (to a full queue) or ended
          stream,   \* the proxy's side of the request stream
          capsules, \* DATAGRAM capsules in it that were not read yet
          input     \* datagrams and capsules sent so far

vars == <<phase, recv, queued, late, reader, stream, capsules, input>>

Init ==
    /\ phase = "request" /\ recv = "idle" /\ queued = 0 /\ late = 0
    /\ reader = "none" /\ stream = "pending" /\ capsules = 0 /\ input = 0

(***************************************************************************)
(* The proxy and the router.  The proxy answers, then sends replies, which *)
(* may overtake the answer, and closes.                                    *)
(***************************************************************************)
Answer ==
    /\ stream = "pending" /\ phase # "request"
    /\ stream' \in {"open", "refused"}
    /\ UNCHANGED <<phase, recv, queued, late, reader, capsules, input>>

Enqueue ==
    /\ queued < Capacity
    /\ queued' = queued + 1
    /\ late' = IF recv = "reader" THEN late + 1 ELSE late

Datagram ==
    /\ stream # "pending" /\ phase \in {"registered", "open"} /\ input < MaxIn
    /\ input' = input + 1
    /\ Enqueue \/ (queued = Capacity /\ UNCHANGED <<queued, late>>)
    /\ UNCHANGED <<phase, recv, reader, stream, capsules>>

SendCapsule ==
    /\ stream = "open" /\ input < MaxIn
    /\ input' = input + 1 /\ capsules' = capsules + 1
    /\ UNCHANGED <<phase, recv, queued, late, reader, stream>>

CloseStream ==
    /\ stream = "open"
    /\ stream' \in {"closed", "reset"}
    /\ UNCHANGED <<phase, recv, queued, late, reader, capsules, input>>

(***************************************************************************)
(* connect_udp: the route is claimed before the response is read.          *)
(***************************************************************************)
Register ==
    /\ phase = "request"
    /\ phase' = "registered"
    /\ UNCHANGED <<recv, queued, late, reader, stream, capsules, input>>

\* A refusal drops the route and its queue.
Response ==
    /\ phase = "registered" /\ stream # "pending"
    /\ \/ /\ stream # "refused"
          /\ phase' = "open" /\ reader' = "reading"
          /\ UNCHANGED queued
       \/ /\ stream = "refused"
          /\ phase' = "gone" /\ queued' = 0
          /\ UNCHANGED reader
    /\ UNCHANGED <<recv, late, stream, capsules, input>>

(***************************************************************************)
(* read_capsules.                                                          *)
(***************************************************************************)
ReadCapsule ==
    /\ reader = "reading" /\ capsules > 0
    /\ capsules' = capsules - 1
    /\ reader' \in {"sending", "reading", "ended"}
    /\ UNCHANGED <<phase, recv, queued, late, stream, input>>

\* send waits for room; the receiver never goes before an aborted reader.
PushCapsule ==
    /\ reader = "sending"
    /\ Enqueue /\ reader' = "reading"
    /\ UNCHANGED <<phase, recv, stream, capsules, input>>

ReadEnd ==
    /\ reader = "reading"
    /\ stream = "reset" \/ (stream = "closed" /\ capsules = 0)
    /\ reader' = "ended"
    /\ UNCHANGED <<phase, recv, queued, late, stream, capsules, input>>

(***************************************************************************)
(* UdpTunnel.                                                              *)
(***************************************************************************)
Poll(next) ==
    /\ recv' = next
    /\ UNCHANGED <<phase, queued, late, reader, stream, capsules, input>>

Recv == phase = "open" /\ recv = "idle" /\ Poll("inbound")

\* Mutant: the select! is not biased.
PollInbound_Unbiased ==
    /\ recv = "inbound"
    /\ \/ /\ queued > 0
          /\ queued' = queued - 1 /\ late' = 0
          /\ recv' \in {"idle", "inbound"}
       \/ /\ recv' = "reader" /\ late' = 0
          /\ UNCHANGED queued
    /\ UNCHANGED <<phase, reader, stream, capsules, input>>

\* A datagram in an unknown context, or a malformed one, is dropped and the
\* loop goes round again.
PollInbound ==
    /\ recv = "inbound"
    /\ \/ /\ queued > 0
          /\ queued' = queued - 1 /\ late' = 0
          /\ recv' \in {"idle", "inbound"}
       \/ /\ queued = 0
          /\ recv' = "reader" /\ late' = 0
          /\ UNCHANGED queued
    /\ UNCHANGED <<phase, reader, stream, capsules, input>>

PollReader ==
    /\ recv = "reader"
    /\ \/ reader = "ended" /\ Poll("none")
       \/ reader # "ended" /\ Poll("parked")

\* Mutant: the reader's handle is only polled when a datagram arrives.
Wake_ReaderForgotten == recv = "parked" /\ queued > 0 /\ Poll("inbound")

Wake == recv = "parked" /\ (queued > 0 \/ reader = "ended") /\ Poll("inbound")

\* Mutant: Drop detaches the reader.
Drop_Detaches ==
    /\ phase = "open" /\ recv \in {"idle", "parked", "none"}
    /\ phase' = "gone" /\ queued' = 0 /\ recv' = "idle"
    /\ UNCHANGED <<late, reader, stream, capsules, input>>

\* close, or the tunnel is dropped (and with it a recv in progress).
Drop ==
    /\ phase = "open" /\ recv \in {"idle", "parked", "none"}
    /\ phase' = "gone" /\ queued' = 0 /\ recv' = "idle"
    /\ reader' = "ended"
    /\ UNCHANGED <<late, stream, capsules, input>>

Proxy == Answer \/ Datagram \/ SendCapsule \/ CloseStream
Reader == ReadCapsule \/ PushCapsule \/ ReadEnd
App == Recv \/ PollInbound \/ PollReader \/ Wake

Next == Proxy \/ Reader \/ App \/ Register \/ Response \/ Drop

Spec == Init /\ [][Next]_vars

\* The tasks run when they are woken; the application keeps calling recv.
FairSpec == Spec /\ WF_vars(Reader) /\ WF_vars(App)

-----------------------------------------------------------------------------
TypeOK ==
    /\ phase \in {"request", "registered", "open", "gone"}
    /\ recv \in {"idle", "inbound", "reader", "parked", "none"}
    /\ queued \in 0..Capacity /\ late \in Nat
    /\ reader \in {"none", "reading", "sending", "ended"}
    /\ stream \in {"pending", "open", "refused", "closed", "reset"}
    /\ capsules \in Nat /\ input \in Nat

\* What the biased order does give: recv reports the close over no datagram
\* that was queued before it looked, only over ones that came after.
LossIsLate == recv # "none" /\ recv' = "none" => queued <= late
OnlyLateOnesLost == [][LossIsLate]_vars

\* Dropping the tunnel, or a refusal, leaves no reader running.
NoReaderLeft == phase = "gone" => reader \in {"none", "ended"}

\* The proxy closing the request stream is reported to an application that
\* keeps receiving.
CloseUnreported == phase = "open" /\ stream \in {"closed", "reset"} /\ recv # "none"
CloseReported == []<>~CloseUnreported
============================================================================
