------------------------------ MODULE UdpRelay -----------------------------
(***************************************************************************)
(* One CONNECT-UDP tunnel on the gateway: the UDP branch of serve_request, *)
(* relay, and read_capsules, which relay spawns as a task of its own.  The *)
(* router feeds the tunnel's queue from a third task (see DatagramRouter); *)
(* only the length of the queue matters here.  relay polls, in the order   *)
(* of its biased select!, the queue, the socket, the reader's handle and   *)
(* the idle timer; the other tasks run between any two of these polls.     *)
(***************************************************************************)
EXTENDS Integers

CONSTANTS Capacity,   \* INBOUND_CAPACITY
          MaxSize,    \* units of the largest payload
          Cap,        \* limits.total_bytes
          MaxIn,      \* bound: datagrams and capsules the client sends
          MaxReplies  \* bound: datagrams the target sends

VARIABLES idle,     \* tunnel_idle_timeout is set
          phase,    \* setup, registered, relay or over
          stage,    \* the branch relay polls next, or the payload it moves
          queued,   \* datagrams in the tunnel's queue
          reader,   \* none, reading, sending (to a full queue) or ended
          stream,   \* the client's side of the request stream: open, closed or reset
          capsules, \* DATAGRAM capsules in it that were not read yet
          replies,  \* datagrams at the target's socket
          input,    \* datagrams and capsules sent so far
          moved, due, why

vars == <<idle, phase, stage, queued, reader, stream, capsules, replies,
          input, moved, due, why>>
peerVars == <<stream, capsules, replies, input>>

Polling == {"inbound", "socket", "reader", "timer", "parked"}
Moving == {"toTarget", "toClient"}

Init ==
    /\ idle \in BOOLEAN
    /\ phase = "setup" /\ stage = "inbound" /\ queued = 0 /\ reader = "none"
    /\ stream = "open" /\ capsules = 0 /\ replies = [left |-> MaxReplies, here |-> 0]
    /\ input = 0 /\ moved = 0 /\ due = FALSE /\ why = "none"

(***************************************************************************)
(* The peers and the router.                                               *)
(***************************************************************************)
\* The router hands over a datagram, or drops it when the queue is full.
Datagram ==
    /\ phase \in {"registered", "relay"} /\ input < MaxIn
    /\ input' = input + 1
    /\ queued' = IF queued < Capacity THEN queued + 1 ELSE queued
    /\ UNCHANGED <<phase, stage, reader, stream, capsules, replies, moved, due, why>>

SendCapsule ==
    /\ stream = "open" /\ input < MaxIn
    /\ input' = input + 1 /\ capsules' = capsules + 1
    /\ UNCHANGED <<phase, stage, queued, reader, stream, replies, moved, due, why>>

CloseStream ==
    /\ stream = "open"
    /\ stream' \in {"closed", "reset"}
    /\ UNCHANGED <<phase, stage, queued, reader, capsules, replies, input, moved, due, why>>

Answer ==
    /\ phase = "relay" /\ replies.left > 0
    /\ replies' = [left |-> replies.left - 1, here |-> replies.here + 1]
    /\ UNCHANGED <<phase, stage, queued, reader, stream, capsules, input, moved, due, why>>

(***************************************************************************)
(* serve_request: the route is claimed before the response goes out.       *)
(***************************************************************************)
Register ==
    /\ phase = "setup"
    /\ phase' = "registered"
    /\ UNCHANGED <<stage, queued, reader, peerVars, moved, due, why>>

Respond ==
    /\ phase = "registered"
    /\ phase' = "relay" /\ reader' = "reading"
    /\ UNCHANGED <<stage, queued, peerVars, moved, due, why>>

\* Mutant: the loop is left without aborting the reader.
End_NoAbort(reason) ==
    /\ phase' = "over" /\ why' = reason /\ queued' = 0
    /\ UNCHANGED <<stage, reader, stream, capsules, input>>

\* relay's loop breaks: the reader is aborted, the route and the queue go.
End(reason) ==
    /\ phase' = "over" /\ why' = reason /\ queued' = 0
    /\ reader' = IF reader = "none" THEN "none" ELSE "ended"
    /\ UNCHANGED <<stage, stream, capsules, input>>

RespondFails ==
    /\ phase = "registered"
    /\ End("response")
    /\ UNCHANGED <<replies, moved, due>>

\* until_ended drops the relay future, or the task is aborted with its
\* connection; relay is then at an await.  Dropping a JoinHandle detaches the
\* task behind it.  From registered, the relay was never polled.
Dropped ==
    /\ phase \in {"registered", "relay"}
    /\ phase = "relay" => stage \in Moving \cup {"parked"}
    /\ phase' = "over" /\ why' = "dropped" /\ queued' = 0
    /\ UNCHANGED <<stage, reader, peerVars, moved, due>>

(***************************************************************************)
(* read_capsules.                                                          *)
(***************************************************************************)
ReadCapsule ==
    /\ reader = "reading" /\ capsules > 0
    /\ capsules' = capsules - 1
    /\ \/ reader' = "sending"
       \/ reader' = "reading"     \* another type: dropped
       \/ reader' = "ended"       \* malformed
    /\ UNCHANGED <<phase, stage, queued, stream, replies, input, moved, due, why>>

\* sink.send waits for room, and fails once the receiver is gone.
PushCapsule ==
    /\ reader = "sending"
    /\ \/ /\ phase = "relay" /\ queued < Capacity
          /\ queued' = queued + 1 /\ reader' = "reading"
       \/ /\ phase = "over"
          /\ reader' = "ended" /\ UNCHANGED queued
    /\ UNCHANGED <<phase, stage, peerVars, moved, due, why>>

ReadEnd ==
    /\ reader = "reading"
    /\ stream = "reset" \/ (stream = "closed" /\ capsules = 0)
    /\ reader' = "ended"
    /\ UNCHANGED <<phase, stage, queued, peerVars, moved, due, why>>

(***************************************************************************)
(* relay.                                                                  *)
(***************************************************************************)
At(branch) == phase = "relay" /\ stage = branch

Pending(next) ==
    /\ stage' = next
    /\ UNCHANGED <<phase, queued, reader, peerVars, moved, due, why>>

\* A payload in a context of its own, or a malformed one, is dropped.
PollInbound ==
    /\ At("inbound")
    /\ \/ /\ queued > 0
          /\ queued' = queued - 1 /\ due' = FALSE
          /\ stage' \in {"toTarget", "inbound"}
          /\ UNCHANGED <<phase, reader, peerVars, moved, why>>
       \/ queued = 0 /\ Pending("socket")

PollSocket ==
    /\ At("socket")
    /\ \/ /\ replies.here > 0
          /\ replies' = [replies EXCEPT !.here = @ - 1]
          /\ due' = FALSE /\ stage' = "toClient"
          /\ UNCHANGED <<phase, queued, reader, stream, capsules, input, moved, why>>
       \/ replies.here = 0 /\ Pending("reader")

SocketFails ==
    /\ At("socket") \/ At("toTarget")
    /\ End("socket")
    /\ UNCHANGED <<replies, moved, due>>

PollReader ==
    /\ At("reader")
    /\ \/ reader = "ended" /\ End("client") /\ UNCHANGED <<replies, moved, due>>
       \/ reader # "ended" /\ Pending("timer")

\* Mutant: the idle branch has lost its place in the select!.
PollTimer_Disarmed == At("timer") /\ Pending("parked")

PollTimer ==
    /\ At("timer")
    /\ \/ idle /\ due /\ End("idle") /\ UNCHANGED <<replies, moved, due>>
       \/ ~(idle /\ due) /\ Pending("parked")

\* Mutant: the end of the reader does not wake the relay.
Wake_ReaderForgotten ==
    /\ At("parked")
    /\ queued > 0 \/ replies.here > 0 \/ (idle /\ due)
    /\ Pending("inbound")

Wake ==
    /\ At("parked")
    /\ queued > 0 \/ replies.here > 0 \/ reader = "ended" \/ (idle /\ due)
    /\ Pending("inbound")

\* The buckets are paid and the payload goes out (a reply that does not fit
\* is dropped); either way it counts towards the ceiling.
Move ==
    /\ \E b \in Moving : At(b)
    /\ \E n \in 1..MaxSize :
          /\ moved' = moved + n
          /\ IF moved' >= Cap THEN End("cap") /\ UNCHANGED <<replies, due>>
             ELSE /\ stage' = "inbound"
                  /\ UNCHANGED <<phase, queued, reader, peerVars, due, why>>

Elapse ==
    /\ phase = "relay" /\ ~due
    /\ due' = TRUE
    /\ UNCHANGED <<phase, stage, queued, reader, peerVars, moved, why>>

Relay == PollInbound \/ PollSocket \/ PollReader \/ PollTimer \/ Wake \/ Move
Reader == ReadCapsule \/ PushCapsule \/ ReadEnd

Next ==
    /\ \/ Datagram \/ SendCapsule \/ CloseStream \/ Answer
       \/ Register \/ Respond \/ RespondFails \/ Dropped \/ SocketFails
       \/ Relay \/ Reader \/ Elapse
    /\ UNCHANGED idle

Spec == Init /\ [][Next]_vars

\* Both tasks are polled when they are woken, and time passes.
FairSpec ==
    Spec /\ WF_vars(Relay /\ UNCHANGED idle) /\ WF_vars(Reader /\ UNCHANGED idle)
         /\ WF_vars(Elapse /\ UNCHANGED idle)

-----------------------------------------------------------------------------
TypeOK ==
    /\ phase \in {"setup", "registered", "relay", "over"}
    /\ stage \in Polling \cup Moving
    /\ queued \in 0..Capacity
    /\ reader \in {"none", "reading", "sending", "ended"}
    /\ stream \in {"open", "closed", "reset"} /\ capsules \in Nat /\ input \in Nat
    /\ replies \in [left : Nat, here : Nat]
    /\ moved \in Nat /\ due \in BOOLEAN
    /\ why \in {"none", "response", "socket", "client", "idle", "cap", "dropped"}

\* total_bytes: no payload is taken up once the ceiling is reached, and the
\* overshoot is less than one payload, both directions counted.
CeilingHolds ==
    /\ phase = "relay" /\ stage \in Polling => moved < Cap \/ moved = 0
    /\ moved <= MaxSize \/ moved < Cap + MaxSize

\* A relay that ends by itself leaves no reader behind that holds the
\* request stream.  One that is dropped from outside does (the JoinHandle goes,
\* not the task); nothing that reader still takes up is queued for anyone.
ReaderEndsWithRelay ==
    phase = "over" =>
        /\ reader \in {"none", "ended"} \/ why = "dropped"
        /\ queued = 0

\* The reader a dropped relay left behind is gone once the client's side of
\* the request stream has ended, and does not stay in a send either.
LeftBehind ==
    /\ phase = "over" /\ reader \in {"reading", "sending"}
    /\ stream # "open" \/ reader = "sending"
ReaderIsReclaimed == []<>~LeftBehind

\* The client closing its side of the request stream ends the tunnel once
\* traffic stops, with no help from the idle timer.
CloseUnseen == phase = "relay" /\ stream # "open"
ClientCloseSeen == []<>~CloseUnseen

\* ResourceLimits.tunnel_idle_timeout: a tunnel that has carried no payload
\* for that long is torn down.
Overdue == idle /\ phase = "relay" /\ due
IdleTornDown == []<>~Overdue
============================================================================
