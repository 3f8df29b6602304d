------------------------------ MODULE TcpRelay -----------------------------
(***************************************************************************)
(* relay_tcp: the gateway's pump between a CONNECT-TCP request stream and  *)
(* the target's socket.  One task polls, in the order of its biased        *)
(* select!, the client's stream, the target's socket and the idle timer;   *)
(* while the body of a branch waits (for the bandwidth bucket, for a peer  *)
(* to make room) nothing else is polled.  until_ended may drop the whole   *)
(* future at any await.                                                    *)
(***************************************************************************)
EXTENDS Pipes

CONSTANTS MaxChunk,  \* units one read returns at most
          Cap,       \* limits.total_bytes
          Idle       \* tunnel_idle_timeout is set

ASSUME TcpRelayAssumption ==
    MaxChunk \in Nat \ {0} /\ Cap \in Nat /\ Idle \in BOOLEAN

VARIABLES stage,  \* the branch polled next, or the await the task is in
          dir,    \* the direction of that await
          size,   \* units of the chunk in hand
          held,   \* of these, the ones not written yet
          done,   \* client_done ("up") and target_done ("down")
          moved,  \* units moved in both directions
          due,    \* the idle deadline has passed
          why     \* what closed the tunnel

relayVars == <<stage, dir, size, held, done, moved, due, why>>
vars == <<pipeVars, relayVars>>

Polling == {"up", "down", "timer", "parked"}
Busy == {"pace", "write", "half"}

Init ==
    /\ PipesInit
    /\ stage = "up" /\ dir = "up" /\ size = 0 /\ held = 0
    /\ done = [d \in Dirs |-> FALSE] /\ moved = 0
    /\ due = FALSE /\ why = "none"

Close(reason) ==
    /\ stage' = "closed" /\ why' = reason
    /\ UNCHANGED <<dir, size, held, done, due>>

\* Nothing to read in direction d: the select goes on to the next branch.
PollPending(d) ==
    /\ stage = d
    /\ done[d] \/ (avail[d] = 0 /\ srcEnd[d] = "open")
    /\ stage' = IF d = "up" THEN "down" ELSE "timer"
    /\ UNCHANGED <<pipeVars, dir, size, held, done, moved, due, why>>

\* A chunk: the idle deadline moves, and the branch waits for the bucket.
PollChunk(d) ==
    /\ stage = d /\ ~done[d]
    /\ \E n \in 1..MaxChunk : Take(d, n) /\ size' = n /\ held' = n
    /\ stage' = "pace" /\ dir' = d /\ due' = FALSE
    /\ UNCHANGED <<done, moved, why>>

PollEnd(d) ==
    /\ stage = d /\ ~done[d] /\ Ended(d)
    /\ stage' = "half" /\ dir' = d
    /\ done' = [done EXCEPT ![d] = TRUE]
    /\ UNCHANGED <<pipeVars, size, held, moved, due, why>>

PollError(d) ==
    /\ stage = d /\ ~done[d] /\ srcEnd[d] = "error"
    /\ Close("error")
    /\ UNCHANGED <<pipeVars, moved>>

PollTimer ==
    /\ stage = "timer"
    /\ IF Idle /\ due THEN Close("idle")
       ELSE stage' = "parked" /\ UNCHANGED <<dir, size, held, done, due, why>>
    /\ UNCHANGED <<pipeVars, moved>>

Ready(d) == ~done[d] /\ (avail[d] > 0 \/ srcEnd[d] # "open")

\* Mutant: the timer does not wake the task.
Wake_TimerForgotten ==
    /\ stage = "parked"
    /\ \E d \in Dirs : Ready(d)
    /\ stage' = "up"
    /\ UNCHANGED <<pipeVars, dir, size, held, done, moved, due, why>>

Wake ==
    /\ stage = "parked"
    /\ (\E d \in Dirs : Ready(d)) \/ (Idle /\ due)
    /\ stage' = "up"
    /\ UNCHANGED <<pipeVars, dir, size, held, done, moved, due, why>>

\* bandwidth.consume has the tokens, or there is no limit.
Paced ==
    /\ stage = "pace"
    /\ stage' = "write"
    /\ UNCHANGED <<pipeVars, dir, size, held, done, moved, due, why>>

\* Mutant: only what goes to the target counts towards the ceiling.
Write_OneWayCounted ==
    /\ stage = "write"
    /\ Put(dir)
    /\ held' = held - 1
    /\ IF held' > 0 THEN UNCHANGED <<stage, dir, size, done, moved, due, why>>
       ELSE /\ moved' = moved + size
            /\ stage' = IF dir = "up" /\ moved' >= Cap THEN "closed" ELSE "up"
            /\ why' = IF dir = "up" /\ moved' >= Cap THEN "cap" ELSE why
            /\ UNCHANGED <<dir, size, done, due>>

\* write_all / send_data moves what fits.  When the last of it is in, the
\* chunk is counted and checked against the ceiling.
Write ==
    /\ stage = "write"
    /\ Put(dir)
    /\ held' = held - 1
    /\ IF held' > 0 THEN UNCHANGED <<stage, dir, size, done, moved, due, why>>
       ELSE /\ moved' = moved + size
            /\ stage' = IF moved' >= Cap THEN "closed" ELSE "up"
            /\ why' = IF moved' >= Cap THEN "cap" ELSE why
            /\ UNCHANGED <<dir, size, done, due>>

WriteFails ==
    /\ stage = "write"
    /\ Close("error")
    /\ UNCHANGED <<pipeVars, moved>>

\* Mutant: the loop ends as soon as one side is done.
HalfClose_EitherDone ==
    /\ stage = "half"
    /\ PassEnd(dir)
    /\ Close("both")
    /\ UNCHANGED moved

\* The half-close is passed on; the loop ends once both sides are done.
HalfClose ==
    /\ stage = "half"
    /\ PassEnd(dir)
    /\ IF \A d \in Dirs : done[d] THEN Close("both")
       ELSE stage' = "up" /\ UNCHANGED <<dir, size, held, done, due, why>>
    /\ UNCHANGED moved

\* The clock reaches the idle deadline.
Elapse ==
    /\ stage # "closed" /\ ~due
    /\ due' = TRUE
    /\ UNCHANGED <<pipeVars, stage, dir, size, held, done, moved, why>>

\* until_ended drops the relay: the session was revoked or has expired; or
\* the connection is lost and the task aborted.
Dropped ==
    /\ stage # "closed"
    /\ Close("session")
    /\ UNCHANGED <<pipeVars, moved>>

Poll(d) == PollPending(d) \/ PollChunk(d) \/ PollEnd(d) \/ PollError(d)

\* The relay's task: one poll of the select!, or the await of a branch.
Task ==
    \/ \E d \in Dirs : Poll(d)
    \/ PollTimer \/ Wake \/ Paced \/ Write \/ HalfClose

PeersStep == Peers /\ UNCHANGED relayVars
Reading(d) == Read(d) /\ UNCHANGED relayVars

Next == PeersStep \/ Task \/ WriteFails \/ Elapse \/ Dropped

Spec == Init /\ [][Next]_vars

(***************************************************************************)
(* Fairness.  The task is polled when it is woken, the bucket fills, time  *)
(* passes, and both peers read whatever reaches them as soon as they can.  *)
(***************************************************************************)
FairSpec ==
    /\ Spec /\ WF_vars(Task) /\ WF_vars(Elapse)
    /\ \A d \in Dirs : WF_vars(Reading(d))

-----------------------------------------------------------------------------
TypeOK ==
    /\ PipesTypeOK
    /\ stage \in Polling \cup Busy \cup {"closed"} /\ dir \in Dirs
    /\ size \in 0..MaxChunk /\ held \in 0..MaxChunk
    /\ done \in [Dirs -> BOOLEAN] /\ moved \in Nat /\ due \in BOOLEAN
    /\ why \in {"none", "both", "cap", "error", "idle", "session"}

InHand(d) == IF stage \in {"pace", "write"} /\ dir = d THEN held ELSE 0

\* While the tunnel is up every unit read from one side has been written to
\* the other or is in hand: neither direction loses or invents bytes.
NothingLost ==
    stage # "closed" =>
        \A d \in Dirs : sent[d] - avail[d] = wrote[d] + InHand(d)

\* total_bytes: the relay takes no further chunk once the ceiling is reached,
\* so a tunnel overshoots it by less than one chunk in both directions
\* together.
CeilingHolds ==
    /\ stage \in Polling => moved < Cap \/ moved = 0
    /\ moved <= MaxChunk \/ moved < Cap + MaxChunk

\* The tunnel as its two ends see it.
Promise == INSTANCE Duplex WITH
               state <- IF stage # "closed" THEN "open"
                        ELSE IF why = "both" THEN "clean" ELSE "cut"
KeepsPromise == Promise!Spec

\* ResourceLimits.tunnel_idle_timeout: a tunnel that has carried no payload
\* in either direction for that long is torn down.
Overdue == Idle /\ stage # "closed" /\ due
IdleTornDown == []<>~Overdue
============================================================================
