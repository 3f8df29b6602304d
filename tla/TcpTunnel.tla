------------------------------ MODULE TcpTunnel ----------------------------
(***************************************************************************)
(* TcpTunnel::relay: the client's pump between a local socket and the      *)
(* tunnel.  try_join! polls an upload and a download future independently; *)
(* an error of one drops both.                                             *)
(***************************************************************************)
EXTENDS Pipes

CONSTANT MaxChunk   \* units one read returns at most

VARIABLES pump,   \* what each direction's future waits for
          held,   \* the units it has read and not written
          state   \* open, clean (relay returned Ok) or cut

vars == <<pipeVars, pump, held, state>>

Init ==
    /\ PipesInit
    /\ pump = [d \in Dirs |-> "read"] /\ held = [d \in Dirs |-> 0]
    /\ state = "open"

Goto(d, p, n) ==
    /\ pump' = [pump EXCEPT ![d] = p]
    /\ held' = [held EXCEPT ![d] = n]

\* Mutant: one task for both directions, as the gateway has.
Fetch_OneTask(d) ==
    /\ state = "open" /\ pump[d] = "read"
    /\ \A e \in Dirs : pump[e] # "write"
    /\ \E n \in 1..MaxChunk : Take(d, n) /\ Goto(d, "write", n)
    /\ UNCHANGED state

Fetch(d) ==
    /\ state = "open" /\ pump[d] = "read"
    /\ \E n \in 1..MaxChunk : Take(d, n) /\ Goto(d, "write", n)
    /\ UNCHANGED state

Store(d) ==
    /\ state = "open" /\ pump[d] = "write"
    /\ Put(d)
    /\ Goto(d, IF held[d] = 1 THEN "read" ELSE "write", held[d] - 1)
    /\ UNCHANGED state

SourceEnded(d) ==
    /\ state = "open" /\ pump[d] = "read" /\ Ended(d)
    /\ Goto(d, "finish", 0)
    /\ UNCHANGED <<pipeVars, state>>

\* Mutant: select! in the place of try_join!.
Finish_First(d) ==
    /\ state = "open" /\ pump[d] = "finish"
    /\ PassEnd(d)
    /\ Goto(d, "done", 0)
    /\ state' = "clean"

\* send.finish() or local_write.shutdown(); relay returns when both have.
Finish(d) ==
    /\ state = "open" /\ pump[d] = "finish"
    /\ PassEnd(d)
    /\ Goto(d, "done", 0)
    /\ state' = IF \A e \in Dirs : pump'[e] = "done" THEN "clean" ELSE "open"

\* recv_data or read answers an error.
ReadFails(d) ==
    /\ state = "open" /\ pump[d] = "read" /\ srcEnd[d] = "error"
    /\ state' = "cut"
    /\ UNCHANGED <<pipeVars, pump, held>>

\* A write or a finish fails, or the owner drops the relay.
Fail ==
    /\ state = "open"
    /\ state' = "cut"
    /\ UNCHANGED <<pipeVars, pump, held>>

Pump(d) == Fetch(d) \/ Store(d) \/ SourceEnded(d) \/ Finish(d) \/ ReadFails(d)

PeersStep == Peers /\ UNCHANGED <<pump, held, state>>
Reading(d) == Read(d) /\ UNCHANGED <<pump, held, state>>

Next == PeersStep \/ (\E d \in Dirs : Pump(d)) \/ Fail

Spec == Init /\ [][Next]_vars

\* Both futures are polled when they can go on, and the peers read.
FairSpec ==
    /\ Spec
    /\ \A d \in Dirs : WF_vars(Pump(d)) /\ WF_vars(Reading(d))

-----------------------------------------------------------------------------
TypeOK ==
    /\ PipesTypeOK
    /\ pump \in [Dirs -> {"read", "write", "finish", "done"}]
    /\ held \in [Dirs -> 0..MaxChunk]
    /\ state \in {"open", "clean", "cut"}

\* The tunnel as its two ends see it.
Promise == INSTANCE Duplex
KeepsPromise == Promise!Spec

\* "backpressure in one direction must not prevent bytes or FIN from
\* progressing in the other direction": with a target that answers as it
\* reads, all that was sent, and then the end of it, arrives.
Behind ==
    state = "open" /\ \E d \in Dirs : wrote[d] # sent[d] \/ (srcEnd[d] = "fin" /\ ~fin[d])
BothDirectionsProgress == []<>~Behind
============================================================================
