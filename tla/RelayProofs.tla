---------------------------- MODULE RelayProofs -----------------------------
(***************************************************************************)
(* The relays of TCP and UDP tunnels, for any buffers, ceilings and        *)
(* chunks: TcpInv and UdpInv hold, both TCP relays implement the pipe of   *)
(* Duplex, and UdpTunnel::recv reports the close last.  Part by part: its  *)
(* inductive invariant, that it holds at first, that every step keeps it,  *)
(* and for TCP that every step is one of Duplex or none.  The parts share  *)
(* nothing, so the last section only puts them side by side.               *)
(***************************************************************************)
EXTENDS Relays, TLAPS

(***************************************************************************)
(* The relay of a TCP tunnel on the gateway: relay_tcp.                    *)
(***************************************************************************)
\* A direction whose end was read has nothing left to read, and its end has
\* been passed on unless that is what the task is about to do.
EndsInv ==
    \A d \in Dirs :
        /\ done[d] => srcEnd[d] = "fin" /\ avail[d] = 0
        /\ fin[d] <=> done[d] /\ ~(stage = "half" /\ dir = d)

\* A chunk is in hand while it is paced and written.
ChunkInv ==
    /\ stage \in {"pace", "write"} => ~done[dir] /\ held > 0
    /\ stage = "half" => done[dir]

RelayInv ==
    /\ TypeOK /\ NothingLost /\ CeilingHolds
    /\ stage # "closed" => EndsInv /\ ChunkInv /\ (moved < Cap \/ moved = 0)

\* A relay starts with nothing read.
LEMMA RelayStarts == Init => RelayInv
<1> SUFFICES ASSUME Init PROVE RelayInv
  OBVIOUS
<1>1. TypeOK
  <2>1. PipesTypeOK
    BY PipesAssumption DEF Init, PipesInit, PipesTypeOK
  <2>2. done \in [Dirs -> BOOLEAN] /\ due \in BOOLEAN /\ why = "none"
    BY DEF Init
  <2>3. size \in 0..MaxChunk /\ held \in 0..MaxChunk /\ moved \in Nat
    BY TcpRelayAssumption DEF Init
  <2>4. dir \in Dirs /\ stage \in Polling
    BY DEF Init, Polling, Dirs
  <2> QED
    BY <2>1, <2>2, <2>3, <2>4 DEF TypeOK
<1>2. NothingLost /\ EndsInv /\ ChunkInv
  BY DEF Init, PipesInit, NothingLost, InHand, EndsInv, ChunkInv
<1>3. CeilingHolds /\ moved = 0
  BY TcpRelayAssumption DEF Init, CeilingHolds
<1> QED
  BY <1>1, <1>2, <1>3 DEF RelayInv

\* What the peers do leaves the relay alone.
LEMMA PeersKeepTypes == ASSUME TypeOK, PeersStep PROVE TypeOK'
<1>1. PICK d \in Dirs : Send(d) \/ Read(d) \/ \E e \in {"fin", "error"} : EndSource(d, e)
  BY DEF PeersStep, Peers
<1>2. UNCHANGED relayVars
  BY DEF PeersStep
<1>3. CASE Send(d)
  BY <1>2, <1>3, PipesAssumption DEF Send, Add, TypeOK, PipesTypeOK, relayVars, Dirs
<1>4. CASE Read(d)
  BY <1>2, <1>4, PipesAssumption DEF Read, Add, TypeOK, PipesTypeOK, relayVars, Dirs
<1>5. CASE \E e \in {"fin", "error"} : EndSource(d, e)
  BY <1>2, <1>5 DEF EndSource, TypeOK, PipesTypeOK, relayVars, Dirs
<1> QED
  BY <1>1, <1>3, <1>4, <1>5

\* What the peers do keeps the invariant of the relay.
LEMMA PeersKeepInv == ASSUME RelayInv, PeersStep PROVE RelayInv'
<1>1. PICK d \in Dirs : Send(d) \/ Read(d) \/ \E e \in {"fin", "error"} : EndSource(d, e)
  BY DEF PeersStep, Peers
<1>2. UNCHANGED <<stage, dir, size, held, done, moved, due, why>> /\ TypeOK /\ TypeOK'
  BY PeersKeepTypes DEF PeersStep, relayVars, RelayInv
<1>3. NothingLost'
  <2>1. CASE Send(d)
    BY <1>2, <2>1 DEF Send, Add, RelayInv, TypeOK, PipesTypeOK, NothingLost, InHand, Dirs
  <2>2. CASE Read(d)
    BY <1>2, <2>2 DEF Read, Add, RelayInv, TypeOK, PipesTypeOK, NothingLost, InHand, Dirs
  <2>3. CASE \E e \in {"fin", "error"} : EndSource(d, e)
    BY <1>2, <2>3 DEF EndSource, RelayInv, NothingLost, InHand
  <2> QED
    BY <1>1, <2>1, <2>2, <2>3
<1>4. stage # "closed" => EndsInv'
  <2>1. CASE Send(d)
    BY <1>2, <2>1 DEF Send, Add, RelayInv, TypeOK, PipesTypeOK, EndsInv, Dirs
  <2>2. CASE Read(d)
    BY <1>2, <2>2 DEF Read, Add, RelayInv, TypeOK, PipesTypeOK, EndsInv, Dirs
  <2>3. CASE \E e \in {"fin", "error"} : EndSource(d, e)
    BY <1>2, <2>3 DEF EndSource, RelayInv, TypeOK, PipesTypeOK, EndsInv, Dirs
  <2> QED
    BY <1>1, <2>1, <2>2, <2>3
<1> QED
  BY <1>2, <1>3, <1>4 DEF RelayInv, CeilingHolds, ChunkInv

\* What the task does while it polls.
LEMMA PollKeepsInv == ASSUME RelayInv, NEW d \in Dirs, Poll(d) PROVE RelayInv'
<1> USE DEF RelayInv
<1>1. CASE PollPending(d)
  BY <1>1 DEF PollPending, pipeVars, TypeOK, PipesTypeOK, NothingLost, InHand, EndsInv, ChunkInv,
     CeilingHolds, Polling, Busy, Dirs
<1>2. CASE PollChunk(d)
  <2>1. PICK n \in 1..MaxChunk : Take(d, n) /\ size' = n /\ held' = n
    BY <1>2 DEF PollChunk
  <2>2. n \in Int /\ n > 0 /\ n <= MaxChunk
    BY TcpRelayAssumption
  <2>3. TypeOK'
    <3>1. PipesTypeOK'
      BY <2>1, <2>2, PipesAssumption DEF Take, Add, TypeOK, PipesTypeOK
    <3>2. size' \in 0..MaxChunk /\ held' \in 0..MaxChunk
      BY <2>1, <2>2, TcpRelayAssumption
    <3> QED
      BY <1>2, <3>1, <3>2 DEF PollChunk, TypeOK, Busy
  <2>4. NothingLost'
    BY <1>2, <2>1, <2>2 DEF PollChunk, Take, Add, TypeOK, PipesTypeOK, NothingLost, InHand, Dirs
  <2>5. EndsInv' /\ ChunkInv'
    BY <1>2, <2>1, <2>2 DEF PollChunk, Take, Add, TypeOK, PipesTypeOK, EndsInv, ChunkInv, Dirs
  <2>6. CeilingHolds' /\ (moved < Cap \/ moved = 0)'
    BY <1>2 DEF PollChunk, CeilingHolds, Polling, Dirs
  <2> QED
    BY <2>3, <2>4, <2>5, <2>6
<1>3. CASE PollEnd(d)
  BY <1>3 DEF PollEnd, Ended, pipeVars, TypeOK, PipesTypeOK, NothingLost, InHand, EndsInv, ChunkInv,
     CeilingHolds, Polling, Busy, Dirs
<1>4. CASE PollError(d)
  BY <1>4 DEF PollError, Close, pipeVars, TypeOK, PipesTypeOK, NothingLost, CeilingHolds, Polling,
     Busy
<1> QED
  BY <1>1, <1>2, <1>3, <1>4 DEF Poll

\* Writing the chunk in hand keeps the invariant.
LEMMA WriteKeepsInv == ASSUME RelayInv, Write PROVE RelayInv'
<1>1. dir \in Dirs /\ stage = "write" /\ ~done[dir] /\ held > 0 /\ ~fin[dir]
  BY DEF RelayInv, TypeOK, Write, ChunkInv, EndsInv
<1>2. TypeOK'
  BY PipesAssumption, TcpRelayAssumption, <1>1
     DEF RelayInv, TypeOK, PipesTypeOK, Write, Put, Add, Polling, Busy, Dirs
<1>3. NothingLost'
  BY <1>1 DEF RelayInv, TypeOK, PipesTypeOK, Write, Put, Add, NothingLost, InHand, Dirs
<1>4. CeilingHolds' /\ (stage' # "closed" => moved' < Cap \/ moved' = 0)
  BY <1>1, TcpRelayAssumption DEF RelayInv, TypeOK, PipesTypeOK, Write, CeilingHolds, Polling
<1>5. stage' # "closed" => EndsInv' /\ ChunkInv'
  BY <1>1 DEF RelayInv, TypeOK, PipesTypeOK, Write, Put, Add, EndsInv, ChunkInv, Dirs
<1> QED
  BY <1>2, <1>3, <1>4, <1>5 DEF RelayInv

\* Every step of relay_tcp keeps the invariant.
LEMMA RelayStepKeepsInv == ASSUME RelayInv, [Next]_vars PROVE RelayInv'
<1>1. CASE PollTimer \/ Wake \/ Paced
  BY <1>1 DEF PollTimer, Wake, Paced, Close, pipeVars, RelayInv, TypeOK, PipesTypeOK, NothingLost,
     InHand, EndsInv, ChunkInv, CeilingHolds, Polling, Busy, Dirs
<1>2. CASE HalfClose
  BY <1>2 DEF HalfClose, PassEnd, Close, pipeVars, RelayInv, TypeOK, PipesTypeOK, NothingLost,
     InHand, EndsInv, ChunkInv, CeilingHolds, Polling, Busy, Dirs
<1>3. CASE WriteFails \/ Dropped
  BY <1>3 DEF WriteFails, Dropped, Close, pipeVars, RelayInv, TypeOK, PipesTypeOK, NothingLost,
     CeilingHolds, Polling, Busy
<1>4. CASE Elapse \/ UNCHANGED vars
  BY <1>4, ZenonT(30) DEF Elapse, vars, relayVars, pipeVars, RelayInv, TypeOK, PipesTypeOK, NothingLost,
     InHand, EndsInv, ChunkInv, CeilingHolds, Polling, Busy
<1> QED
  BY <1>1, <1>2, <1>3, <1>4, PeersKeepInv, PollKeepsInv, WriteKeepsInv DEF Next, Task

\* Every step of relay_tcp is one of the abstract pipe, or none of its business.
LEMMA RelayStepRefines ==
    ASSUME RelayInv, [Next]_vars
    PROVE  [Promise!Next]_(Promise!duplexVars)
<1> DEFINE st == IF stage # "closed" THEN "open" ELSE IF why = "both" THEN "clean" ELSE "cut"
<1>1. CASE PeersStep
  <2>1. PICK d \in Dirs : Send(d) \/ Read(d) \/ \E e \in {"fin", "error"} : EndSource(d, e)
    BY <1>1 DEF PeersStep, Peers
  <2>2. UNCHANGED st
    BY <1>1 DEF PeersStep, relayVars
  <2>3. CASE Send(d)
    BY <2>2, <2>3 DEF Send, Add, Promise!Next, Promise!SourceSends, Promise!Dirs, Dirs
  <2>4. CASE Read(d)
    BY <2>2, <2>4
       DEF Read, Add, Promise!Next, Promise!SourceSends, Promise!duplexVars, Promise!Dirs
  <2>5. CASE \E e \in {"fin", "error"} : EndSource(d, e)
    BY <2>2, <2>5 DEF EndSource, Promise!Next, Promise!SourceEnds, Promise!Dirs, Dirs
  <2> QED
    BY <2>1, <2>3, <2>4, <2>5
<1>2. ASSUME NEW d \in Dirs, Poll(d) PROVE [Promise!Next]_(Promise!duplexVars)
  <2>1. CASE PollPending(d) \/ PollChunk(d) \/ PollEnd(d)
    BY <2>1 DEF PollPending, PollChunk, PollEnd, Take, pipeVars, Promise!duplexVars, Dirs
  <2>2. CASE PollError(d)
    BY <2>2 DEF PollError, Close, pipeVars, Promise!Next, Promise!Cut, Dirs
  <2> QED
    BY <1>2, <2>1, <2>2 DEF Poll
<1>3. CASE PollTimer \/ Wake \/ Paced \/ Elapse \/ UNCHANGED vars
  BY <1>3 DEF PollTimer, Wake, Paced, Elapse, Close, vars, relayVars, pipeVars,
     Promise!Next, Promise!Cut, Promise!duplexVars
<1>4. CASE Write
  <2>1. dir \in Dirs /\ stage = "write" /\ ~done[dir] /\ held > 0 /\ ~fin[dir]
    BY <1>4 DEF RelayInv, TypeOK, Write, ChunkInv, EndsInv
  <2>2. wrote[dir] < sent[dir]
    BY <2>1 DEF RelayInv, NothingLost, InHand, TypeOK, PipesTypeOK
  <2>3. st = "open" /\ (st' = "open" \/ st' = "cut")
    BY <1>4 DEF Write
  <2>4. Promise!Deliver(dir)
    BY <1>4, <2>1, <2>2, <2>3 DEF Write, Put, Add, Promise!Deliver
  <2> QED
    BY <2>1, <2>4 DEF Promise!Next, Promise!Dirs, Dirs
<1>5. CASE HalfClose
  <2>1. dir \in Dirs /\ stage = "half" /\ done[dir] /\ ~fin[dir] /\ srcEnd[dir] = "fin" /\ avail[dir] = 0
    BY <1>5 DEF RelayInv, TypeOK, HalfClose, ChunkInv, EndsInv
  <2>2. wrote[dir] = sent[dir]
    BY <2>1 DEF RelayInv, NothingLost, InHand, TypeOK, PipesTypeOK
  <2>3. (\A e \in Dirs : fin'[e]) <=> \A e \in Dirs : done[e]
    BY <1>5, <2>1 DEF HalfClose, PassEnd, RelayInv, TypeOK, PipesTypeOK, EndsInv
  <2>4. st = "open" /\ st' = IF \A e \in Dirs : fin'[e] THEN "clean" ELSE "open"
    BY <1>5, <2>3 DEF HalfClose, Close
  <2>5. Promise!DeliverEnd(dir)
    BY <1>5, <2>1, <2>2, <2>4 DEF HalfClose, PassEnd, Promise!DeliverEnd, Promise!Dirs, Dirs
  <2> QED
    BY <2>1, <2>5 DEF Promise!Next, Promise!Dirs, Dirs
<1>6. CASE WriteFails \/ Dropped
  BY <1>6 DEF WriteFails, Dropped, Close, pipeVars, Promise!Next, Promise!Cut
<1> QED
  BY <1>1, <1>2, <1>3, <1>4, <1>5, <1>6 DEF Next, Task

(***************************************************************************)
(* The client's: TcpTunnel::relay.                                         *)
(***************************************************************************)
(* The client's relay, under the names the model gives its state.         *)
PumpInv(d) ==
    /\ cSent[d] - cAvail[d] = cWrote[d] + cHeld[d]
    /\ cHeld[d] > 0 <=> cPump[d] = "write"
    /\ cPump[d] \in {"finish", "done"} => cSrcEnd[d] = "fin" /\ cAvail[d] = 0
    /\ cFin[d] <=> cPump[d] = "done"

ClientInv == Client!TypeOK /\ (cState = "open" => \A d \in Dirs : PumpInv(d))

\* The client's relay starts with nothing read.
LEMMA ClientStarts == Client!Init => ClientInv
<1> SUFFICES ASSUME Client!Init PROVE ClientInv
  OBVIOUS
<1>1. Client!PipesTypeOK
  BY RelaysAssumption DEF Client!Init, Client!PipesInit, Client!PipesTypeOK
<1>2. cHeld \in [Client!Dirs -> 0..MaxChunk]
  BY TcpRelayAssumption DEF Client!Init
<1>3. \A d \in Dirs : PumpInv(d)
  BY DEF Client!Init, Client!PipesInit, PumpInv, Client!Dirs, Dirs
<1> QED
  BY <1>1, <1>2, <1>3 DEF ClientInv, Client!TypeOK, Client!Init

\* What the client's peers do keeps its invariant.
LEMMA ClientPeersKeepInv == ASSUME ClientInv, Client!PeersStep PROVE ClientInv'
<1>1. PICK d \in Dirs : \/ Client!Send(d) \/ Client!Read(d)
                        \/ \E e \in {"fin", "error"} : Client!EndSource(d, e)
  BY DEF Client!PeersStep, Client!Peers, Client!Dirs, Dirs
<1>2. UNCHANGED <<cPump, cHeld, cState>>
  BY DEF Client!PeersStep
<1>3. CASE Client!Send(d)
  <2>1. Client!TypeOK'
    BY <1>2, <1>3, RelaysAssumption
       DEF ClientInv, Client!Send, Client!Add, Client!TypeOK, Client!PipesTypeOK, Client!Dirs
  <2> QED
    BY <1>2, <1>3, <2>1
       DEF ClientInv, PumpInv, Client!Send, Client!Add, Client!TypeOK, Client!PipesTypeOK,
           Client!Dirs, Dirs
<1>4. CASE Client!Read(d)
  <2>1. Client!TypeOK'
    <3>1. cOut' \in [Client!Dirs -> 0..ClientBuffer]
      BY <1>4, RelaysAssumption
         DEF ClientInv, Client!Read, Client!Add, Client!TypeOK, Client!PipesTypeOK, Client!Dirs, Dirs
    <3>2. cSent' \in [Client!Dirs -> Nat] /\ cAvail' \in [Client!Dirs -> 0..ClientBuffer]
      BY <1>4, RelaysAssumption
         DEF ClientInv, Client!Read, Client!Add, Client!TypeOK, Client!PipesTypeOK, Client!Dirs
    <3> QED
      BY <1>2, <1>4, <3>1, <3>2 DEF ClientInv, Client!Read, Client!TypeOK, Client!PipesTypeOK
  <2> QED
    BY <1>2, <1>4, <2>1
       DEF ClientInv, PumpInv, Client!Read, Client!Add, Client!TypeOK, Client!PipesTypeOK,
           Client!Dirs, Dirs
<1>5. CASE \E e \in {"fin", "error"} : Client!EndSource(d, e)
  BY <1>2, <1>5 DEF ClientInv, PumpInv, Client!EndSource, Client!TypeOK, Client!PipesTypeOK,
     Client!Dirs, Dirs
<1> QED
  BY <1>1, <1>3, <1>4, <1>5

\* A pump of one direction keeps the invariant.
LEMMA ClientPumpKeepsInv == ASSUME ClientInv, NEW d \in Dirs, Client!Pump(d) PROVE ClientInv'
<1> d \in Client!Dirs
  BY DEF Client!Dirs, Dirs
<1>1. CASE Client!Fetch(d)
  <2>1. PICK n \in 1..MaxChunk : Client!Take(d, n) /\ Client!Goto(d, "write", n)
    BY <1>1 DEF Client!Fetch
  <2>2. n \in 0..MaxChunk /\ n > 0
    BY TcpRelayAssumption
  <2>3. Client!TypeOK'
    BY <1>1, <2>1, <2>2, RelaysAssumption, SMTT(30)
       DEF ClientInv, Client!Fetch, Client!Take, Client!Goto, Client!Add, Client!TypeOK,
           Client!PipesTypeOK
  <2> QED
    BY <1>1, <2>1, <2>2, <2>3, SMTT(30)
       DEF ClientInv, PumpInv, Client!Fetch, Client!Take, Client!Goto, Client!Add, Client!TypeOK,
           Client!PipesTypeOK, Client!Dirs, Dirs
<1>2. CASE Client!Store(d)
  <2>3. cHeld[d] \in 0..MaxChunk
    BY DEF ClientInv, Client!TypeOK
  <2>4. cHeld[d] > 0
    BY <1>2 DEF ClientInv, PumpInv, Client!Store
  <2>1. cHeld[d] \in 1..MaxChunk /\ cHeld[d] - 1 \in 0..MaxChunk
    BY <2>3, <2>4, TcpRelayAssumption
  <2>2. Client!TypeOK'
    BY <1>2, <2>1, RelaysAssumption, SMTT(30)
       DEF ClientInv, Client!Store, Client!Put, Client!Goto, Client!Add, Client!TypeOK,
           Client!PipesTypeOK
  <2> QED
    BY <1>2, <2>1, <2>2
       DEF ClientInv, PumpInv, Client!Store, Client!Put, Client!Goto, Client!Add, Client!TypeOK,
           Client!PipesTypeOK, Client!Dirs, Dirs
<1>3. CASE Client!SourceEnded(d)
  BY <1>3, TcpRelayAssumption
     DEF ClientInv, PumpInv, Client!SourceEnded, Client!Ended, Client!Goto, Client!TypeOK,
         Client!PipesTypeOK, Client!pipeVars, Client!Dirs, Dirs
<1>4. CASE Client!Finish(d)
  BY <1>4, TcpRelayAssumption
     DEF ClientInv, PumpInv, Client!Finish, Client!PassEnd, Client!Goto, Client!TypeOK,
         Client!PipesTypeOK, Client!Dirs, Dirs
<1>5. CASE Client!ReadFails(d)
  BY <1>5 DEF ClientInv, Client!ReadFails, Client!TypeOK, Client!PipesTypeOK, Client!pipeVars
<1> QED
  BY <1>1, <1>2, <1>3, <1>4, <1>5 DEF Client!Pump

\* Every step of TcpTunnel::relay keeps the invariant.
LEMMA ClientStepKeepsInv == ASSUME ClientInv, [Client!Next]_clientVars PROVE ClientInv'
<1>1. CASE Client!Fail \/ UNCHANGED clientVars
  BY <1>1 DEF Client!Fail, ClientInv, PumpInv, Client!TypeOK, Client!PipesTypeOK, Client!pipeVars,
     clientVars
<1> QED
  BY <1>1, ClientPeersKeepInv, ClientPumpKeepsInv DEF Client!Next, Client!Dirs, Dirs

\* Every step of TcpTunnel::relay is a step of Duplex or none.
LEMMA ClientStepRefines ==
    ASSUME ClientInv, [Client!Next]_clientVars
    PROVE  [Client!Promise!Next]_(Client!Promise!duplexVars)
<1>1. CASE Client!PeersStep
  <2>1. PICK d \in Dirs : \/ Client!Send(d) \/ Client!Read(d)
                          \/ \E e \in {"fin", "error"} : Client!EndSource(d, e)
    BY <1>1 DEF Client!PeersStep, Client!Peers, Client!Dirs, Dirs
  <2>2. UNCHANGED cState
    BY <1>1 DEF Client!PeersStep
  <2>3. CASE Client!Send(d)
    BY <2>2, <2>3 DEF Client!Send, Client!Add, Client!Promise!Next, Client!Promise!SourceSends,
       Client!Promise!Dirs, Dirs
  <2>4. CASE Client!Read(d)
    BY <2>2, <2>4 DEF Client!Read, Client!Add, Client!Promise!Next, Client!Promise!SourceSends,
       Client!Promise!duplexVars, Client!Promise!Dirs
  <2>5. CASE \E e \in {"fin", "error"} : Client!EndSource(d, e)
    BY <2>2, <2>5 DEF Client!EndSource, Client!Promise!Next, Client!Promise!SourceEnds,
       Client!Promise!Dirs, Dirs
  <2> QED
    BY <2>1, <2>3, <2>4, <2>5
<1>2. ASSUME NEW d \in Dirs, Client!Pump(d)
      PROVE  [Client!Promise!Next]_(Client!Promise!duplexVars)
  <2>0. d \in Client!Dirs /\ d \in Client!Promise!Dirs /\ Client!Dirs = Dirs /\ Client!Promise!Dirs = Dirs
    BY DEF Client!Dirs, Client!Promise!Dirs, Dirs
  <2>1. CASE Client!Fetch(d) \/ Client!SourceEnded(d)
    BY <2>1 DEF Client!Fetch, Client!SourceEnded, Client!Take, Client!pipeVars,
       Client!Promise!duplexVars
  <2>2. CASE Client!Store(d)
    <3>1. cHeld[d] > 0 /\ ~cFin[d] /\ cWrote[d] < cSent[d]
      BY <2>0, <2>2 DEF ClientInv, PumpInv, Client!Store, Client!TypeOK, Client!PipesTypeOK
    <3>2. Client!Promise!Deliver(d)
      BY <2>2, <3>1 DEF Client!Store, Client!Put, Client!Add, Client!Promise!Deliver
    <3> QED
      BY <2>0, <3>2 DEF Client!Promise!Next
  <2>3. CASE Client!Finish(d)
    <3>1. ~cFin[d] /\ cSrcEnd[d] = "fin" /\ cWrote[d] = cSent[d]
      BY <2>0, <2>3 DEF ClientInv, PumpInv, Client!Finish, Client!TypeOK, Client!PipesTypeOK
    <3>2. (\A e \in Dirs : cFin'[e]) <=> \A e \in Dirs : cPump'[e] = "done"
      BY <2>0, <2>3 DEF ClientInv, PumpInv, Client!Finish, Client!PassEnd, Client!Goto,
         Client!TypeOK, Client!PipesTypeOK
    <3>3. Client!Promise!DeliverEnd(d)
      BY <2>0, <2>3, <3>1, <3>2 DEF Client!Finish, Client!PassEnd, Client!Promise!DeliverEnd
    <3> QED
      BY <2>0, <3>3 DEF Client!Promise!Next
  <2>4. CASE Client!ReadFails(d)
    BY <2>4 DEF Client!ReadFails, Client!pipeVars, Client!Promise!Next, Client!Promise!Cut
  <2> QED
    BY <1>2, <2>1, <2>2, <2>3, <2>4 DEF Client!Pump
<1>3. CASE Client!Fail \/ UNCHANGED clientVars
  BY <1>3 DEF Client!Fail, Client!pipeVars, clientVars, Client!Promise!Next, Client!Promise!Cut,
     Client!Promise!duplexVars
<1> QED
  BY <1>1, <1>2, <1>3 DEF Client!Next, Client!Dirs, Dirs

(***************************************************************************)
(* The relay of a UDP tunnel on the gateway.                               *)
(***************************************************************************)
UdpRelayIInv ==
    /\ Relay!TypeOK /\ Relay!CeilingHolds /\ Relay!ReaderEndsWithRelay
    /\ rPhase \in {"setup", "registered"} => rReader = "none" /\ rMoved = 0
    /\ rPhase = "relay" => rMoved < UdpCap \/ rMoved = 0

\* The relay of a UDP tunnel starts without a reader.
LEMMA UdpRelayStarts == Relay!Init => UdpRelayIInv
<1> /\ Capacity \in Nat /\ MaxSize \in Nat /\ UdpCap \in Nat /\ MaxReplies \in Nat
  BY RelaysAssumption
<1>1. Relay!Init => rDue \in BOOLEAN
  BY Zenon DEF Relay!Init
<1>2. Relay!Init => rReplies \in [left : Nat, here : Nat]
  BY DEF Relay!Init
<1>3. Relay!Init => rMoved <= MaxSize
  BY DEF Relay!Init
<1> QED
  BY <1>1, <1>2, <1>3 DEF Relay!Init, UdpRelayIInv, Relay!TypeOK, Relay!CeilingHolds,
   Relay!ReaderEndsWithRelay, Relay!Polling, Relay!Moving

\* Every step of it keeps the invariant.
LEMMA UdpRelayStepKeepsInv == ASSUME UdpRelayIInv, [Relay!Next]_udpVars PROVE UdpRelayIInv'
<1> /\ Capacity \in Nat /\ MaxSize \in Nat /\ UdpCap \in Nat
  BY RelaysAssumption
<1> USE DEF UdpRelayIInv, Relay!TypeOK, Relay!CeilingHolds, Relay!ReaderEndsWithRelay
<1>1. CASE Relay!Datagram \/ Relay!SendCapsule \/ Relay!CloseStream
  BY <1>1 DEF Relay!Datagram, Relay!SendCapsule, Relay!CloseStream
<1>2. CASE Relay!Answer
  BY <1>2 DEF Relay!Answer
<1>3. CASE Relay!Register \/ Relay!Respond \/ Relay!RespondFails \/ Relay!Dropped
  BY <1>3, SMTT(30) DEF Relay!Register, Relay!Respond, Relay!RespondFails, Relay!Dropped, Relay!End, Relay!peerVars
<1>4. CASE Relay!ReadCapsule \/ Relay!PushCapsule \/ Relay!ReadEnd
  BY <1>4, SMTT(30) DEF Relay!ReadCapsule, Relay!PushCapsule, Relay!ReadEnd, Relay!peerVars
<1>5. CASE Relay!PollInbound
  <2>1. rDue' \in BOOLEAN
    BY <1>5, Zenon DEF Relay!PollInbound, Relay!Pending
  <2>2. rQueued' \in 0..Capacity
    BY <1>5 DEF Relay!PollInbound, Relay!Pending
  <2>3. rStage' \in Relay!Polling \cup Relay!Moving
    BY <1>5 DEF Relay!PollInbound, Relay!Pending, Relay!Polling, Relay!Moving
  <2> QED
    BY <1>5, <2>1, <2>2, <2>3 DEF Relay!PollInbound, Relay!At, Relay!Pending, Relay!peerVars,
     Relay!Polling, Relay!Moving
<1>9. CASE Relay!PollSocket
  <2>1. rReplies.here > 0 => [rReplies EXCEPT !.here = @ - 1] \in [left : Nat, here : Nat]
    OBVIOUS
  <2> QED
    BY <1>9, <2>1, ZenonT(30) DEF Relay!PollSocket, Relay!At, Relay!Pending, Relay!peerVars,
       Relay!Polling, Relay!Moving
<1>6. CASE Relay!SocketFails \/ Relay!PollReader \/ Relay!PollTimer \/ Relay!Wake
  BY <1>6, SMTT(30) DEF Relay!SocketFails, Relay!PollReader, Relay!PollTimer, Relay!Wake, Relay!At,
     Relay!Pending, Relay!End, Relay!peerVars, Relay!Polling
<1>7. CASE Relay!Move
  BY <1>7, SMTT(30) DEF Relay!Move, Relay!At, Relay!End, Relay!peerVars, Relay!Polling, Relay!Moving
<1>8. CASE Relay!Elapse \/ UNCHANGED udpVars
  BY <1>8, ZenonT(30) DEF Relay!Elapse, Relay!peerVars, udpVars
<1> QED
  BY <1>1, <1>2, <1>3, <1>4, <1>5, <1>6, <1>7, <1>8, <1>9 DEF Relay!Next, Relay!Relay, Relay!Reader

(***************************************************************************)
(* The client's end of one.                                                *)
(***************************************************************************)
UdpTunnelIInv ==
    /\ Tunnel!TypeOK /\ Tunnel!NoReaderLeft
    /\ tPhase \in {"request", "registered"} => tReader = "none"
    /\ tRecv = "reader" => tQueued <= tLate

\* The client's end starts without a reader.
LEMMA UdpTunnelStarts == Tunnel!Init => UdpTunnelIInv
BY RelaysAssumption DEF Tunnel!Init, UdpTunnelIInv, Tunnel!TypeOK, Tunnel!NoReaderLeft

\* Every step of it keeps the invariant and loses only what came late.
LEMMA UdpTunnelStepKeepsInv ==
    ASSUME UdpTunnelIInv, [Tunnel!Next]_tunnelVars
    PROVE  UdpTunnelIInv' /\ Tunnel!LossIsLate
<1> Capacity \in Nat
  BY RelaysAssumption
<1> USE DEF UdpTunnelIInv, Tunnel!TypeOK, Tunnel!NoReaderLeft, Tunnel!LossIsLate
<1>1. CASE Tunnel!Answer \/ Tunnel!SendCapsule \/ Tunnel!CloseStream \/ Tunnel!Register
  BY <1>1 DEF Tunnel!Answer, Tunnel!SendCapsule, Tunnel!CloseStream, Tunnel!Register
<1>2. CASE Tunnel!Datagram
  BY <1>2 DEF Tunnel!Datagram, Tunnel!Enqueue
<1>3. CASE Tunnel!Response \/ Tunnel!Drop
  BY <1>3 DEF Tunnel!Response, Tunnel!Drop
<1>4. CASE Tunnel!Reader
  BY <1>4 DEF Tunnel!Reader, Tunnel!ReadCapsule, Tunnel!PushCapsule, Tunnel!ReadEnd, Tunnel!Enqueue
<1>5. CASE Tunnel!App
  BY <1>5 DEF Tunnel!App, Tunnel!Recv, Tunnel!PollInbound, Tunnel!PollReader, Tunnel!Wake, Tunnel!Poll
<1>6. CASE UNCHANGED tunnelVars
  BY <1>6 DEF tunnelVars
<1> QED
  BY <1>1, <1>2, <1>3, <1>4, <1>5, <1>6 DEF Tunnel!Next, Tunnel!Proxy

(***************************************************************************)
(* All of them.  The part that runs moves, the others stay where they are. *)
(***************************************************************************)
TcpIInv == RelayInv /\ ClientInv
UdpIInv == UdpRelayIInv /\ UdpTunnelIInv

\* All of them start as they should.
LEMMA AllStart == RelaysInit => TcpIInv /\ UdpIInv /\ Promise!Init /\ Client!Promise!Init
<1>1. RelaysInit => TcpIInv
  BY RelayStarts, ClientStarts DEF RelaysInit, TcpIInv
<1>2. RelaysInit => UdpIInv
  BY UdpRelayStarts, UdpTunnelStarts DEF RelaysInit, UdpIInv
<1>3. Init => Promise!Init
  BY DEF Init, PipesInit, Promise!Init, Promise!Dirs, Dirs
<1>4. Client!Init => Client!Promise!Init
  BY DEF Client!Init, Client!PipesInit, Client!Promise!Init, Client!Promise!Dirs, Client!Dirs
<1> QED
  BY <1>1, <1>2, <1>3, <1>4 DEF RelaysInit

\* A step of the whole is a step of each part or leaves it alone.
LEMMA PartsMove ==
    ASSUME [RelaysNext]_relaysVars
    PROVE  /\ [Next]_vars /\ [Client!Next]_clientVars
           /\ [Relay!Next]_udpVars /\ [Tunnel!Next]_tunnelVars
<1>1. CASE UNCHANGED relaysVars
  BY <1>1 DEF relaysVars, gatewayEnds, clientEnds
<1>2. CASE OnGateway(Next) \/ OnClient(Client!Next)
  BY <1>2 DEF OnGateway, OnClient, gatewayEnds, clientEnds
<1>3. CASE OnTunnel(Tunnel!Next)
  BY <1>3 DEF OnTunnel, gatewayEnds, clientEnds
<1>4. CASE OnRelay(Relay!Next)
  BY <1>4 DEF OnRelay, clientEnds
<1> QED
  BY <1>1, <1>2, <1>3, <1>4 DEF RelaysNext

\* A step of the whole, for the TCP relays.
LEMMA TcpStep ==
    ASSUME TcpIInv, [RelaysNext]_relaysVars
    PROVE  /\ TcpIInv' /\ [Promise!Next]_(Promise!duplexVars)
           /\ [Client!Promise!Next]_(Client!Promise!duplexVars)
<1>1. [Next]_vars /\ [Client!Next]_clientVars
  BY PartsMove
<1>2. RelayInv' /\ [Promise!Next]_(Promise!duplexVars)
  BY <1>1, RelayStepKeepsInv, RelayStepRefines DEF TcpIInv
<1>3. ClientInv' /\ [Client!Promise!Next]_(Client!Promise!duplexVars)
  BY <1>1, ClientStepKeepsInv, ClientStepRefines DEF TcpIInv
<1> QED
  BY <1>2, <1>3 DEF TcpIInv

\* A step of the whole, for the UDP relays.
LEMMA UdpStep ==
    ASSUME UdpIInv, [RelaysNext]_relaysVars
    PROVE  UdpIInv' /\ [Tunnel!LossIsLate]_tunnelVars
<1>1. [Relay!Next]_udpVars /\ [Tunnel!Next]_tunnelVars
  BY PartsMove
<1>2. UdpRelayIInv'
  BY <1>1, UdpRelayStepKeepsInv DEF UdpIInv
<1>3. UdpTunnelIInv' /\ Tunnel!LossIsLate
  BY <1>1, UdpTunnelStepKeepsInv DEF UdpIInv
<1> QED
  BY <1>2, <1>3 DEF UdpIInv

\* The inductive invariant gives TcpInv.
LEMMA TcpIInvGives == TcpIInv => TcpInv
BY DEF TcpIInv, TcpInv, RelayInv, ClientInv

\* The inductive invariant gives UdpInv.
LEMMA UdpIInvGives == UdpIInv => UdpInv
BY DEF UdpIInv, UdpInv, UdpRelayIInv, UdpTunnelIInv

\* A behaviour of the whole starts and moves as the parts do.
LEMMA BehavioursOfParts == RelaysSpec => RelaysInit /\ [][RelaysNext]_relaysVars
BY PTL DEF RelaysSpec

(* relay_tcp loses no unit while the tunnel is up and takes up no chunk once *)
(* total_bytes is reached, whatever its peers and the select! do.            *)
THEOREM TcpSound == RelaysSpec => []TcpInv
<1>1. TcpIInv /\ [RelaysNext]_relaysVars => TcpIInv'
  BY TcpStep
<1> QED
  BY <1>1, AllStart, TcpIInvGives, BehavioursOfParts, PTL

(* The relay of a UDP tunnel holds to total_bytes; only a relay dropped from *)
(* outside (revocation, expiry, a lost connection) can leave its capsule     *)
(* reader running, and whatever a left reader still parses goes nowhere: the *)
(* queue of a relay that is over stays empty.  The client's end of a tunnel  *)
(* takes its reader with it.                                                 *)
THEOREM UdpSound == RelaysSpec => []UdpInv
<1>1. UdpIInv /\ [RelaysNext]_relaysVars => UdpIInv'
  BY UdpStep
<1> QED
  BY <1>1, AllStart, UdpIInvGives, BehavioursOfParts, PTL

(* relay_tcp and TcpTunnel::relay implement the abstract pipe of Duplex: each *)
(* of their steps is a step of it, or leaves it alone.                        *)
THEOREM RelaysKeepPromise == RelaysSpec => BothKeepPromise
<1>1. TcpIInv /\ [RelaysNext]_relaysVars => TcpIInv'
  BY TcpStep
<1>2. TcpIInv /\ [RelaysNext]_relaysVars => [Promise!Next]_(Promise!duplexVars)
  BY TcpStep
<1>3. TcpIInv /\ [RelaysNext]_relaysVars => [Client!Promise!Next]_(Client!Promise!duplexVars)
  BY TcpStep
<1>4. RelaysSpec => Promise!Init /\ [][Promise!Next]_(Promise!duplexVars)
  BY <1>1, <1>2, AllStart, BehavioursOfParts, PTL
<1>5. RelaysSpec => Client!Promise!Init /\ [][Client!Promise!Next]_(Client!Promise!duplexVars)
  BY <1>1, <1>3, AllStart, BehavioursOfParts, PTL
<1>6. RelaysSpec => KeepsPromise
  BY <1>4, PTL DEF KeepsPromise, Promise!Spec
<1>7. RelaysSpec => Client!KeepsPromise
  BY <1>5, PTL DEF Client!KeepsPromise, Client!Promise!Spec
<1> QED
  BY <1>6, <1>7, PTL DEF BothKeepPromise

(* UdpTunnel::recv never reports the close over a datagram that was queued   *)
(* when it looked at the queue.                                              *)
THEOREM CloseReportedLast == RelaysSpec => OnlyLateOnesLost
<1>1. UdpIInv /\ [RelaysNext]_relaysVars => UdpIInv'
  BY UdpStep
<1>2. UdpIInv /\ [RelaysNext]_relaysVars => [Tunnel!LossIsLate]_tunnelVars
  BY UdpStep
<1> QED
  BY <1>1, <1>2, AllStart, BehavioursOfParts, PTL DEF OnlyLateOnesLost
=============================================================================
