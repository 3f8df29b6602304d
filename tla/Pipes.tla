------------------------------- MODULE Pipes -------------------------------
(***************************************************************************)
(* The two byte streams that a TCP tunnel joins, as the operating system   *)
(* and the QUIC stack offer them to a relay: bounded buffers with flow     *)
(* control.  Direction "up" runs from the client to the target, "down"     *)
(* from the target to the client.  A unit stands for some bytes.           *)
(***************************************************************************)
EXTENDS Integers

CONSTANTS Buffer,     \* units a socket or stream buffers before it pushes back
          MaxUnits,   \* bound: units each source sends
          Echo        \* the target answers each unit it reads with one unit

ASSUME PipesAssumption ==
    Buffer \in Nat \ {0} /\ MaxUnits \in Nat /\ Echo \in BOOLEAN

Dirs == {"up", "down"}

VARIABLES sent,     \* units the source of each direction has sent
          avail,    \* of these, the ones that wait to be read by the relay
          srcEnd,   \* the source: open, ended with FIN, or failed
          out,      \* units written that the destination has not read
          wrote,    \* units the relay has written, in all
          fin       \* the end of the direction has been passed on

pipeVars == <<sent, avail, srcEnd, out, wrote, fin>>

PipesInit ==
    /\ sent = [d \in Dirs |-> 0] /\ avail = [d \in Dirs |-> 0]
    /\ srcEnd = [d \in Dirs |-> "open"]
    /\ out = [d \in Dirs |-> 0] /\ wrote = [d \in Dirs |-> 0]
    /\ fin = [d \in Dirs |-> FALSE]

Add(f, d, n) == [f EXCEPT ![d] = @ + n]

(***************************************************************************)
(* The peers.                                                              *)
(***************************************************************************)
Send(d) ==
    /\ srcEnd[d] = "open" /\ avail[d] < Buffer /\ sent[d] < MaxUnits
    /\ Echo => d = "up"
    /\ sent' = Add(sent, d, 1) /\ avail' = Add(avail, d, 1)
    /\ UNCHANGED <<srcEnd, out, wrote, fin>>

\* An echoing target closes when it has read everything.
EndSource(d, e) ==
    /\ srcEnd[d] = "open"
    /\ Echo /\ d = "down" /\ e = "fin" => fin["up"] /\ out["up"] = 0
    /\ srcEnd' = [srcEnd EXCEPT ![d] = e]
    /\ UNCHANGED <<sent, avail, out, wrote, fin>>

\* The destination reads a unit; an echoing target needs room for the answer.
Read(d) ==
    /\ out[d] > 0
    /\ out' = Add(out, d, -1)
    /\ IF Echo /\ d = "up" /\ srcEnd["down"] = "open"
       THEN /\ avail["down"] < Buffer
            /\ sent' = Add(sent, "down", 1) /\ avail' = Add(avail, "down", 1)
       ELSE UNCHANGED <<sent, avail>>
    /\ UNCHANGED <<srcEnd, wrote, fin>>

Peers ==
    \E d \in Dirs :
        Send(d) \/ Read(d) \/ \E e \in {"fin", "error"} : EndSource(d, e)

(***************************************************************************)
(* What a relay does with them.                                            *)
(***************************************************************************)
Ended(d) == avail[d] = 0 /\ srcEnd[d] = "fin"

Take(d, n) ==
    /\ n <= avail[d]
    /\ avail' = Add(avail, d, -n)
    /\ UNCHANGED <<sent, srcEnd, out, wrote, fin>>

Put(d) ==
    /\ out[d] < Buffer
    /\ out' = Add(out, d, 1) /\ wrote' = Add(wrote, d, 1)
    /\ UNCHANGED <<sent, avail, srcEnd, fin>>

\* finish() or shutdown(): best effort, whatever it returns.
PassEnd(d) ==
    /\ fin' = [fin EXCEPT ![d] = TRUE]
    /\ UNCHANGED <<sent, avail, srcEnd, out, wrote>>

PipesTypeOK ==
    /\ sent \in [Dirs -> Nat] /\ avail \in [Dirs -> 0..Buffer]
    /\ srcEnd \in [Dirs -> {"open", "fin", "error"}]
    /\ out \in [Dirs -> 0..Buffer] /\ wrote \in [Dirs -> Nat]
    /\ fin \in [Dirs -> BOOLEAN]
============================================================================
