------------------------------- MODULE Duplex ------------------------------
(***************************************************************************)
(* What a TCP tunnel promises, whichever end relays it: each direction     *)
(* delivers a prefix of what its source sent, and passes on the end of its *)
(* source only behind the last of it; the tunnel is closed cleanly only    *)
(* when both directions have ended so, and carries nothing once closed.    *)
(***************************************************************************)
EXTENDS Integers

Dirs == {"up", "down"}

VARIABLES sent,    \* units each source has sent
          srcEnd,  \* the source: open, fin or error
          wrote,   \* units delivered
          fin,     \* the end of the source has been delivered
          state    \* open, clean (both directions ended) or cut

duplexVars == <<sent, srcEnd, wrote, fin, state>>

Init ==
    /\ sent = [d \in Dirs |-> 0] /\ srcEnd = [d \in Dirs |-> "open"]
    /\ wrote = [d \in Dirs |-> 0] /\ fin = [d \in Dirs |-> FALSE]
    /\ state = "open"

SourceSends(d) ==
    /\ srcEnd[d] = "open"
    /\ sent' = [sent EXCEPT ![d] = @ + 1]
    /\ UNCHANGED <<srcEnd, wrote, fin, state>>

SourceEnds(d) ==
    /\ srcEnd[d] = "open"
    /\ \E e \in {"fin", "error"} : srcEnd' = [srcEnd EXCEPT ![d] = e]
    /\ UNCHANGED <<sent, wrote, fin, state>>

Deliver(d) ==
    /\ state = "open" /\ ~fin[d] /\ wrote[d] < sent[d]
    /\ wrote' = [wrote EXCEPT ![d] = @ + 1]
    /\ \/ UNCHANGED state
       \/ state' = "cut"
    /\ UNCHANGED <<sent, srcEnd, fin>>

DeliverEnd(d) ==
    /\ state = "open" /\ ~fin[d]
    /\ srcEnd[d] = "fin" /\ wrote[d] = sent[d]
    /\ fin' = [fin EXCEPT ![d] = TRUE]
    /\ state' = IF \A e \in Dirs : fin'[e] THEN "clean" ELSE "open"
    /\ UNCHANGED <<sent, srcEnd, wrote>>

Cut ==
    /\ state = "open"
    /\ state' = "cut"
    /\ UNCHANGED <<sent, srcEnd, wrote, fin>>

Next ==
    \/ \E d \in Dirs : \/ SourceSends(d) \/ SourceEnds(d) \/ Deliver(d)
                       \/ DeliverEnd(d)
    \/ Cut

Spec == Init /\ [][Next]_duplexVars
============================================================================
