----------------------------- MODULE MCGateway -----------------------------
(* Instances of Gateway for TLC.  Slots of one connection, and slots that  *)
(* carry the same kind of request, are interchangeable.                    *)
EXTENDS Gateway, TLC

CONSTANTS c1, c2, r1, r2, r3

OneConn == [r \in Reqs |-> c1]
TwoConns == [r \in Reqs |-> IF r = r1 THEN c1 ELSE c2]
SlotSymmetry == Permutations(Reqs)
PairSymmetry == Permutations({r2, r3})
============================================================================
