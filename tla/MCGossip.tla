------------------------------ MODULE MCGossip ------------------------------
(***************************************************************************)
(* Vote gossip with one peer, for TLC: two validators of equal power, and  *)
(* three ways in which the two nodes move on.                              *)
(***************************************************************************)
EXTENDS Gossip

CONSTANTS v1, v2, A

MCPowerOf == [S \in SUBSET Validators |-> Cardinality(S) * 15]

(* A validator that cast two commits, while the peer lags a height; rounds *)
(* that pass with proposals; and heights that pass.                        *)
Cast(h, r, t, v, b) == [height |-> h, round |-> r, type |-> t, v |-> v, b |-> b]

Equivocation ==
    [heights |-> 2, rounds |-> 0, steps |-> {8}, proposes |-> FALSE, fails |-> 1,
     has |-> {Cast(1, 0, "commit", v, A) : v \in {v1, v2}}, gets |-> {},
     other |-> {Cast(1, 0, "commit", v1, Nil)}]
RoundsPass ==
    [heights |-> 1, rounds |-> 1, steps |-> {3}, proposes |-> TRUE, fails |-> 0,
     has |-> {}, gets |-> {Cast(1, 0, "prepare", v2, A)},
     other |-> {}]
HeightsPass ==
    [heights |-> 2, rounds |-> 1, steps |-> {}, proposes |-> FALSE, fails |-> 0,
     has |-> {Cast(1, 1, "commit", v, A) : v \in {v1, v2}}, gets |-> {},
     other |-> {}]

MCInstances == {Equivocation, RoundsPass, HeightsPass}
=============================================================================
