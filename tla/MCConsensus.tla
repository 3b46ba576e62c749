---------------------------- MODULE MCConsensus ----------------------------
EXTENDS Consensus, TLC

CONSTANTS v1, v2, v3, A, B, p,
          Weight1, Weight2, Weight3     \* their shares of the 30 units

MCPowerOf ==
    [S \in SUBSET Validators |->
        (IF v1 \in S THEN Weight1 ELSE 0) + (IF v2 \in S THEN Weight2 ELSE 0)
           + (IF v3 \in S THEN Weight3 ELSE 0)]

(* v1 leads even rounds and makes A, v2 leads odd rounds and makes B. *)
MCPrimary == [h \in Heights |-> [r \in Rounds |-> IF r % 2 = 0 THEN v1 ELSE v2]]

MCNewBlock == [r \in Rounds |-> IF r % 2 = 0 THEN A ELSE B]

(* Everything the other validators could sign at the heights of interest. *)
MCForged == {m \in Message : m.by \notin Correct /\ m.height <= MaxHeight}

(* The votes of round 0 with which v3 can hand v1 a majority for A. *)
MCForgedVotes ==
    {m \in VoteMessage : m.by \notin Correct /\ m.height = 1 /\ m.round = 0 /\ m.val = A}

(* Votes for both blocks at height 1, where claims make conflicting votes  *)
(* count, and for A at height 2.                                           *)
MCForgedBlocks ==
    {m \in VoteMessage : m.by \notin Correct /\ IF m.height = 1 THEN m.val # Nil ELSE m.val = A}

MCClaims == {<<0, t, A>> : t \in VoteTypes}
=============================================================================
