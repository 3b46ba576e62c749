------------------------------- MODULE MCVotes -------------------------------
(***************************************************************************)
(* The two modules about counting votes, for TLC: a behaviour is one of    *)
(* the voting rules or of a vote set.                                      *)
(*                                                                         *)
(* Five validators of equal power, two of them faulty: four make a quorum, *)
(* so a quorum has at least two correct members and two quorums share one. *)
(***************************************************************************)
EXTENDS Voting, VoteSetMachine, FiniteSets, TLC

VARIABLE part               \* which of the modules the behaviour is of

(* Equal shares of the 30 units, 23 of which make a quorum. *)
MCPowerOf ==
    [S \in SUBSET Validators |-> (30 \div Cardinality(Validators)) * Cardinality(S)]

MCInit == part \in {"voting", "vote_set"} /\ Init /\ VSInit

MCNext ==
    \/ part = "voting" /\ Next /\ UNCHANGED <<part, voteSet>>
    \/ part = "vote_set" /\ VSNext /\ UNCHANGED <<part, votes>>

MCSpec == MCInit /\ [][MCNext]_<<part, votes, voteSet>>

(* Both modules treat the correct validators, the blocks and the peers     *)
(* alike.  The faulty validators are only told from the correct ones by    *)
(* the voting rules, in which they have no state.                          *)
Symmetry ==
    Permutations(Correct) \cup Permutations(Validators \ Correct)
        \cup Permutations(Blocks) \cup Permutations(Peers)
=============================================================================
