------------------------------- MODULE VoteSet -------------------------------
(***************************************************************************)
(* The VoteSet of types/vote.go: the votes of one type seen in one round.  *)
(* A vote set is a record and its methods are operators on that record, so *)
(* that module VoteSetMachine can run one alone and module Consensus can   *)
(* keep two for every round.                                               *)
(*                                                                         *)
(* Only votes that pass the checks of addVote before addVerifiedVote       *)
(* (index, address, height/round/type, signature) are considered: the      *)
(* others leave the set as it is.                                          *)
(***************************************************************************)
EXTENDS VotingPower

CONSTANTS NoVote,       \* no vote, or no BlockID, yet
          Peers         \* peers that may claim a two-thirds majority

ASSUME VoteSetAssumption == NoVote \notin BlockIDs

VoteSets ==
    [votes : [Validators -> BlockIDs \cup {NoVote}],        \* votes
     votesBitArray : SUBSET Validators,
     sum : Nat,
     maj23 : BlockIDs \cup {NoVote},
     votesByBlock : [BlockIDs -> SUBSET Validators],        \* blockVotes.votes
     blockSum : [BlockIDs -> Nat],                          \* blockVotes.sum
     claimed : SUBSET BlockIDs,                             \* blockVotes.peerMaj23
     peerMaj23s : [Peers -> BlockIDs \cup {NoVote}]]

NewVoteSet ==
    [votes |-> [v \in Validators |-> NoVote],
     votesBitArray |-> {},
     sum |-> 0,
     maj23 |-> NoVote,
     votesByBlock |-> [b \in BlockIDs |-> {}],
     blockSum |-> [b \in BlockIDs |-> 0],
     claimed |-> {},
     peerMaj23s |-> [p \in Peers |-> NoVote]]

(* getVote: this very vote has been seen, as canonical vote or in a tally. *)
Duplicate(vs, v, b) == vs.votes[v] = b \/ v \in vs.votesByBlock[b]

(* A vote that conflicts with an earlier one is tallied only for a block   *)
(* some peer has claimed a majority for.                                   *)
Tallies(vs, v, b) == vs.votes[v] = NoVote \/ b \in vs.claimed

Added(vs, v, b) == ~Duplicate(vs, v, b) /\ Tallies(vs, v, b)

(* The first half of addVerifiedVote: the canonical vote of v. *)
Recorded(vs, v, b) ==
    IF vs.votes[v] = NoVote
    THEN [vs EXCEPT !.votes[v] = b,
                    !.votesBitArray = @ \cup {v},
                    !.sum = @ + PowerOf[{v}]]
    ELSE IF vs.maj23 = b
    THEN [vs EXCEPT !.votes[v] = b, !.votesBitArray = @ \cup {v}]
    ELSE vs

(* Mutants of Tallied: the quorum is looked for before the vote is added,  *)
(* the votes are not copied, a later quorum replaces the first.            *)
TalliedLate(vs, v, b) ==
    [vs EXCEPT !.votesByBlock[b] = @ \cup {v},
               !.blockSum[b] = @ + PowerOf[{v}],
               !.maj23 = IF QuorumPower <= vs.blockSum[b] /\ @ = NoVote THEN b ELSE @]

TalliedNoCopy(vs, v, b) ==
    [vs EXCEPT !.votesByBlock[b] = @ \cup {v},
               !.blockSum[b] = @ + PowerOf[{v}],
               !.maj23 = IF QuorumPower <= vs.blockSum[b] + PowerOf[{v}] /\ @ = NoVote
                         THEN b ELSE @]

TalliedLast(vs, v, b) ==
    [vs EXCEPT !.votesByBlock[b] = @ \cup {v},
               !.blockSum[b] = @ + PowerOf[{v}],
               !.maj23 = IF QuorumPower <= vs.blockSum[b] + PowerOf[{v}] THEN b ELSE @]

(* The second half: the tally of b, and the first quorum that is reached,  *)
(* whose votes become the canonical ones.                                  *)
Tallied(vs, v, b) ==
    LET members == vs.votesByBlock[b] \cup {v}
        newSum  == vs.blockSum[b] + PowerOf[{v}]
        first   == /\ vs.blockSum[b] < QuorumPower
                   /\ QuorumPower <= newSum
                   /\ vs.maj23 = NoVote
    IN  [vs EXCEPT !.votesByBlock[b] = members,
                   !.blockSum[b] = newSum,
                   !.maj23 = IF first THEN b ELSE @,
                   !.votes = IF first
                             THEN [u \in Validators |-> IF u \in members THEN b ELSE @[u]]
                             ELSE @]

AddVote(vs, v, b) ==
    IF Duplicate(vs, v, b) THEN vs
    ELSE IF Tallies(vs, v, b) THEN Tallied(Recorded(vs, v, b), v, b)
    ELSE Recorded(vs, v, b)

SetPeerMaj23(vs, p, b) ==
    IF vs.peerMaj23s[p] # NoVote THEN vs
    ELSE [vs EXCEPT !.peerMaj23s[p] = b, !.claimed = @ \cup {b}]

HasTwoThirdsMajority(vs) == vs.maj23 # NoVote

HasTwoThirdsAny(vs) == vs.sum > TwoThirds

HasAll(vs) == vs.sum = TotalVotingPower

(* The signatures MakeReply collects: those for the majority block, the    *)
(* nil votes, and absent for the rest.                                     *)
MakeReply(vs) ==
    [v \in Validators |->
        IF vs.votes[v] = NoVote THEN "absent"
        ELSE IF vs.votes[v] = Nil THEN "nil"
        ELSE IF vs.votes[v] = vs.maj23 THEN "commit" ELSE "absent"]

(* The power test of ValidatorSet.VerifyReply. *)
VerifyReply(reply) == PowerOf[{v \in Validators : reply[v] = "commit"}] > TwoThirds

-----------------------------------------------------------------------------
(* What a vote set promises, as predicates of the record. *)

Voters(vs) == {v \in Validators : vs.votes[v] # NoVote}

CountsOnce(vs) ==
    /\ vs.sum = PowerOf[Voters(vs)]
    /\ vs.votesBitArray = Voters(vs)
    /\ \A b \in BlockIDs : vs.blockSum[b] = PowerOf[vs.votesByBlock[b]]

QuorumIsFound(vs) ==
    /\ \A b \in BlockIDs : vs.votesByBlock[b] \in Quorums => vs.maj23 # NoVote
    /\ vs.maj23 # NoVote => vs.votesByBlock[vs.maj23] \in Quorums

IsCanonical(vs) ==
    /\ \A b \in BlockIDs : vs.votesByBlock[b] \subseteq Voters(vs)
    /\ vs.maj23 # NoVote =>
          \A v \in vs.votesByBlock[vs.maj23] : vs.votes[v] = vs.maj23

ConflictsClaimed(vs) ==
    \A b, c \in BlockIDs :
       b # c /\ vs.votesByBlock[b] \cap vs.votesByBlock[c] # {}
          => b \in vs.claimed \/ c \in vs.claimed

Good(vs) == /\ vs \in VoteSets
            /\ CountsOnce(vs)
            /\ QuorumIsFound(vs)
            /\ IsCanonical(vs)
            /\ ConflictsClaimed(vs)
=============================================================================
