--------------------------- MODULE VoteSetMachine ---------------------------
(* One VoteSet fed with votes and majority claims in every order, from     *)
(* validators that may vote for several blocks.                            *)
EXTENDS VoteSet

VARIABLE voteSet

VSInit == voteSet = NewVoteSet

ReceiveVote(v, b) == voteSet' = AddVote(voteSet, v, b)

ReceiveMaj23(p, b) == voteSet' = SetPeerMaj23(voteSet, p, b)

VSNext == \/ \E v \in Validators, b \in BlockIDs : ReceiveVote(v, b)
        \/ \E p \in Peers, b \in BlockIDs : ReceiveMaj23(p, b)

VSSpec == VSInit /\ [][VSNext]_voteSet

-----------------------------------------------------------------------------

VSTypeOK == voteSet \in VoteSets

(* The running sums of addVerifiedVote count every voter once in the set   *)
(* and once in each tally it is part of, and the bit array marks exactly   *)
(* the voters, whatever votes were replaced or copied.                     *)
SumsCountOnce == CountsOnce(voteSet)

(* maj23 is set exactly when some tally holds a quorum, and names one that *)
(* does.                                                                   *)
Maj23IsQuorum == QuorumIsFound(voteSet)

(* The reply finalizeAppend makes from the commit votes is accepted by     *)
(* VerifyReply, also when votes for other blocks came before or after the  *)
(* majority.                                                               *)
ReplyVerifies ==
    voteSet.maj23 \in BlockIDs \ {Nil} => VerifyReply(MakeReply(voteSet))

(* A validator is in two tallies only if a peer claimed a majority for one *)
(* of the two blocks: conflicting votes cannot grow the set without it.    *)
ConflictsAreClaimed == ConflictsClaimed(voteSet)

(* The inductive invariant: besides the above, nobody is tallied who has   *)
(* not voted, and the votes of the majority are the canonical ones.        *)
VSInv == /\ VSTypeOK
        /\ SumsCountOnce
        /\ Maj23IsQuorum
        /\ IsCanonical(voteSet)
        /\ ConflictsAreClaimed

(* Once two thirds are found they never change (Only consider the first    *)
(* quorum reached).                                                        *)
Maj23Stable == [][voteSet.maj23 # NoVote => voteSet'.maj23 = voteSet.maj23]_voteSet
=============================================================================
