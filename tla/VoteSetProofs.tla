---------------------------- MODULE VoteSetProofs ----------------------------
(***************************************************************************)
(* The vote set's bookkeeping for every validator set and every division   *)
(* of the power.                                                           *)
(***************************************************************************)
EXTENDS VoteSetMachine, VoteSetLemmas, TLAPS

(* In every state of a vote set the sums count every vote once, maj23 is   *)
(* set exactly when a tally holds a quorum, the majority's votes are the   *)
(* canonical ones and double tallies were claimed by a peer: for any       *)
(* validators, powers and blocks.                                          *)
THEOREM VoteSetInvariant == VSSpec => []VSInv
<1>1. VSInit => VSInv
  BY NewIsGood
  DEF VSInit, VSInv, Good, VSTypeOK, SumsCountOnce, Maj23IsQuorum, ConflictsAreClaimed
<1>2. VSInv /\ [VSNext]_voteSet => VSInv'
  <2> SUFFICES ASSUME Good(voteSet), [VSNext]_voteSet
               PROVE  Good(voteSet')
    BY DEF VSInv, Good, VSTypeOK, SumsCountOnce, Maj23IsQuorum, ConflictsAreClaimed
  <2>1. ASSUME NEW v \in Validators, NEW b \in BlockIDs, ReceiveVote(v, b)
        PROVE  Good(voteSet')
    BY <2>1, AddVoteIsGood DEF ReceiveVote
  <2>2. ASSUME NEW p \in Peers, NEW b \in BlockIDs, ReceiveMaj23(p, b)
        PROVE  Good(voteSet')
    BY <2>2, SetPeerMaj23IsGood DEF ReceiveMaj23
  <2>3. CASE UNCHANGED voteSet
    BY <2>3
  <2>. QED  BY <2>1, <2>2, <2>3 DEF VSNext
<1>. QED  BY <1>1, <1>2, PTL DEF VSSpec

(* The properties the vote set promises its users, for any validators,     *)
(* powers and blocks: addVerifiedVote counts every vote once, finds the    *)
(* quorum when there is one, and keeps only the conflicts a peer claimed.  *)
THEOREM VoteSetSafety == VSSpec => [](SumsCountOnce /\ Maj23IsQuorum /\ ConflictsAreClaimed)
<1>1. VSInv => SumsCountOnce /\ Maj23IsQuorum /\ ConflictsAreClaimed
  BY DEF VSInv
<1>. QED  BY <1>1, VoteSetInvariant, PTL

(* The commit votes of a round with a two-thirds majority for a block      *)
(* always make a reply that VerifyReply accepts, so that the reply stored  *)
(* in the next block passes validateBlock.                                 *)
THEOREM VoteSetReplyVerifies == VSSpec => []ReplyVerifies
<1>1. VSInv => ReplyVerifies
  <2> SUFFICES ASSUME VSInv, voteSet.maj23 \in BlockIDs \ {Nil}
               PROVE  VerifyReply(MakeReply(voteSet))
    BY DEF ReplyVerifies
  <2> DEFINE m == voteSet.maj23
             T == voteSet.votesByBlock[m]
             C == {v \in Validators : MakeReply(voteSet)[v] = "commit"}
  <2>1. m # NoVote /\ m # Nil /\ T \in Quorums
    BY VoteSetAssumption DEF VSInv, Maj23IsQuorum, QuorumIsFound
  <2>2. T \subseteq Validators /\ \A v \in T : voteSet.votes[v] = m
    BY <2>1 DEF VSInv, VSTypeOK, VoteSets, IsCanonical
  <2>3. T \subseteq C
    BY <2>1, <2>2 DEF MakeReply
  <2>4. PowerOf[T] <= PowerOf[C]
    BY <2>3, PowerMono
  <2>5. /\ PowerOf[T] \in Nat /\ PowerOf[C] \in Nat /\ PowerOf[T] >= QuorumPower
    BY <2>1, <2>2, PowerNat DEF Quorums
  <2>6. QuorumPower > TwoThirds /\ QuorumPower \in Nat /\ TwoThirds \in Nat
    BY PowerAssumption DEF QuorumPower, TwoThirds
  <2>7. PowerOf[C] > TwoThirds
    BY <2>4, <2>5, <2>6
  <2>. QED  BY <2>7 DEF VerifyReply
<1>. QED  BY <1>1, VoteSetInvariant, PTL

(* The majority of a vote set, once found, is never replaced or forgotten. *)
THEOREM VoteSetMaj23Stable == VSSpec => Maj23Stable
<1>1. ASSUME VSInv, [VSNext]_voteSet, voteSet.maj23 # NoVote
      PROVE  voteSet'.maj23 = voteSet.maj23
  <2> USE <1>1
  <2>0. Good(voteSet)
    BY DEF VSInv, Good, VSTypeOK, SumsCountOnce, Maj23IsQuorum, ConflictsAreClaimed
  <2>1. ASSUME NEW v \in Validators, NEW b \in BlockIDs, ReceiveVote(v, b)
        PROVE  voteSet'.maj23 = voteSet.maj23
    <3> DEFINE rs == Recorded(voteSet, v, b)
    <3>1. rs \in VoteSets /\ rs.maj23 = voteSet.maj23
      BY <2>0, RecordedFacts
    <3>2. Tallied(rs, v, b).maj23 = voteSet.maj23
      BY <3>1, TalliedFacts
    <3>. QED  BY <2>1, <3>1, <3>2 DEF ReceiveVote, AddVote
  <2>2. ASSUME NEW p \in Peers, NEW b \in BlockIDs, ReceiveMaj23(p, b)
        PROVE  voteSet'.maj23 = voteSet.maj23
    BY <2>0, <2>2 DEF ReceiveMaj23, SetPeerMaj23, Good, VoteSets
  <2>3. CASE UNCHANGED voteSet
    BY <2>3
  <2>. QED  BY <2>1, <2>2, <2>3 DEF VSNext
<1>2. VSInv /\ [VSNext]_voteSet
        => [voteSet.maj23 # NoVote => voteSet'.maj23 = voteSet.maj23]_voteSet
  BY <1>1
<1>. QED  BY <1>2, VoteSetInvariant, PTL DEF VSSpec, Maj23Stable
=============================================================================
