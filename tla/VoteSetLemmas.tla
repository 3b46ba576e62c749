---------------------------- MODULE VoteSetLemmas ----------------------------
(***************************************************************************)
(* Facts about the operators of VotingPower and VoteSet, for every         *)
(* validator set and every division of the power: the intersection of      *)
(* quorums, and what addVerifiedVote keeps true of a vote set.             *)
(***************************************************************************)
EXTENDS VoteSet, TLAPS

(* Power grows by the power of a new member. *)
LEMMA PowerAdd ==
    ASSUME NEW S \in SUBSET Validators, NEW v \in Validators, v \notin S
    PROVE  PowerOf[S \cup {v}] = PowerOf[S] + PowerOf[{v}]
<1>1. S \cap {v} = {} /\ {v} \in SUBSET Validators
  OBVIOUS
<1>. QED  BY <1>1, PowerAssumption

(* Power is a natural number. *)
LEMMA PowerNat ==
    ASSUME NEW S \in SUBSET Validators
    PROVE  PowerOf[S] \in Nat
  BY PowerAssumption

(* A set has at least the power of its subsets. *)
LEMMA PowerMono ==
    ASSUME NEW S \in SUBSET Validators, NEW T \in SUBSET S
    PROVE  PowerOf[T] <= PowerOf[S]
<1>1. T \in SUBSET Validators /\ S \ T \in SUBSET Validators /\ T \cap (S \ T) = {}
  OBVIOUS
<1>2. PowerOf[T \cup (S \ T)] = PowerOf[T] + PowerOf[S \ T]
  BY <1>1, PowerAssumption
<1>3. T \cup (S \ T) = S
  OBVIOUS
<1>4. PowerOf[S] = PowerOf[T] + PowerOf[S \ T]
  BY <1>2, <1>3
<1>5. PowerOf[T] \in Nat /\ PowerOf[S \ T] \in Nat
  BY <1>1, PowerNat
<1>. QED  BY <1>4, <1>5

(* Nobody has no power. *)
LEMMA PowerEmpty == PowerOf[{}] = 0
<1>1. {} \cap {} = {} /\ {} \cup {} = {} /\ {} \in SUBSET Validators
  OBVIOUS
<1>2. PowerOf[{} \cup {}] = PowerOf[{}] + PowerOf[{}]
  BY <1>1, PowerAssumption
<1>. QED  BY <1>1, <1>2, PowerNat

(* Two quorums of addVerifiedVote share at least 16 of the 30 units. *)
LEMMA QuorumIntersection ==
    ASSUME NEW P \in Quorums, NEW Q \in Quorums
    PROVE  PowerOf[P \cap Q] >= 16 * Unit
<1>1. /\ P \in SUBSET Validators /\ Q \in SUBSET Validators
      /\ P \cap Q \in SUBSET Validators /\ Q \ P \in SUBSET Validators
      /\ P \cup (Q \ P) \in SUBSET Validators
  BY DEF Quorums
<1>2. PowerOf[P] >= QuorumPower /\ PowerOf[Q] >= QuorumPower
  BY DEF Quorums
<1>3. PowerOf[P \cup (Q \ P)] = PowerOf[P] + PowerOf[Q \ P]
  <2>1. P \cap (Q \ P) = {}
    OBVIOUS
  <2>. QED  BY <1>1, <2>1, PowerAssumption
<1>4. PowerOf[Q] = PowerOf[P \cap Q] + PowerOf[Q \ P]
  <2>1. (P \cap Q) \cap (Q \ P) = {} /\ (P \cap Q) \cup (Q \ P) = Q
    OBVIOUS
  <2>2. PowerOf[(P \cap Q) \cup (Q \ P)] = PowerOf[P \cap Q] + PowerOf[Q \ P]
    BY <1>1, <2>1, PowerAssumption
  <2>. QED  BY <2>1, <2>2
<1>5. PowerOf[P \cup (Q \ P)] <= PowerOf[Validators]
  BY <1>1, PowerMono
<1>6. /\ PowerOf[P] \in Nat /\ PowerOf[Q] \in Nat /\ PowerOf[P \cap Q] \in Nat
      /\ PowerOf[Q \ P] \in Nat /\ PowerOf[Validators] \in Nat
  BY <1>1, PowerNat
<1>. QED
  BY <1>2, <1>3, <1>4, <1>5, <1>6, PowerAssumption DEF QuorumPower, TotalVotingPower

(* If the validators outside Correct hold less than 16 of the 30 units,    *)
(* any two quorums share a correct validator: the assumption of Voting.    *)
THEOREM QuorumsShareCorrect ==
    ASSUME NEW Correct \in SUBSET Validators,
           PowerOf[Validators \ Correct] < 16 * Unit,
           NEW P \in Quorums, NEW Q \in Quorums
    PROVE  P \cap Q \cap Correct # {}
<1> SUFFICES ASSUME P \cap Q \cap Correct = {} PROVE FALSE
  OBVIOUS
<1>1. P \cap Q \in SUBSET (Validators \ Correct)
  BY DEF Quorums
<1>2. PowerOf[P \cap Q] <= PowerOf[Validators \ Correct]
  BY <1>1, PowerMono
<1>3. PowerOf[P \cap Q] \in Nat /\ PowerOf[Validators \ Correct] \in Nat
  BY <1>1, PowerNat
<1>. QED  BY <1>2, <1>3, QuorumIntersection, PowerAssumption

-----------------------------------------------------------------------------

(* A new vote set is good. *)
LEMMA NewIsGood == Good(NewVoteSet)
<1>1. NewVoteSet \in VoteSets
  BY DEF NewVoteSet, VoteSets
<1>2. Voters(NewVoteSet) = {}
  BY DEF Voters, NewVoteSet
<1>3. {} \notin Quorums
  BY PowerEmpty, PowerAssumption DEF Quorums, QuorumPower
<1>. QED
  BY <1>1, <1>2, <1>3, PowerEmpty
  DEF Good, CountsOnce, QuorumIsFound, IsCanonical, ConflictsClaimed, NewVoteSet

(* Recording the canonical vote changes only votes, bit array and sum, and *)
(* keeps them in step.                                                     *)
LEMMA RecordedFacts ==
    ASSUME NEW vs, Good(vs), NEW v \in Validators, NEW b \in BlockIDs
    PROVE  LET rs == Recorded(vs, v, b)
           IN  /\ rs \in VoteSets
               /\ CountsOnce(rs)
               /\ Voters(rs) = Voters(vs) \cup {v}
               /\ rs.maj23 = vs.maj23 /\ rs.votesByBlock = vs.votesByBlock
               /\ rs.blockSum = vs.blockSum /\ rs.claimed = vs.claimed
               /\ \A u \in Validators : u # v => rs.votes[u] = vs.votes[u]
               /\ rs.votes[v] \in {b, vs.votes[v]}
               /\ vs.maj23 = b => rs.votes[v] = b
<1> DEFINE rs == Recorded(vs, v, b)
<1> USE DEF Good
<1>0. vs \in VoteSets
  OBVIOUS
<1>1. CASE vs.votes[v] = NoVote
  <2>1. rs = [vs EXCEPT !.votes[v] = b, !.votesBitArray = @ \cup {v}, !.sum = @ + PowerOf[{v}]]
    BY <1>1 DEF Recorded
  <2>2. PowerOf[{v}] \in Nat
    BY PowerNat
  <2>a. /\ [vs.votes EXCEPT ![v] = b] \in [Validators -> BlockIDs \cup {NoVote}]
        /\ vs.votesBitArray \cup {v} \in SUBSET Validators
        /\ vs.sum + PowerOf[{v}] \in Nat
    BY <1>0, <2>2 DEF VoteSets
  <2>3. rs \in VoteSets
    BY <1>0, <2>1, <2>a DEF VoteSets
  <2>4. /\ rs.votes = [vs.votes EXCEPT ![v] = b] /\ rs.sum = vs.sum + PowerOf[{v}]
        /\ rs.votesBitArray = vs.votesBitArray \cup {v}
        /\ rs.maj23 = vs.maj23 /\ rs.votesByBlock = vs.votesByBlock
        /\ rs.blockSum = vs.blockSum /\ rs.claimed = vs.claimed
    BY <1>0, <2>1 DEF VoteSets
  <2>5. vs.votes \in [Validators -> BlockIDs \cup {NoVote}]
    BY <1>0 DEF VoteSets
  <2> HIDE DEF rs
  <2>6. Voters(rs) = Voters(vs) \cup {v} /\ v \notin Voters(vs)
    BY <1>1, <2>4, <2>5, VoteSetAssumption DEF Voters
  <2>7. PowerOf[Voters(vs) \cup {v}] = PowerOf[Voters(vs)] + PowerOf[{v}]
    BY <2>6, PowerAdd DEF Voters
  <2>8. CountsOnce(rs)
    BY <2>4, <2>6, <2>7 DEF CountsOnce
  <2>. QED  BY <2>3, <2>4, <2>5, <2>6, <2>8 DEF rs
<1>2. CASE vs.votes[v] # NoVote /\ vs.maj23 = b
  <2>1. rs = [vs EXCEPT !.votes[v] = b, !.votesBitArray = @ \cup {v}]
    BY <1>2 DEF Recorded
  <2>2. /\ [vs.votes EXCEPT ![v] = b] \in [Validators -> BlockIDs \cup {NoVote}]
        /\ vs.votesBitArray \cup {v} \in SUBSET Validators
    BY <1>0 DEF VoteSets
  <2>3. rs \in VoteSets
    BY <1>0, <2>1, <2>2 DEF VoteSets
  <2>4. /\ rs.votes = [vs.votes EXCEPT ![v] = b] /\ rs.sum = vs.sum
        /\ rs.votesBitArray = vs.votesBitArray \cup {v}
        /\ rs.maj23 = vs.maj23 /\ rs.votesByBlock = vs.votesByBlock
        /\ rs.blockSum = vs.blockSum /\ rs.claimed = vs.claimed
    BY <1>0, <2>1 DEF VoteSets
  <2>5. vs.votes \in [Validators -> BlockIDs \cup {NoVote}]
    BY <1>0 DEF VoteSets
  <2> HIDE DEF rs
  <2>6. Voters(rs) = Voters(vs) /\ v \in Voters(vs)
    BY <1>2, <2>4, <2>5, VoteSetAssumption DEF Voters
  <2>7. Voters(vs) \cup {v} = Voters(vs)
    BY <2>6
  <2>8. CountsOnce(rs)
    BY <2>4, <2>6, <2>7 DEF CountsOnce
  <2>. QED  BY <2>3, <2>4, <2>5, <2>6, <2>7, <2>8 DEF rs
<1>3. CASE vs.votes[v] # NoVote /\ vs.maj23 # b
  <2>1. rs = vs
    BY <1>3 DEF Recorded
  <2>2. Voters(vs) \cup {v} = Voters(vs)
    BY <1>3 DEF Voters
  <2>. QED  BY <1>3, <2>1, <2>2
<1>. QED  BY <1>1, <1>2, <1>3

(* Tallying a vote that is new to the tally of b adds v to that tally and  *)
(* nothing else, and copies the tally when it is the first quorum.         *)
LEMMA TalliedFacts ==
    ASSUME NEW rs \in VoteSets, NEW v \in Validators, NEW b \in BlockIDs
    PROVE  LET ts      == Tallied(rs, v, b)
               members == rs.votesByBlock[b] \cup {v}
               first   == /\ rs.blockSum[b] < QuorumPower
                          /\ QuorumPower <= rs.blockSum[b] + PowerOf[{v}]
                          /\ rs.maj23 = NoVote
           IN  /\ ts \in VoteSets
               /\ ts.sum = rs.sum /\ ts.votesBitArray = rs.votesBitArray
               /\ ts.claimed = rs.claimed
               /\ ts.votesByBlock = [rs.votesByBlock EXCEPT ![b] = members]
               /\ ts.blockSum = [rs.blockSum EXCEPT ![b] = @ + PowerOf[{v}]]
               /\ ts.maj23 = IF first THEN b ELSE rs.maj23
               /\ ts.votes = IF first
                             THEN [u \in Validators |-> IF u \in members THEN b ELSE rs.votes[u]]
                             ELSE rs.votes
<1> DEFINE ts      == Tallied(rs, v, b)
           members == rs.votesByBlock[b] \cup {v}
           newSum  == rs.blockSum[b] + PowerOf[{v}]
           first   == /\ rs.blockSum[b] < QuorumPower
                      /\ QuorumPower <= newSum
                      /\ rs.maj23 = NoVote
           tallies == [rs.votesByBlock EXCEPT ![b] = members]
           sums    == [rs.blockSum EXCEPT ![b] = newSum]
           maj     == IF first THEN b ELSE rs.maj23
           copied  == IF first
                      THEN [u \in Validators |-> IF u \in members THEN b ELSE rs.votes[u]]
                      ELSE rs.votes
<1>1. /\ rs.votesByBlock \in [BlockIDs -> SUBSET Validators]
      /\ rs.blockSum \in [BlockIDs -> Nat]
      /\ rs.maj23 \in BlockIDs \cup {NoVote}
      /\ rs.votes \in [Validators -> BlockIDs \cup {NoVote}]
  BY DEF VoteSets
<1>2. PowerOf[{v}] \in Nat
  BY PowerNat
<1>3. tallies \in [BlockIDs -> SUBSET Validators]
  BY <1>1
<1>4. sums \in [BlockIDs -> Nat]
  BY <1>1, <1>2
<1>5. maj \in BlockIDs \cup {NoVote}
  BY <1>1
<1>6. copied \in [Validators -> BlockIDs \cup {NoVote}]
  BY <1>1
<1>7. ts = [rs EXCEPT !.votesByBlock = tallies, !.blockSum = sums,
                      !.maj23 = maj, !.votes = copied]
  BY <1>1 DEF Tallied, VoteSets
<1> HIDE DEF tallies, sums, maj, copied, ts
<1>8. ts \in VoteSets
  BY <1>3, <1>4, <1>5, <1>6, <1>7 DEF VoteSets
<1>9. /\ ts.sum = rs.sum /\ ts.votesBitArray = rs.votesBitArray
      /\ ts.claimed = rs.claimed /\ ts.votesByBlock = tallies
      /\ ts.blockSum = sums /\ ts.maj23 = maj /\ ts.votes = copied
  BY <1>7 DEF VoteSets
<1>. QED  BY <1>8, <1>9 DEF ts, tallies, sums, maj, copied

(* addVote keeps a vote set good: first vote, replaced vote, vote tallied  *)
(* because of a claim, refused conflict and duplicate alike.               *)
LEMMA AddVoteIsGood ==
    ASSUME NEW vs, Good(vs), NEW v \in Validators, NEW b \in BlockIDs
    PROVE  Good(AddVote(vs, v, b))
<1> DEFINE rs == Recorded(vs, v, b)
           ts == Tallied(rs, v, b)
<1>0. vs \in VoteSets /\ rs \in VoteSets
  BY RecordedFacts DEF Good
<1>a. /\ vs.votesByBlock \in [BlockIDs -> SUBSET Validators]
      /\ vs.blockSum \in [BlockIDs -> Nat]
      /\ vs.maj23 \in BlockIDs \cup {NoVote}
      /\ vs.votes \in [Validators -> BlockIDs \cup {NoVote}]
  BY <1>0 DEF VoteSets
<1>r. /\ CountsOnce(rs)
      /\ Voters(rs) = Voters(vs) \cup {v}
      /\ rs.maj23 = vs.maj23 /\ rs.votesByBlock = vs.votesByBlock
      /\ rs.blockSum = vs.blockSum /\ rs.claimed = vs.claimed
      /\ \A u \in Validators : u # v => rs.votes[u] = vs.votes[u]
      /\ rs.votes[v] \in {b, vs.votes[v]}
      /\ vs.maj23 = b => rs.votes[v] = b
  BY RecordedFacts
<1>1. CASE Duplicate(vs, v, b)
  BY <1>1 DEF AddVote
<1>2. CASE ~Duplicate(vs, v, b) /\ ~Tallies(vs, v, b)
  <2>1. AddVote(vs, v, b) = rs
    BY <1>2 DEF AddVote
  <2> HIDE DEF rs
  <2>2. QuorumIsFound(rs)
    BY <1>r DEF Good, QuorumIsFound
  <2>3. IsCanonical(rs)
    <3>1. \A c \in BlockIDs : rs.votesByBlock[c] \subseteq Voters(rs)
      BY <1>r DEF Good, IsCanonical
    <3>2. ASSUME rs.maj23 # NoVote, NEW u \in rs.votesByBlock[rs.maj23]
          PROVE  rs.votes[u] = rs.maj23
      <4>1. vs.votes[u] = vs.maj23 /\ u \in Validators
        BY <1>r, <1>a, <3>2 DEF Good, IsCanonical
      <4>2. CASE u = v
        <5>1. CASE vs.maj23 = b
          BY <4>2, <5>1, <1>r
        <5>2. CASE vs.maj23 # b
          BY <4>1, <4>2, <5>2, <1>2 DEF rs, Recorded, Tallies
        <5>. QED  BY <5>1, <5>2
      <4>. QED  BY <4>1, <4>2, <1>r
    <3>. QED  BY <3>1, <3>2 DEF IsCanonical
  <2>4. ConflictsClaimed(rs)
    BY <1>r DEF Good, ConflictsClaimed
  <2>. QED  BY <2>1, <2>2, <2>3, <2>4, <1>0, <1>r DEF Good
<1>3. CASE ~Duplicate(vs, v, b) /\ Tallies(vs, v, b)
  <2> DEFINE members == rs.votesByBlock[b] \cup {v}
             first   == /\ rs.blockSum[b] < QuorumPower
                        /\ QuorumPower <= rs.blockSum[b] + PowerOf[{v}]
                        /\ rs.maj23 = NoVote
  <2>1. AddVote(vs, v, b) = ts
    BY <1>3 DEF AddVote
  <2>t. /\ ts \in VoteSets
        /\ ts.sum = rs.sum /\ ts.votesBitArray = rs.votesBitArray
        /\ ts.claimed = rs.claimed
        /\ ts.votesByBlock = [rs.votesByBlock EXCEPT ![b] = members]
        /\ ts.blockSum = [rs.blockSum EXCEPT ![b] = @ + PowerOf[{v}]]
        /\ ts.maj23 = IF first THEN b ELSE rs.maj23
        /\ ts.votes = IF first
                      THEN [u \in Validators |-> IF u \in members THEN b ELSE rs.votes[u]]
                      ELSE rs.votes
    BY <1>0, TalliedFacts
  <2> HIDE DEF rs, ts
  <2>m. members \in SUBSET Validators /\ v \notin vs.votesByBlock[b]
    BY <1>a, <1>r, <1>3 DEF Duplicate
  <2>n. members \subseteq Voters(rs)
    BY <1>r DEF Good, IsCanonical
  <2>p. PowerOf[members] = rs.blockSum[b] + PowerOf[{v}]
    <3>1. PowerOf[vs.votesByBlock[b] \cup {v}] = PowerOf[vs.votesByBlock[b]] + PowerOf[{v}]
      BY <1>a, <2>m, PowerAdd
    <3>. QED  BY <3>1, <1>r DEF Good, CountsOnce
  <2>q. Voters(ts) = Voters(rs)
    <3>1. CASE first
      BY <3>1, <2>t, <2>n, <2>m, VoteSetAssumption DEF Voters
    <3>2. CASE ~first
      BY <3>2, <2>t DEF Voters
    <3>. QED  BY <3>1, <3>2
  <2>2. CountsOnce(ts)
    BY <2>t, <2>p, <2>q, <1>r, <1>a DEF CountsOnce
  <2>3. QuorumIsFound(ts)
    <3>0. /\ rs.blockSum[b] = PowerOf[vs.votesByBlock[b]]
          /\ PowerOf[{v}] \in Nat /\ rs.blockSum[b] \in Nat
          /\ QuorumPower \in Nat
      BY <1>r, <1>a, PowerNat, PowerAssumption DEF CountsOnce, QuorumPower
    <3>1. ASSUME NEW c \in BlockIDs, ts.votesByBlock[c] \in Quorums
          PROVE  ts.maj23 # NoVote
      <4>1. CASE rs.maj23 # NoVote
        BY <4>1, <2>t
      <4>2. CASE rs.maj23 = NoVote /\ c # b
        BY <4>2, <3>1, <2>t, <1>r, <1>a DEF Good, QuorumIsFound
      <4>3. CASE rs.maj23 = NoVote /\ c = b
        <5>1. vs.votesByBlock[b] \notin Quorums
          BY <4>3, <1>r DEF Good, QuorumIsFound
        <5>2. rs.blockSum[b] < QuorumPower
          BY <5>1, <3>0, <1>a DEF Quorums
        <5>3. QuorumPower <= rs.blockSum[b] + PowerOf[{v}]
          BY <4>3, <3>1, <2>t, <1>r, <1>a, <2>p DEF Quorums
        <5>. QED  BY <5>2, <5>3, <4>3, <2>t, VoteSetAssumption
      <4>. QED  BY <4>1, <4>2, <4>3
    <3>2. ASSUME ts.maj23 # NoVote
          PROVE  ts.votesByBlock[ts.maj23] \in Quorums
      <4>1. CASE first
        BY <4>1, <2>t, <2>p, <2>m, <1>r, <1>a DEF Quorums
      <4>2. CASE ~first
        <5>1. ts.maj23 = vs.maj23 /\ vs.votesByBlock[vs.maj23] \in Quorums
          BY <4>2, <3>2, <2>t, <1>r DEF Good, QuorumIsFound
        <5>2. CASE vs.maj23 = b
          <6>1. PowerOf[members] >= QuorumPower
            BY <5>1, <5>2, <2>p, <3>0 DEF Quorums
          <6>. QED  BY <6>1, <5>1, <5>2, <2>t, <2>m, <1>r, <1>a DEF Quorums
        <5>3. CASE vs.maj23 # b
          BY <5>1, <5>3, <3>2, <2>t, <1>r, <1>a
        <5>. QED  BY <5>2, <5>3
      <4>. QED  BY <4>1, <4>2
    <3>. QED  BY <3>1, <3>2 DEF QuorumIsFound
  <2>4. IsCanonical(ts)
    <3>1. \A c \in BlockIDs : ts.votesByBlock[c] \subseteq Voters(ts)
      BY <2>t, <2>n, <2>q, <1>r, <1>a DEF Good, IsCanonical
    <3>2. ASSUME ts.maj23 # NoVote, NEW u \in ts.votesByBlock[ts.maj23]
          PROVE  ts.votes[u] = ts.maj23
      <4>1. CASE first
        BY <4>1, <3>2, <2>t, <2>m, <1>r, <1>a
      <4>2. CASE ~first
        <5>1. ts.maj23 = vs.maj23 /\ ts.votes = rs.votes
          BY <4>2, <2>t, <1>r
        <5>2. CASE u = v
          <6>1. CASE vs.maj23 = b
            BY <6>1, <5>1, <5>2, <1>r
          <6>2. CASE vs.maj23 # b
            <7>1. v \in vs.votesByBlock[vs.maj23] /\ vs.maj23 \in BlockIDs
              BY <6>2, <5>1, <5>2, <3>2, <2>t, <1>r, <1>a
            <7>2. vs.votes[v] = vs.maj23 /\ vs.votes[v] # NoVote
              BY <7>1, <5>1, <3>2 DEF Good, IsCanonical
            <7>3. rs = vs
              BY <7>2, <6>2 DEF rs, Recorded
            <7>. QED  BY <7>2, <7>3, <5>1, <5>2
          <6>. QED  BY <6>1, <6>2
        <5>3. CASE u # v
          <6>1. u \in vs.votesByBlock[vs.maj23] /\ u \in Validators
            BY <5>1, <5>3, <3>2, <2>t, <1>r, <1>a
          <6>2. vs.votes[u] = vs.maj23
            BY <6>1, <5>1, <3>2 DEF Good, IsCanonical
          <6>. QED  BY <6>1, <6>2, <5>1, <5>3, <1>r
        <5>. QED  BY <5>2, <5>3
      <4>. QED  BY <4>1, <4>2
    <3>. QED  BY <3>1, <3>2 DEF IsCanonical
  <2>5. ConflictsClaimed(ts)
    <3>1. v \notin Voters(vs) \/ b \in vs.claimed
      BY <1>3 DEF Tallies, Voters
    <3>2. ts.claimed = vs.claimed
      BY <2>t, <1>r
    <3>3. CASE b \in vs.claimed
      BY <3>2, <3>3, <2>t, <1>r, <1>a DEF Good, ConflictsClaimed
    <3>4. CASE v \notin Voters(vs)
      BY <3>2, <3>4, <2>t, <1>r, <1>a DEF Good, ConflictsClaimed, IsCanonical
    <3>. QED  BY <3>1, <3>3, <3>4
  <2>. QED  BY <2>1, <2>t, <2>2, <2>3, <2>4, <2>5 DEF Good
<1>. QED  BY <1>1, <1>2, <1>3

(* What addVote does to the tallies: at most v joins that of b, the first  *)
(* majority stays, a new one is for b and comes only with an added vote,   *)
(* and nobody who has voted is lost.                                       *)
LEMMA AddVoteFacts ==
    ASSUME NEW vs, Good(vs), NEW v \in Validators, NEW b \in BlockIDs
    PROVE  LET as == AddVote(vs, v, b)
           IN  /\ \A c \in BlockIDs : \A u \in as.votesByBlock[c] :
                     u \in vs.votesByBlock[c] \/ (u = v /\ c = b)
               /\ as.maj23 = vs.maj23
                     \/ (vs.maj23 = NoVote /\ as.maj23 = b /\ Added(vs, v, b))
               /\ Voters(vs) \subseteq Voters(as)
<1> DEFINE rs == Recorded(vs, v, b)
           ts == Tallied(rs, v, b)
<1>0. rs \in VoteSets /\ vs.votesByBlock \in [BlockIDs -> SUBSET Validators]
  BY RecordedFacts DEF Good, VoteSets
<1>r. /\ Voters(rs) = Voters(vs) \cup {v}
      /\ rs.maj23 = vs.maj23 /\ rs.votesByBlock = vs.votesByBlock
  BY RecordedFacts
<1>1. CASE Duplicate(vs, v, b)
  BY <1>1 DEF AddVote
<1>2. CASE ~Duplicate(vs, v, b) /\ ~Tallies(vs, v, b)
  <2>1. AddVote(vs, v, b) = rs
    BY <1>2 DEF AddVote
  <2>. QED  BY <2>1, <1>r
<1>3. CASE ~Duplicate(vs, v, b) /\ Tallies(vs, v, b)
  <2> DEFINE members == rs.votesByBlock[b] \cup {v}
             first   == /\ rs.blockSum[b] < QuorumPower
                        /\ QuorumPower <= rs.blockSum[b] + PowerOf[{v}]
                        /\ rs.maj23 = NoVote
  <2>1. AddVote(vs, v, b) = ts /\ Added(vs, v, b)
    BY <1>3 DEF AddVote, Added
  <2>2. /\ ts \in VoteSets
        /\ ts.sum = rs.sum /\ ts.votesBitArray = rs.votesBitArray
        /\ ts.claimed = rs.claimed
        /\ ts.votesByBlock = [rs.votesByBlock EXCEPT ![b] = members]
        /\ ts.blockSum = [rs.blockSum EXCEPT ![b] = @ + PowerOf[{v}]]
        /\ ts.maj23 = IF first THEN b ELSE rs.maj23
        /\ ts.votes = IF first
                      THEN [u \in Validators |-> IF u \in members THEN b ELSE rs.votes[u]]
                      ELSE rs.votes
    BY <1>0, TalliedFacts
  <2> HIDE DEF rs, ts
  <2>3. Voters(rs) \subseteq Voters(ts)
    BY <2>2, VoteSetAssumption DEF Voters
  <2>. QED  BY <2>1, <2>2, <2>3, <1>0, <1>r
<1>. QED  BY <1>1, <1>2, <1>3

(* SetPeerMaj23 only adds to what is claimed. *)
LEMMA SetPeerMaj23IsGood ==
    ASSUME NEW vs, Good(vs), NEW p \in Peers, NEW b \in BlockIDs
    PROVE  Good(SetPeerMaj23(vs, p, b))
<1> DEFINE ms == SetPeerMaj23(vs, p, b)
<1>0. vs \in VoteSets
  BY DEF Good
<1>1. CASE vs.peerMaj23s[p] # NoVote
  BY <1>1 DEF SetPeerMaj23
<1>2. CASE vs.peerMaj23s[p] = NoVote
  <2>1. ms = [vs EXCEPT !.peerMaj23s[p] = b, !.claimed = @ \cup {b}]
    BY <1>2 DEF SetPeerMaj23
  <2>2. /\ [vs.peerMaj23s EXCEPT ![p] = b] \in [Peers -> BlockIDs \cup {NoVote}]
        /\ vs.claimed \cup {b} \in SUBSET BlockIDs
    BY <1>0 DEF VoteSets
  <2>3. ms \in VoteSets
    BY <1>0, <2>1, <2>2 DEF VoteSets
  <2>4. /\ ms.votes = vs.votes /\ ms.votesBitArray = vs.votesBitArray
        /\ ms.sum = vs.sum /\ ms.maj23 = vs.maj23
        /\ ms.votesByBlock = vs.votesByBlock /\ ms.blockSum = vs.blockSum
        /\ ms.claimed = vs.claimed \cup {b}
    BY <1>0, <2>1 DEF VoteSets
  <2> HIDE DEF ms
  <2>5. Voters(ms) = Voters(vs)
    BY <2>4 DEF Voters
  <2>6. Good(ms)
    BY <2>3, <2>4, <2>5
    DEF Good, CountsOnce, QuorumIsFound, IsCanonical, ConflictsClaimed
  <2>. QED  BY <2>6 DEF ms
<1>. QED  BY <1>1, <1>2
=============================================================================
