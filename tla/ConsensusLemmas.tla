-------------------------- MODULE ConsensusLemmas --------------------------
(***************************************************************************)
(* What the steps of Consensus up to the prepare vote keep true of their   *)
(* node, for any validators, powers, blocks, rounds and heights: the parts *)
(* of Sound, and what the votes it signs rest on.                          *)
(***************************************************************************)
EXTENDS Consensus, VoteSetLemmas, TLAPS

(* The queue with one message more. *)
LEMMA RangeAppend ==
    ASSUME NEW T, NEW q \in Seq(T), NEW m \in T
    PROVE  /\ Append(q, m) \in Seq(T)
           /\ Range(Append(q, m)) = Range(q) \cup {m}
<1>1. /\ Append(q, m) \in Seq(T) /\ Len(Append(q, m)) = Len(q) + 1 /\ Len(q) \in Nat
      /\ \A i \in 1..Len(q) : Append(q, m)[i] = q[i]
      /\ Append(q, m)[Len(q) + 1] = m
  OBVIOUS
<1>2. /\ DOMAIN q = 1..Len(q)
      /\ DOMAIN Append(q, m) = 1..(Len(q) + 1)
  BY <1>1
<1>3. 1..(Len(q) + 1) = 1..Len(q) \cup {Len(q) + 1}
  BY <1>1
<1> DEFINE a == Append(q, m)
<1> HIDE DEF a
<1>4. {a[i] : i \in 1..(Len(q) + 1)} = {q[i] : i \in 1..Len(q)} \cup {m}
  BY <1>1, <1>3 DEF a
<1>5. Range(a) = Range(q) \cup {m}
  BY <1>2, <1>4 DEF Range, a
<1>. QED  BY <1>1, <1>5 DEF a

(* The queue without its first message. *)
LEMMA RangeTail ==
    ASSUME NEW T, NEW q \in Seq(T), q # <<>>
    PROVE  /\ Tail(q) \in Seq(T) /\ Head(q) \in T
           /\ Range(q) = {Head(q)} \cup Range(Tail(q))
<1> DEFINE a == Tail(q)
<1>1. /\ a \in Seq(T) /\ Len(a) = Len(q) - 1 /\ Len(q) \in Nat \ {0}
      /\ \A i \in 1..Len(a) : a[i] = q[i + 1]
      /\ Head(q) = q[1] /\ q[1] \in T
  OBVIOUS
<1>2. DOMAIN q = 1..Len(q) /\ DOMAIN a = 1..Len(a)
  BY <1>1
<1> HIDE DEF a
<1>3. {q[i] : i \in 1..Len(q)} = {q[1]} \cup {a[i] : i \in 1..Len(a)}
  <2>1. ASSUME NEW i \in 1..Len(q), i # 1
        PROVE  i - 1 \in 1..Len(a) /\ a[i - 1] = q[i]
    BY <1>1, <2>1
  <2>2. \A i \in 1..Len(a) : i + 1 \in 1..Len(q)
    BY <1>1
  <2>. QED  BY <1>1, <2>1, <2>2
<1>4. Range(q) = {Head(q)} \cup Range(a)
  BY <1>1, <1>2, <1>3, Zenon DEF Range
<1>. QED  BY <1>1, <1>4 DEF a

(* Rounds are natural numbers. *)
LEMMA RoundsAreInts == Rounds \subseteq Nat /\ MaxRound \in Rounds /\ 0 \in Rounds
  BY RoundAssumption DEF Rounds

-----------------------------------------------------------------------------
(* A majority that a node has found was voted for by the correct members   *)
(* of a quorum.                                                            *)
LEMMA MajorityIsQuorum ==
    ASSUME NEW S, NEW cs, VotesOK(cs, S), NEW r \in Rounds, NEW t \in VoteTypes,
           Maj23(cs, r, t) # NoVote
    PROVE  /\ Maj23(cs, r, t) \in BlockIDs
           /\ QuorumIn(S, cs.Height, r, t, Maj23(cs, r, t))
<1> DEFINE vs == cs.Votes.sets[r][t]
           b  == vs.maj23
<1>1. /\ Good(vs)
      /\ \A c \in BlockIDs : \A u \in vs.votesByBlock[c] \cap Correct :
            SignedVote(cs.Height, u, r, t, c) \in S
  BY DEF VotesOK
<1>2. b # NoVote /\ b = Maj23(cs, r, t)
  BY DEF Maj23, getVoteSet
<1> HIDE DEF vs
<1>3. b \in BlockIDs /\ vs.votesByBlock[b] \in Quorums
  BY <1>1, <1>2 DEF Good, VoteSets, QuorumIsFound
<1>. QED  BY <1>1, <1>2, <1>3 DEF QuorumIn

(* A block with a majority has passed ValidateBlock somewhere, so the      *)
(* panics of enterCommit and finalizeAppend are not reached.               *)
LEMMA MajorityIsValid ==
    ASSUME NEW S, SentOK(S), NEW cs, VotesOK(cs, S), NEW r \in Rounds, NEW t \in VoteTypes,
           Maj23(cs, r, t) \in Blocks
    PROVE  Maj23(cs, r, t) \in ValidBlocks
<1> DEFINE b == Maj23(cs, r, t)
<1>1. b # NoVote /\ b # Nil
  BY VoteSetAssumption DEF Blocks
<1>2. PICK Q \in Quorums : \A u \in Q \cap Correct : SignedVote(cs.Height, u, r, t, b) \in S
  BY <1>1, MajorityIsQuorum DEF QuorumIn
<1>3. CASE Q \cap Correct # {}
  <2>1. PICK u \in Q \cap Correct : SignedVote(cs.Height, u, r, t, b) \in S
    BY <1>2, <1>3
  <2>. QED  BY <1>1, <2>1 DEF SentOK, SignedVote
<1>4. CASE ValidBlocks = Blocks
  BY <1>4
<1>. QED  BY <1>3, <1>4, ValidAssumption

(* A vote set with a majority has more than two thirds of the power in it. *)
LEMMA MajorityIsAny ==
    ASSUME NEW vs, Good(vs), vs.maj23 # NoVote
    PROVE  HasTwoThirdsAny(vs)
<1> DEFINE T == vs.votesByBlock[vs.maj23]
<1>1. vs.maj23 \in BlockIDs /\ T \in Quorums /\ T \subseteq Voters(vs) /\ vs.sum = PowerOf[Voters(vs)]
  BY DEF Good, VoteSets, QuorumIsFound, IsCanonical, CountsOnce
<1>2. Voters(vs) \in SUBSET Validators
  BY DEF Voters
<1> HIDE DEF T
<1>3. PowerOf[T] <= PowerOf[Voters(vs)] /\ PowerOf[T] >= QuorumPower
  BY <1>1, <1>2, PowerMono DEF Quorums
<1>4. PowerOf[T] \in Nat /\ PowerOf[Voters(vs)] \in Nat
  BY <1>1, <1>2, PowerNat
<1>. QED  BY <1>1, <1>3, <1>4, PowerAssumption DEF HasTwoThirdsAny, QuorumPower, TwoThirds

-----------------------------------------------------------------------------
(* The vote sets of a height.                                              *)

Tracked(hvs, n) ==
    /\ \A r \in hvs.rounds : r <= n \/ \E p \in Peers : r \in Range(hvs.peerCatchupRounds[p])
    /\ \A p \in Peers : Len(hvs.peerCatchupRounds[p]) <= 2

(* us is hvs with a vote that was sent to AddHeightVote. *)
OneVoteMore(hvs, us, p, r, t, v, b, n) ==
    /\ us \in HeightVoteSets /\ us.round = hvs.round /\ Tracked(us, n)
    /\ \A q \in Rounds, s \in VoteTypes :
          \/ us.sets[q][s] = hvs.sets[q][s]
          \/ /\ q = r /\ s = t /\ (r \in hvs.rounds \/ Opens(hvs, p, r))
             /\ us.sets[q][s] = AddVote(hvs.sets[q][s], v, b)

(* A vote changes one vote set at most, by AddVote, and opens at most one  *)
(* round, within what its peer may open.                                   *)
LEMMA AddHeightVoteFacts ==
    ASSUME NEW hvs \in HeightVoteSets, NEW p \in Peers, NEW r \in Rounds, NEW t \in VoteTypes,
           NEW v \in Validators, NEW b \in BlockIDs, NEW n \in Int, Tracked(hvs, n),
           Good(hvs.sets[r][t])
    PROVE  OneVoteMore(hvs, AddHeightVote(hvs, p, r, t, v, b), p, r, t, v, b, n)
<1> DEFINE as == AddHeightVote(hvs, p, r, t, v, b)
           vs == AddVote(hvs.sets[r][t], v, b)
           C  == hvs.peerCatchupRounds
<1>0. /\ hvs.sets \in [Rounds -> [VoteTypes -> VoteSets]]
      /\ hvs.rounds \in SUBSET (-1..(MaxRound + 1))
      /\ C \in [Peers -> Seq(Rounds)]
      /\ Rounds \subseteq -1..(MaxRound + 1)
  BY RoundAssumption DEF HeightVoteSets, Rounds
<1>1. CASE r \notin hvs.rounds /\ ~Opens(hvs, p, r)
  BY <1>1 DEF AddHeightVote, OneVoteMore
<1>2. CASE r \in hvs.rounds \/ Opens(hvs, p, r)
  <2>1. vs \in VoteSets
    BY AddVoteIsGood DEF Good
  <2> HIDE DEF vs
  <2> DEFINE sets  == [hvs.sets EXCEPT ![r][t] = vs]
             opens == IF r \in hvs.rounds THEN C[p] ELSE Append(C[p], r)
             D     == [C EXCEPT ![p] = opens]
             R     == hvs.rounds \cup {r}
  <2>2. /\ sets \in [Rounds -> [VoteTypes -> VoteSets]]
        /\ \A q \in Rounds, s \in VoteTypes :
              sets[q][s] = IF q = r /\ s = t THEN vs ELSE hvs.sets[q][s]
    BY <1>0, <2>1
  <2>3. C[p] \in Seq(Rounds) /\ opens \in Seq(Rounds)
    BY <1>0
  <2>b. /\ Range(C[p]) \subseteq Range(opens)
        /\ r \notin hvs.rounds => r \in Range(opens)
    BY <2>3, RangeAppend
  <2>a. D \in [Peers -> Seq(Rounds)] /\ R \in SUBSET (-1..(MaxRound + 1))
    BY <1>0, <2>3
  <2>4. as = [hvs EXCEPT !.sets = sets, !.rounds = R, !.peerCatchupRounds = D]
    BY <1>2, <1>0 DEF AddHeightVote, HeightVoteSets, vs
  <2>5. Len(opens) <= 2
    <3>1. CASE r \in hvs.rounds
      BY <3>1 DEF Tracked
    <3>2. CASE r \notin hvs.rounds
      BY <3>2, <1>2, <2>3 DEF Opens
    <3>. QED  BY <3>1, <3>2
  <2> HIDE DEF sets, D, R, opens
  <2>6. as \in HeightVoteSets
    BY <2>2, <2>a, <2>4, Zenon DEF HeightVoteSets
  <2>7. as.round = hvs.round /\ as.sets = sets /\ as.rounds = R /\ as.peerCatchupRounds = D
    BY <2>4 DEF HeightVoteSets
  <2> HIDE DEF as
  <2>8. Tracked(as, n)
    <3>1. \A o \in Peers : D[o] = IF o = p THEN opens ELSE C[o]
      BY <1>0 DEF D
    <3>2. \A q \in R : q <= n \/ \E o \in Peers : q \in Range(D[o])
      <4> SUFFICES ASSUME NEW q \in R PROVE q <= n \/ \E o \in Peers : q \in Range(D[o])
        OBVIOUS
      <4>1. CASE q \in hvs.rounds
        <5>1. CASE q <= n
          BY <5>1
        <5>2. CASE \E o \in Peers : q \in Range(C[o])
          BY <5>2, <3>1, <2>b
        <5>. QED  BY <4>1, <5>1, <5>2 DEF Tracked
      <4>2. CASE q \notin hvs.rounds
        BY <4>2, <3>1, <2>b DEF R
      <4>. QED  BY <4>1, <4>2
    <3>3. \A o \in Peers : Len(D[o]) <= 2
      BY <3>1, <2>5 DEF Tracked
    <3>. QED  BY <2>7, <3>2, <3>3 DEF Tracked
  <2>9. \A q \in Rounds, s \in VoteTypes :
           as.sets[q][s] = IF q = r /\ s = t THEN vs ELSE hvs.sets[q][s]
    BY <2>2, <2>7
  <2>. QED  BY <1>2, <2>6, <2>7, <2>8, <2>9 DEF as, vs, OneVoteMore
<1>. QED  BY <1>1, <1>2

(* SetRound keeps the vote sets and opens rounds up to its own. *)
LEMMA SetRoundFacts ==
    ASSUME NEW hvs \in HeightVoteSets, NEW r \in 0..(MaxRound + 1), NEW n \in Int,
           Tracked(hvs, n), n <= r
    PROVE  /\ SetRound(hvs, r) \in HeightVoteSets
           /\ SetRound(hvs, r).round = r /\ SetRound(hvs, r).sets = hvs.sets
           /\ Tracked(SetRound(hvs, r), r)
<1> DEFINE as == SetRound(hvs, r)
           R  == hvs.rounds \cup ((hvs.round - 1)..r)
<1>1. hvs.round \in 0..(MaxRound + 1) /\ hvs.rounds \in SUBSET (-1..(MaxRound + 1))
  BY DEF HeightVoteSets
<1>2. R \in SUBSET (-1..(MaxRound + 1)) /\ r \in Int
  BY <1>1, RoundAssumption
<1>3. as = [hvs EXCEPT !.round = r, !.rounds = R]
  BY DEF SetRound
<1>4. \A q \in R : q \in hvs.rounds \/ q <= r
  BY <1>1, RoundAssumption
<1>5. \A q \in hvs.rounds : q <= n => q <= r
  BY <1>1, <1>2, RoundAssumption
<1> HIDE DEF R
<1>6. as \in HeightVoteSets
  BY <1>2, <1>3, Zenon DEF HeightVoteSets
<1>7. as.round = r /\ as.sets = hvs.sets /\ as.rounds = R
      /\ as.peerCatchupRounds = hvs.peerCatchupRounds
  BY <1>3 DEF HeightVoteSets
<1> HIDE DEF as
<1>8. Tracked(as, r)
  BY <1>4, <1>5, <1>7 DEF Tracked
<1>. QED  BY <1>6, <1>7, <1>8 DEF as

(* A claim of a peer leaves the votes and the majorities as they are. *)
LEMMA SetHeightPeerMaj23Facts ==
    ASSUME NEW hvs \in HeightVoteSets, NEW p \in Peers, NEW r \in Rounds, NEW t \in VoteTypes,
           NEW b \in BlockIDs, Good(hvs.sets[r][t])
    PROVE  /\ SetHeightPeerMaj23(hvs, p, r, t, b) \in HeightVoteSets
           /\ SetHeightPeerMaj23(hvs, p, r, t, b).round = hvs.round
           /\ SetHeightPeerMaj23(hvs, p, r, t, b).rounds = hvs.rounds
           /\ SetHeightPeerMaj23(hvs, p, r, t, b).peerCatchupRounds = hvs.peerCatchupRounds
           /\ \A q \in Rounds, s \in VoteTypes :
                 SetHeightPeerMaj23(hvs, p, r, t, b).sets[q][s]
                    = IF q = r /\ s = t /\ r \in hvs.rounds
                      THEN SetPeerMaj23(hvs.sets[q][s], p, b) ELSE hvs.sets[q][s]
<1> DEFINE as == SetHeightPeerMaj23(hvs, p, r, t, b)
           vs == SetPeerMaj23(hvs.sets[r][t], p, b)
<1>1. CASE r \notin hvs.rounds
  BY <1>1 DEF SetHeightPeerMaj23
<1>2. CASE r \in hvs.rounds
  <2>0. hvs.sets \in [Rounds -> [VoteTypes -> VoteSets]]
    BY DEF HeightVoteSets
  <2>1. vs \in VoteSets
    BY SetPeerMaj23IsGood DEF Good
  <2> HIDE DEF vs
  <2> DEFINE sets == [hvs.sets EXCEPT ![r][t] = vs]
  <2>2. /\ sets \in [Rounds -> [VoteTypes -> VoteSets]]
        /\ \A q \in Rounds, s \in VoteTypes :
              sets[q][s] = IF q = r /\ s = t THEN vs ELSE hvs.sets[q][s]
    BY <2>0, <2>1
  <2>4. as = [hvs EXCEPT !.sets = sets]
    BY <1>2, <2>0 DEF SetHeightPeerMaj23, HeightVoteSets, vs
  <2> HIDE DEF sets
  <2>5. as \in HeightVoteSets
    BY <2>2, <2>4, Zenon DEF HeightVoteSets
  <2>6. /\ as.round = hvs.round /\ as.sets = sets /\ as.rounds = hvs.rounds
        /\ as.peerCatchupRounds = hvs.peerCatchupRounds
    BY <2>4 DEF HeightVoteSets
  <2> HIDE DEF as
  <2>7. \A q \in Rounds, s \in VoteTypes :
           as.sets[q][s] = IF q = r /\ s = t THEN vs ELSE hvs.sets[q][s]
    BY <2>2, <2>6
  <2>. QED  BY <1>2, <2>5, <2>6, <2>7 DEF as, vs
<1>. QED  BY <1>1, <1>2

-----------------------------------------------------------------------------
(* What a handler may do to its node.                                      *)

(* The votes in the queue that are not among the messages S. *)
FreshVotes(cs, S) == {m \in Range(cs.internalMsgQueue) : m.kind = "vote" /\ m \notin S}

VotesOf(u, h, S) == {n \in S : n.kind = "vote" /\ n.by = u /\ n.height = h}

(* A vote obeys the rules of Voting after the messages S: it comes after   *)
(* the others of its signer, a prepare against a commit rests on a later   *)
(* majority, and a commit for a block on a majority of its round.          *)
Obeys(m, S) ==
    /\ \A n \in VotesOf(m.by, m.height, S) :
          n.round < m.round \/ (n.round = m.round /\ n.type = "prepare" /\ m.type = "commit")
    /\ CommitsBlock(m) => QuorumIn(S, m.height, m.round, "prepare", m.val)
    /\ IsPrepare(m) =>
          \A n \in VotesOf(m.by, m.height, S) :
             CommitsBlock(n) /\ n.val # m.val /\ n.round < m.round =>
                \E s \in Rounds, y \in BlockIDs : /\ n.round < s /\ s <= m.round /\ y # n.val
                                                  /\ QuorumIn(S, n.height, s, "prepare", y)

FreshOK(cs, S) ==
    \A m \in FreshVotes(cs, S) :
       /\ Obeys(m, S)
       /\ \A n \in FreshVotes(cs, S) : n.height = m.height /\ n.round = m.round

InRound(cs, S) == \A m \in FreshVotes(cs, S) : m.height = cs.Height /\ m.round = cs.Round

Ready(cs, S) == Sound(cs, S) /\ FreshOK(cs, S) /\ Held(cs)

(* The height goes on: nothing goes back, no vote is lost and no majority  *)
(* changes.                                                                *)
Onward(cs, ds) ==
    /\ ds.addr = cs.addr /\ ds.Height = cs.Height /\ ds.chain = cs.chain
    /\ cs.Round < ds.Round \/ (cs.Round = ds.Round /\ cs.Step <= ds.Step)
    /\ \A r \in Rounds, t \in VoteTypes :
          /\ Voters(cs.Votes.sets[r][t]) \subseteq Voters(ds.Votes.sets[r][t])
          /\ Maj23(cs, r, t) # NoVote => Maj23(ds, r, t) = Maj23(cs, r, t)

(* A lock is only given up for a later majority. *)
LockKept(cs, ds) ==
    \/ cs.LockedBlock = None
    \/ cs.LockedBlock = ds.LockedBlock /\ cs.LockedRound <= ds.LockedRound
    \/ \E s \in Rounds : /\ cs.LockedRound < s /\ s <= ds.Round
                         /\ Maj23(ds, s, "prepare") \notin {NoVote, cs.LockedBlock}

(* x is signed on the way from cs to ds. *)
Signs(cs, ds, x) ==
    /\ x \in Message /\ x.by = cs.addr /\ x.height = cs.Height
    /\ ds.internalMsgQueue = Append(cs.internalMsgQueue, x)
    /\ x.kind # "part" => /\ x.round = ds.Round /\ StepOf(x) <= ds.Step
                          /\ cs.Round = ds.Round => cs.Step < StepOf(x)
    /\ x.kind = "vote" => x.val \in ValidBlocks \cup {Nil}
    /\ IsPrepare(x) => cs.LockedBlock \in {None, x.val}
    /\ CommitsBlock(x) => /\ Maj23(ds, x.round, "prepare") = x.val
                          /\ ds.LockedBlock = x.val /\ ds.LockedRound = x.round
    /\ x.kind = "pre_prepare" /\ x.polRound >= 0 => Maj23(ds, x.polRound, "prepare") = x.block

(* The types of the fields of a message. *)
LEMMA MessageFacts ==
    ASSUME NEW m \in Message
    PROVE  /\ m.kind \in {"pre_prepare", "part", "vote"}
           /\ m.height \in Nat /\ m.height \in Heights /\ m.by \in Validators
           /\ m.kind # "part" => m.round \in Rounds /\ m.round \in Nat /\ StepOf(m) \in 3..6
           /\ m.kind = "vote" => m \in VoteMessage /\ m.type \in VoteTypes /\ m.val \in BlockIDs
           /\ m.kind = "pre_prepare" => m.polRound \in Rounds \cup {-1} /\ m.block \in Blocks
           /\ m.kind = "part" => m.block \in Blocks
<1>0. Heights \subseteq Nat /\ Rounds \subseteq Nat
  BY RoundsAreInts, ConsensusAssumption DEF Heights
<1>1. CASE m \in PrePrepareMessage
  <2>1. m.kind = "pre_prepare" /\ m.height \in Heights /\ m.round \in Rounds /\ m.by \in Validators
        /\ m.polRound \in Rounds \cup {-1} /\ m.block \in Blocks
    BY <1>1 DEF PrePrepareMessage
  <2>2. StepOf(m) = 3
    BY <2>1 DEF StepOf, RoundStepPrePrepare
  <2>3. m.height \in Nat /\ m.round \in Nat
    BY <1>0, <2>1, Zenon
  <2>4. StepOf(m) \in 3..6
    BY <2>2
  <2>. QED  BY <2>1, <2>3, <2>4
<1>2. CASE m \in BlockPartMessage
  BY <1>0, <1>2, Zenon DEF BlockPartMessage
<1>3. CASE m \in VoteMessage
  <2>1. /\ m.kind = "vote" /\ m.height \in Heights /\ m.round \in Rounds /\ m.by \in Validators
        /\ m.type \in VoteTypes /\ m.val \in BlockIDs
    BY <1>3 DEF VoteMessage
  <2>2. StepOf(m) \in {4, 6}
    BY <2>1 DEF StepOf, RoundStepPrepare, RoundStepCommit
  <2>3. m.height \in Nat /\ m.round \in Nat
    BY <1>0, <2>1, Zenon
  <2>4. StepOf(m) \in 3..6
    BY <2>2
  <2>. QED  BY <1>3, <2>1, <2>3, <2>4
<1>. QED  BY <1>1, <1>2, <1>3 DEF Message

(* The fields the lemmas below compare. *)
LEMMA StateFacts ==
    ASSUME NEW cs \in RoundState
    PROVE  /\ cs.Height \in Nat /\ cs.Height \in Heights /\ cs.addr \in Correct
           /\ cs.Round \in Rounds /\ cs.Round \in Nat /\ cs.Step \in 1..8 /\ cs.Step \in Nat
           /\ cs.LockedRound \in Int /\ cs.ValidRound \in Int
           /\ cs.LockedBlock \in Blocks \cup {None} /\ cs.ValidBlock \in Blocks \cup {None}
           /\ cs.LockedRound \in Rounds \cup {-1} /\ cs.ValidRound \in Rounds \cup {-1}
           /\ cs.Votes \in HeightVoteSets /\ cs.internalMsgQueue \in Seq(Message)
<1>0. Heights \subseteq Nat /\ Rounds \subseteq Nat
  BY RoundsAreInts, ConsensusAssumption DEF Heights
<1>1. /\ cs.Height \in Heights /\ cs.addr \in Correct /\ cs.Round \in Rounds
      /\ cs.Step \in RoundStepNewHeight..RoundStepReply
      /\ cs.LockedBlock \in Blocks \cup {None} /\ cs.ValidBlock \in Blocks \cup {None}
      /\ cs.LockedRound \in Rounds \cup {-1} /\ cs.ValidRound \in Rounds \cup {-1}
      /\ cs.Votes \in HeightVoteSets /\ cs.internalMsgQueue \in Seq(Message)
  BY DEF RoundState, Nilable, RoundOrNone
<1>2. cs.Step \in 1..8 /\ cs.Step \in Nat
  BY <1>1 DEF RoundStepNewHeight, RoundStepReply
<1>3. \A r \in Rounds \cup {-1} : r \in Int
  BY <1>0
<1>. QED  BY <1>0, <1>1, <1>2, <1>3, Zenon

(* None, no vote and nil are no blocks. *)
LEMMA NotBlocks == None \notin Blocks /\ NoVote \notin Blocks /\ Nil \notin Blocks
                   /\ Blocks \subseteq BlockIDs /\ Nil \in BlockIDs /\ None \notin BlockIDs
                   /\ NoVote \notin BlockIDs /\ ValidBlocks \subseteq Blocks /\ NoVote # Nil
  BY VoteSetAssumption, ConsensusAssumption, NilAssumption DEF Blocks

(* The messages of a node are messages. *)
LEMMA MineFacts ==
    ASSUME NEW S, SentOK(S), NEW cs, SignedOK(cs, S)
    PROVE  Mine(cs, S) \subseteq Message /\ Own(cs, S) \subseteq Mine(cs, S)
  BY DEF SentOK, SignedOK, Mine, Own

(* What overtakes a commit goes on doing so. *)
LEMMA OvertakenGoesOn ==
    ASSUME NEW cs \in RoundState, NEW ds \in RoundState, Onward(cs, ds), NEW m,
           NEW q \in Rounds, NEW p \in Rounds, q <= p, Overtaken(cs, m, q)
    PROVE  Overtaken(ds, m, p)
<1>1. PICK s \in Rounds : /\ m.round < s /\ s <= q
                          /\ Maj23(cs, s, "prepare") \notin {NoVote, m.val}
  BY DEF Overtaken
<1>2. Maj23(ds, s, "prepare") \notin {NoVote, m.val}
  BY <1>1 DEF Onward, VoteTypes
<1>3. s <= p
  BY <1>1, RoundsAreInts
<1>. QED  BY <1>1, <1>2, <1>3 DEF Overtaken

(* A lock on the block of a commit stays one, or is overtaken. *)
LEMMA LockGoesOn ==
    ASSUME NEW cs \in RoundState, NEW ds \in RoundState, Onward(cs, ds), LockKept(cs, ds),
           NEW m \in Message, CommitsBlock(m),
           \/ cs.LockedBlock = m.val /\ m.round <= cs.LockedRound
           \/ Overtaken(cs, m, cs.Round)
    PROVE  \/ ds.LockedBlock = m.val /\ m.round <= ds.LockedRound
           \/ Overtaken(ds, m, ds.Round)
<1>0. /\ m.round \in Nat /\ m.val # None
      /\ cs.LockedRound \in Int /\ ds.LockedRound \in Int /\ cs.Round \in Rounds /\ ds.Round \in Rounds
  BY MessageFacts, StateFacts, NotBlocks DEF CommitsBlock
<1>1. CASE Overtaken(cs, m, cs.Round)
  <2>0. cs.Round < ds.Round \/ cs.Round = ds.Round
    BY DEF Onward
  <2>1. cs.Round <= ds.Round
    BY <2>0, StateFacts
  <2>. QED  BY <1>0, <1>1, <2>1, OvertakenGoesOn
<1>2. CASE cs.LockedBlock = m.val /\ m.round <= cs.LockedRound
  <2>1. CASE cs.LockedBlock = ds.LockedBlock /\ cs.LockedRound <= ds.LockedRound
    <3>1. m.round <= ds.LockedRound
      BY <1>0, <1>2, <2>1
    <3>. QED  BY <1>2, <2>1, <3>1
  <2>2. CASE \E s \in Rounds : /\ cs.LockedRound < s /\ s <= ds.Round
                               /\ Maj23(ds, s, "prepare") \notin {NoVote, cs.LockedBlock}
    <3>1. PICK s \in Rounds : /\ cs.LockedRound < s /\ s <= ds.Round
                              /\ Maj23(ds, s, "prepare") \notin {NoVote, cs.LockedBlock}
      BY <2>2
    <3>2. m.round < s
      BY <1>0, <1>2, <3>1, RoundsAreInts
    <3>. QED  BY <1>2, <3>1, <3>2 DEF Overtaken
  <2>. QED  BY <1>0, <1>2, <2>1, <2>2 DEF LockKept
<1>. QED  BY <1>1, <1>2

(* A change of the node that signs nothing. *)
LEMMA GoesOn ==
    ASSUME NEW S, SentOK(S), NEW cs, Sound(cs, S), FreshOK(cs, S),
           NEW ds \in RoundState, ~ds.panicked, Onward(cs, ds), LockKept(cs, ds),
           VotesOK(ds, S), LockOK(ds), ds.internalMsgQueue = cs.internalMsgQueue
    PROVE  /\ Sound(ds, S) /\ FreshOK(ds, S)
           /\ FreshVotes(ds, S) = FreshVotes(cs, S)
<1>0. /\ cs \in RoundState /\ SignedOK(cs, S) /\ PolkasOK(cs, S) /\ ChainOK(cs, S)
      /\ ds.addr = cs.addr /\ ds.Height = cs.Height /\ ds.chain = cs.chain
  BY DEF Sound, Onward
<1>1. /\ Mine(ds, S) = Mine(cs, S) /\ Own(ds, S) = Own(cs, S)
      /\ FreshVotes(ds, S) = FreshVotes(cs, S)
  BY <1>0 DEF Mine, Own, FreshVotes
<1>2. FreshOK(ds, S)
  BY <1>1 DEF FreshOK
<1>3. Own(cs, S) \subseteq Message /\ Own(cs, S) \subseteq Mine(cs, S)
  BY <1>0, MineFacts, Zenon
<1>4. SignedOK(ds, S)
  <2>1. ASSUME NEW m \in Own(cs, S), m.kind # "part"
        PROVE  m.round < ds.Round \/ (m.round = ds.Round /\ StepOf(m) <= ds.Step)
    <3>1. m.round < cs.Round \/ (m.round = cs.Round /\ StepOf(m) <= cs.Step)
      BY <1>0, <2>1, Zenon DEF SignedOK
    <3>2. /\ m.round \in Nat /\ StepOf(m) \in 3..6 /\ cs.Round \in Nat /\ ds.Round \in Nat
          /\ cs.Step \in Nat /\ ds.Step \in Nat
      BY <1>0, <1>3, <2>1, MessageFacts, StateFacts
    <3>3. cs.Round < ds.Round \/ (cs.Round = ds.Round /\ cs.Step <= ds.Step)
      BY Zenon DEF Onward
    <3>. QED  BY <3>1, <3>2, <3>3, SMTT(30)
  <2>. QED  BY <1>0, <1>1, <2>1 DEF SignedOK
<1>5. PolkasOK(ds, S)
  <2>1. ASSUME NEW m \in Own(cs, S), CommitsBlock(m)
        PROVE  /\ Maj23(ds, m.round, "prepare") = m.val
               /\ \/ ds.LockedBlock = m.val /\ m.round <= ds.LockedRound
                  \/ Overtaken(ds, m, ds.Round)
               /\ \A n \in Own(cs, S) :
                     IsPrepare(n) /\ n.val # m.val /\ m.round < n.round => Overtaken(ds, m, n.round)
    <3>1. m.round \in Rounds /\ m.val # NoVote
      BY <1>3, <2>1, MessageFacts, NotBlocks, Zenon DEF CommitsBlock
    <3>2. Maj23(ds, m.round, "prepare") = m.val
      BY <1>0, <2>1, <3>1, Zenon DEF PolkasOK, Onward, VoteTypes
    <3>3. \/ ds.LockedBlock = m.val /\ m.round <= ds.LockedRound
          \/ Overtaken(ds, m, ds.Round)
      BY <1>0, <1>3, <2>1, LockGoesOn DEF PolkasOK
    <3>4. ASSUME NEW n \in Own(cs, S), IsPrepare(n), n.val # m.val, m.round < n.round
          PROVE  Overtaken(ds, m, n.round)
      <4>1. n.round \in Rounds /\ n.round <= n.round
        BY <1>3, <3>4, MessageFacts, SMTT(30) DEF IsPrepare
      <4>2. Overtaken(cs, m, n.round)
        BY <1>0, <2>1, <3>4 DEF PolkasOK
      <4>. QED  BY <1>0, <4>1, <4>2, OvertakenGoesOn, Zenon
    <3>. QED  BY <3>2, <3>3, <3>4
  <2>2. ASSUME NEW m \in Own(cs, S), m.kind = "pre_prepare", m.polRound >= 0
        PROVE  Maj23(ds, m.polRound, "prepare") = m.block
    <3>1. m.polRound \in Rounds \cup {-1} /\ m.block # NoVote
      BY <1>3, <2>2, MessageFacts, NotBlocks, Zenon
    <3>2. m.polRound \in Rounds
      BY <2>2, <3>1
    <3>. QED  BY <1>0, <2>2, <3>1, <3>2, Zenon DEF PolkasOK, Onward, VoteTypes
  <2>. QED  BY <1>1, <2>1, <2>2, Zenon DEF PolkasOK
<1>6. ChainOK(ds, S)
  BY <1>0 DEF ChainOK
<1>. QED  BY <1>1, <1>2, <1>4, <1>5, <1>6 DEF Sound

(* The new message is the only one in its slot, and the last of the node. *)
LEMMA SignsLast ==
    ASSUME NEW S, SentOK(S), NEW cs \in RoundState, SignedOK(cs, S), NEW ds \in RoundState,
           Onward(cs, ds), NEW x, Signs(cs, ds, x), NEW n \in Own(cs, S),
           n.kind # "part", x.kind # "part"
    PROVE  n.round < x.round \/ (n.round = x.round /\ StepOf(n) < StepOf(x))
<1>1. n \in Message /\ x \in Message
  BY MineFacts DEF Signs
<1>2. /\ n.round \in Nat /\ x.round \in Nat /\ StepOf(n) \in 3..6 /\ StepOf(x) \in 3..6
      /\ cs.Round \in Nat /\ ds.Round \in Nat /\ cs.Step \in Nat /\ ds.Step \in Nat
  BY <1>1, MessageFacts, StateFacts, Zenon
<1>3. n.round < cs.Round \/ (n.round = cs.Round /\ StepOf(n) <= cs.Step)
  BY DEF SignedOK
<1>4. cs.Round < ds.Round \/ cs.Round = ds.Round
  BY DEF Onward
<1>5. x.round = ds.Round /\ (cs.Round = ds.Round => cs.Step < StepOf(x))
  BY DEF Signs
<1>. QED  BY <1>2, <1>3, <1>4, <1>5

(* The two votes of a round come in order. *)
LEMMA StepOfVote ==
    ASSUME NEW m \in Message, m.kind = "vote"
    PROVE  StepOf(m) = IF m.type = "prepare" THEN 4 ELSE 6
  BY DEF StepOf, RoundStepPrepare, RoundStepCommit

(* Messages in one slot are of one step. *)
LEMMA SlotStep ==
    ASSUME NEW m \in Message, NEW n \in Message, SameSlot(m, n)
    PROVE  StepOf(m) = StepOf(n) /\ m.kind # "part" /\ n.kind # "part"
  BY MessageFacts, Zenon DEF SameSlot, StepOf

(* The messages of the node are the old ones and the new one. *)
LEMMA SignsOwn ==
    ASSUME NEW S, SentOK(S), NEW cs \in RoundState, SignedOK(cs, S), NEW ds,
           Onward(cs, ds), NEW x, Signs(cs, ds, x)
    PROVE  /\ Range(ds.internalMsgQueue) = Range(cs.internalMsgQueue) \cup {x}
           /\ Mine(ds, S) = Mine(cs, S) \cup {x} /\ Own(ds, S) = Own(cs, S) \cup {x}
           /\ FreshVotes(ds, S) = FreshVotes(cs, S) \cup (IF x.kind = "vote" /\ x \notin S
                                                          THEN {x} ELSE {})
<1>1. /\ x \in Message /\ x.by = cs.addr /\ x.height = cs.Height
      /\ ds.internalMsgQueue = Append(cs.internalMsgQueue, x)
      /\ ds.addr = cs.addr /\ ds.Height = cs.Height
      /\ cs.internalMsgQueue \in Seq(Message)
  BY StateFacts DEF Signs, Onward
<1>2. Range(ds.internalMsgQueue) = Range(cs.internalMsgQueue) \cup {x}
  BY <1>1, RangeAppend, SMTT(30)
<1>. QED  BY <1>1, <1>2, Zenon DEF Mine, Own, FreshVotes

(* A signature after the node has moved on takes a new place. *)
LEMMA SignsOnceMore ==
    ASSUME NEW S, SentOK(S), NEW cs \in RoundState, SignedOK(cs, S), NEW ds \in RoundState,
           Onward(cs, ds), NEW x, Signs(cs, ds, x)
    PROVE  SignedOK(ds, S)
<1>0. /\ x \in Message /\ x.by = cs.addr /\ x.height = cs.Height
      /\ x.kind = "vote" => x.val \in ValidBlocks \cup {Nil}
      /\ x.kind # "part" => x.round = ds.Round /\ StepOf(x) <= ds.Step
      /\ ds.addr = cs.addr /\ ds.Height = cs.Height
  BY DEF Signs, Onward
<1>1. /\ Range(ds.internalMsgQueue) = Range(cs.internalMsgQueue) \cup {x}
      /\ Mine(ds, S) = Mine(cs, S) \cup {x} /\ Own(ds, S) = Own(cs, S) \cup {x}
  BY SignsOwn
<1>2. Mine(cs, S) \subseteq Message /\ Own(cs, S) \subseteq Mine(cs, S)
  BY MineFacts
<1>3. \A m \in Range(ds.internalMsgQueue) : m \in Message /\ m.by = ds.addr
  BY <1>0, <1>1, Zenon DEF SignedOK
<1>4. \A m \in Mine(ds, S) : /\ m.height <= ds.Height
                             /\ m.kind = "vote" => m.val \in ValidBlocks \cup {Nil}
  <2>1. x.height <= ds.Height
    BY <1>0, StateFacts
  <2>. QED  BY <1>0, <1>1, <2>1, Zenon DEF SignedOK
<1>5. ASSUME NEW m \in Own(ds, S), m.kind # "part"
      PROVE  m.round < ds.Round \/ (m.round = ds.Round /\ StepOf(m) <= ds.Step)
  <2>1. CASE m = x
    BY <1>0, <1>5, <2>1
  <2>2. CASE m \in Own(cs, S)
    <3>1. m.round < cs.Round \/ (m.round = cs.Round /\ StepOf(m) <= cs.Step)
      BY <1>5, <2>2, Zenon DEF SignedOK
    <3>2. /\ m.round \in Nat /\ StepOf(m) \in 3..6 /\ cs.Round \in Nat /\ ds.Round \in Nat
          /\ cs.Step \in Nat /\ ds.Step \in Nat
      BY <1>2, <1>5, <2>2, MessageFacts, StateFacts
    <3>3. cs.Round < ds.Round \/ (cs.Round = ds.Round /\ cs.Step <= ds.Step)
      BY DEF Onward
    <3>. QED  BY <3>1, <3>2, <3>3
  <2>. QED  BY <1>1, <2>1, <2>2
<1>6. ASSUME NEW n \in Mine(cs, S), SameSlot(n, x) \/ SameSlot(x, n)
      PROVE  FALSE
  <2>1. /\ n \in Own(cs, S) /\ n.round = x.round /\ n.kind # "part" /\ x.kind # "part"
        /\ StepOf(n) = StepOf(x) /\ n \in Message
    BY <1>0, <1>2, <1>6, SlotStep DEF SameSlot, Own
  <2>2. n.round \in Nat /\ StepOf(n) \in 3..6
    BY <2>1, MessageFacts
  <2>3. n.round < x.round \/ (n.round = x.round /\ StepOf(n) < StepOf(x))
    BY <2>1, SignsLast, Zenon
  <2>. QED  BY <2>1, <2>2, <2>3, SMTT(30)
<1>7. \A m, n \in Mine(ds, S) : SameSlot(m, n) => m = n
  BY <1>1, <1>6 DEF SignedOK
<1>. QED  BY <1>3, <1>4, <1>5, <1>7, Zenon DEF SignedOK

(* The lock rule, when x is signed. *)
LEMMA SignsPolkas ==
    ASSUME NEW S, SentOK(S), NEW cs \in RoundState, SignedOK(cs, S), PolkasOK(cs, S),
           NEW ds \in RoundState, Onward(cs, ds), LockKept(cs, ds), NEW x, Signs(cs, ds, x)
    PROVE  PolkasOK(ds, S)
<1>0. x \in Message /\ (x.kind # "part" => x.round = ds.Round)
  BY DEF Signs
<1>1. Own(ds, S) = Own(cs, S) \cup {x}
  BY SignsOwn
<1>2. Own(cs, S) \subseteq Message /\ Own(cs, S) \subseteq Mine(cs, S)
  BY MineFacts, Zenon
<1>3. ASSUME NEW m \in Own(cs, S), CommitsBlock(m)
      PROVE  /\ Maj23(ds, m.round, "prepare") = m.val
             /\ \/ ds.LockedBlock = m.val /\ m.round <= ds.LockedRound
                \/ Overtaken(ds, m, ds.Round)
             /\ \A n \in Own(ds, S) :
                   IsPrepare(n) /\ n.val # m.val /\ m.round < n.round => Overtaken(ds, m, n.round)
  <2>1. m.round \in Rounds /\ m.val # NoVote /\ m.val # None
    BY <1>2, <1>3, MessageFacts, NotBlocks, Zenon DEF CommitsBlock
  <2>2. Maj23(ds, m.round, "prepare") = m.val
    BY <1>3, <2>1, Zenon DEF PolkasOK, Onward, VoteTypes
  <2>3. \/ ds.LockedBlock = m.val /\ m.round <= ds.LockedRound
        \/ Overtaken(ds, m, ds.Round)
    BY <1>2, <1>3, LockGoesOn DEF PolkasOK
  <2>4. ASSUME NEW n \in Own(cs, S), IsPrepare(n), n.val # m.val, m.round < n.round
        PROVE  Overtaken(ds, m, n.round)
    <3>1. n.round \in Rounds /\ n.round <= n.round
      BY <1>2, <2>4, MessageFacts, SMTT(30) DEF IsPrepare
    <3>2. Overtaken(cs, m, n.round)
      BY <1>3, <2>4 DEF PolkasOK
    <3>. QED  BY <3>1, <3>2, OvertakenGoesOn
  <2>5. ASSUME IsPrepare(x), x.val # m.val
        PROVE  Overtaken(ds, m, x.round)
    <3>1. cs.LockedBlock # m.val
      BY <2>1, <2>5, Zenon DEF Signs
    <3>2. Overtaken(cs, m, cs.Round)
      BY <1>3, <3>1 DEF PolkasOK
    <3>3. cs.Round < ds.Round \/ cs.Round = ds.Round
      BY Zenon DEF Onward
    <3>4. cs.Round <= ds.Round
      BY <3>3, StateFacts, SMTT(30)
    <3>5. x.round = ds.Round /\ cs.Round \in Rounds /\ ds.Round \in Rounds
      BY <1>0, <2>5, StateFacts, Zenon DEF IsPrepare
    <3>. QED  BY <3>2, <3>4, <3>5, OvertakenGoesOn, Zenon
  <2>. QED  BY <1>1, <2>2, <2>3, <2>4, <2>5, Zenon
<1>4. ASSUME CommitsBlock(x)
      PROVE  /\ Maj23(ds, x.round, "prepare") = x.val
             /\ ds.LockedBlock = x.val /\ x.round <= ds.LockedRound
             /\ \A n \in Own(ds, S) :
                   IsPrepare(n) /\ n.val # x.val /\ x.round < n.round => Overtaken(ds, x, n.round)
  <2>1. /\ Maj23(ds, x.round, "prepare") = x.val
        /\ ds.LockedBlock = x.val /\ ds.LockedRound = x.round
    BY <1>4 DEF Signs
  <2>2. x.round \in Nat /\ x.kind = "vote"
    BY <1>0, <1>4, MessageFacts DEF CommitsBlock
  <2>3. ASSUME NEW n \in Own(cs, S), IsPrepare(n), x.round < n.round
        PROVE  FALSE
    <3>1. n.round < x.round \/ n.round = x.round
      BY <2>2, <2>3, SignsLast DEF IsPrepare
    <3>2. n.round \in Nat
      BY <1>2, <2>3, MessageFacts, Zenon DEF IsPrepare
    <3>. QED  BY <2>2, <2>3, <3>1, <3>2
  <2>4. x.round <= ds.LockedRound
    BY <2>1, <2>2
  <2>5. ~IsPrepare(x)
    BY <1>4 DEF IsPrepare, CommitsBlock
  <2>. QED  BY <1>1, <2>1, <2>3, <2>4, <2>5, Zenon
<1>5. ASSUME NEW m \in Own(ds, S), m.kind = "pre_prepare", m.polRound >= 0
      PROVE  Maj23(ds, m.polRound, "prepare") = m.block
  <2>1. CASE m = x
    BY <1>5, <2>1 DEF Signs
  <2>2. CASE m \in Own(cs, S)
    <3>1. m.polRound \in Rounds \cup {-1} /\ m.block # NoVote
      BY <1>2, <1>5, <2>2, MessageFacts, NotBlocks
    <3>2. m.polRound \in Rounds
      BY <1>5, <3>1
    <3>. QED  BY <1>5, <2>2, <3>1, <3>2, Zenon DEF PolkasOK, Onward, VoteTypes
  <2>. QED  BY <1>1, <2>1, <2>2, Zenon
<1>. QED  BY <1>1, <1>3, <1>4, <1>5, Zenon DEF PolkasOK

(* What is signed obeys Voting. *)
LEMMA SignsFresh ==
    ASSUME NEW S, SentOK(S), NEW cs \in RoundState, SignedOK(cs, S), PolkasOK(cs, S),
           NEW ds \in RoundState, Onward(cs, ds), LockKept(cs, ds), VotesOK(ds, S),
           NEW x, Signs(cs, ds, x), x.kind = "vote"
    PROVE  Obeys(x, S)
<1>0. /\ x \in Message /\ x.by = cs.addr /\ x.height = cs.Height /\ x.round = ds.Round
      /\ ds.Height = cs.Height
  BY DEF Signs, Onward
<1>1. Own(cs, S) \subseteq Message /\ PolkasOK(ds, S)
  BY MineFacts, SignsPolkas, Zenon
<1>2. VotesOf(x.by, x.height, S) \subseteq Own(cs, S)
  BY <1>0 DEF VotesOf, Own, Mine
<1>3. ASSUME NEW n \in VotesOf(x.by, x.height, S)
      PROVE  n.round < x.round \/ (n.round = x.round /\ n.type = "prepare" /\ x.type = "commit")
  <2>1. n.kind = "vote" /\ n \in Own(cs, S) /\ n \in Message
    BY <1>1, <1>2 DEF VotesOf
  <2>2. n.round < x.round \/ (n.round = x.round /\ StepOf(n) < StepOf(x))
    BY <2>1, SignsLast, Zenon
  <2>3. /\ StepOf(n) = IF n.type = "prepare" THEN 4 ELSE 6
        /\ StepOf(x) = IF x.type = "prepare" THEN 4 ELSE 6
        /\ n.type \in {"prepare", "commit"} /\ x.type \in {"prepare", "commit"}
    BY <1>0, <2>1, StepOfVote, MessageFacts, Zenon DEF VoteTypes
  <2>. QED  BY <2>2, <2>3, SMTT(30)
<1>4. ASSUME CommitsBlock(x)
      PROVE  QuorumIn(S, x.height, x.round, "prepare", x.val)
  <2>1. Maj23(ds, x.round, "prepare") = x.val /\ x.val # NoVote /\ x.round \in Rounds
    BY <1>0, <1>4, MessageFacts, NotBlocks, Zenon DEF Signs
  <2>. QED  BY <1>0, <2>1, MajorityIsQuorum DEF VoteTypes
<1>5. ASSUME IsPrepare(x), NEW n \in VotesOf(x.by, x.height, S),
             CommitsBlock(n), n.val # x.val, n.round < x.round
      PROVE  \E s \in Rounds, y \in BlockIDs : /\ n.round < s /\ s <= x.round /\ y # n.val
                                               /\ QuorumIn(S, n.height, s, "prepare", y)
  <2>1. n.height = ds.Height
    BY <1>0 DEF VotesOf
  <2>2. Overtaken(ds, n, x.round)
    <3>1. n \in Own(ds, S) /\ x \in Own(ds, S)
      BY <1>2, SignsOwn
    <3>. QED  BY <1>1, <1>5, <3>1, Zenon DEF PolkasOK
  <2>3. PICK s \in Rounds : /\ n.round < s /\ s <= x.round
                            /\ Maj23(ds, s, "prepare") \notin {NoVote, n.val}
    BY <2>2 DEF Overtaken
  <2>4. /\ Maj23(ds, s, "prepare") \in BlockIDs
        /\ QuorumIn(S, ds.Height, s, "prepare", Maj23(ds, s, "prepare"))
    BY <2>3, MajorityIsQuorum DEF VoteTypes
  <2>. QED  BY <2>1, <2>3, <2>4, Zenon
<1>. QED  BY <1>3, <1>4, <1>5, Zenon DEF Obeys

(* A change of the node that signs one message. *)
LEMMA GoesOnSigning ==
    ASSUME NEW S, SentOK(S), NEW cs, Sound(cs, S), FreshOK(cs, S),
           NEW ds \in RoundState, ~ds.panicked, Onward(cs, ds), LockKept(cs, ds),
           VotesOK(ds, S), LockOK(ds), cs.Round = ds.Round, NEW x, Signs(cs, ds, x),
           InRound(cs, S) \/ x.kind # "vote"
    PROVE  Sound(ds, S) /\ FreshOK(ds, S) /\ (InRound(cs, S) => InRound(ds, S))
<1>0. /\ cs \in RoundState /\ SignedOK(cs, S) /\ PolkasOK(cs, S) /\ ChainOK(cs, S)
      /\ ds.Height = cs.Height /\ ds.chain = cs.chain
      /\ x.height = cs.Height /\ (x.kind = "vote" => x.round = ds.Round)
  BY Zenon DEF Sound, Onward, Signs
<1>1. SignedOK(ds, S) /\ PolkasOK(ds, S) /\ ChainOK(ds, S)
  BY <1>0, SignsOnceMore, SignsPolkas, ZenonT(30) DEF ChainOK
<1>2. FreshVotes(ds, S) = FreshVotes(cs, S) \cup (IF x.kind = "vote" /\ x \notin S
                                                  THEN {x} ELSE {})
  BY <1>0, SignsOwn, SMTT(30)
<1>3. InRound(cs, S) => InRound(ds, S)
  BY <1>0, <1>2, Zenon DEF InRound
<1>4. x.kind = "vote" => Obeys(x, S)
  BY <1>0, SignsFresh, Zenon
<1>5. FreshOK(ds, S)
  BY <1>2, <1>3, <1>4 DEF FreshOK, InRound
<1>. QED  BY <1>1, <1>3, <1>5 DEF Sound

-----------------------------------------------------------------------------
(* What the parts of the handlers change.                                  *)

(* The fields of the height. *)
Frame(cs, ds) ==
    /\ ds.addr = cs.addr /\ ds.Height = cs.Height /\ ds.Votes = cs.Votes
    /\ ds.LastCommits = cs.LastCommits /\ ds.LastReplyRound = cs.LastReplyRound
    /\ ds.chain = cs.chain /\ ds.panicked = cs.panicked

(* What the node knows of the proposal and the blocks with a majority. *)
Rest(cs, ds) ==
    /\ Frame(cs, ds)
    /\ ds.PrePrepare = cs.PrePrepare /\ ds.PrePrepareBlock = cs.PrePrepareBlock
    /\ ds.PrePrepareBlockParts = cs.PrePrepareBlockParts
    /\ ds.LockedRound = cs.LockedRound /\ ds.LockedBlock = cs.LockedBlock
    /\ ds.ValidRound = cs.ValidRound /\ ds.ValidBlock = cs.ValidBlock
    /\ ds.ReplyRound = cs.ReplyRound

(* sendInternalMessage leaves a round state. *)
LEMMA SendType ==
    ASSUME NEW cs \in RoundState, NEW m \in Message
    PROVE  sendInternalMessage(cs, m) \in RoundState
<1>1. Append(cs.internalMsgQueue, m) \in Seq(Message)
  BY DEF RoundState
<1>. QED  BY <1>1, Zenon DEF sendInternalMessage, RoundState

(* sendInternalMessage changes the queue alone. *)
LEMMA SendFacts ==
    ASSUME NEW cs \in RoundState, NEW m
    PROVE  /\ Rest(cs, sendInternalMessage(cs, m))
           /\ sendInternalMessage(cs, m).internalMsgQueue = Append(cs.internalMsgQueue, m)
           /\ sendInternalMessage(cs, m).Round = cs.Round
           /\ sendInternalMessage(cs, m).Step = cs.Step
           /\ sendInternalMessage(cs, m).ticks = cs.ticks
  BY DEF sendInternalMessage, RoundState, Rest, Frame

(* updateRoundStep leaves a round state. *)
LEMMA SteppedType ==
    ASSUME NEW cs \in RoundState, NEW r \in Rounds, NEW s \in RoundStepNewHeight..RoundStepReply
    PROVE  Stepped(cs, r, s) \in RoundState
  BY Zenon DEF Stepped, RoundState

(* updateRoundStep changes the round and the step alone. *)
LEMMA SteppedFacts ==
    ASSUME NEW cs \in RoundState, NEW r, NEW s
    PROVE  /\ Rest(cs, Stepped(cs, r, s))
           /\ Stepped(cs, r, s).Round = r /\ Stepped(cs, r, s).Step = s
           /\ Stepped(cs, r, s).internalMsgQueue = cs.internalMsgQueue
           /\ Stepped(cs, r, s).ticks = cs.ticks
  BY DEF Stepped, RoundState, Rest, Frame

(* scheduleTimeout leaves a round state. *)
LEMMA TimeoutType ==
    ASSUME NEW cs \in RoundState, NEW r \in Rounds, NEW s \in TimeoutSteps
    PROVE  scheduleTimeout(cs, r, s) \in RoundState
<1> DEFINE t  == <<r, s>>
           ts == cs.ticks \cup {t}
<1>1. t \in Timeout /\ ts \in SUBSET Timeout
  BY DEF Timeout, RoundState
<1> HIDE DEF t, ts
<1>2. [cs EXCEPT !.ticked = t, !.ticks = ts] \in RoundState
  BY <1>1, Zenon DEF RoundState
<1>3. scheduleTimeout(cs, r, s) \in {cs, [cs EXCEPT !.ticked = t, !.ticks = ts]}
  BY DEF scheduleTimeout, t, ts
<1>. QED  BY <1>2, <1>3

(* scheduleTimeout changes the timeouts alone. *)
LEMMA TimeoutFacts ==
    ASSUME NEW cs \in RoundState, NEW r, NEW s
    PROVE  /\ Rest(cs, scheduleTimeout(cs, r, s))
           /\ scheduleTimeout(cs, r, s).Round = cs.Round /\ scheduleTimeout(cs, r, s).Step = cs.Step
           /\ scheduleTimeout(cs, r, s).internalMsgQueue = cs.internalMsgQueue
           /\ scheduleTimeout(cs, r, s).ticks \subseteq cs.ticks \cup {<<r, s>>}
  BY DEF scheduleTimeout, RoundState, Rest, Frame

(* Majorities are read from the votes. *)
LEMMA SameMaj23 ==
    ASSUME NEW cs, NEW ds, ds.Votes.sets = cs.Votes.sets
    PROVE  \A r, t : Maj23(ds, r, t) = Maj23(cs, r, t)
  BY Zenon DEF Maj23, getVoteSet

(* Going on twice is going on. *)
LEMMA OnwardTrans ==
    ASSUME NEW cs \in RoundState, NEW ds \in RoundState, NEW es \in RoundState,
           Onward(cs, ds), Onward(ds, es)
    PROVE  Onward(cs, es)
<1>1. cs.Round < es.Round \/ (cs.Round = es.Round /\ cs.Step <= es.Step)
  <2>1. /\ cs.Round \in Nat /\ ds.Round \in Nat /\ es.Round \in Nat
        /\ cs.Step \in Nat /\ ds.Step \in Nat /\ es.Step \in Nat
    BY StateFacts, Zenon
  <2>2. /\ cs.Round < ds.Round \/ (cs.Round = ds.Round /\ cs.Step <= ds.Step)
        /\ ds.Round < es.Round \/ (ds.Round = es.Round /\ ds.Step <= es.Step)
    BY DEF Onward
  <2>3. CASE cs.Round < ds.Round
    BY <2>1, <2>2, <2>3
  <2>4. CASE cs.Round = ds.Round /\ cs.Step <= ds.Step
    BY <2>1, <2>2, <2>4, SMTT(30)
  <2>. QED  BY <2>2, <2>3, <2>4
<1>2. ASSUME NEW r \in Rounds, NEW t \in VoteTypes
      PROVE  /\ Voters(cs.Votes.sets[r][t]) \subseteq Voters(es.Votes.sets[r][t])
             /\ Maj23(cs, r, t) # NoVote => Maj23(es, r, t) = Maj23(cs, r, t)
  <2>1. /\ Voters(cs.Votes.sets[r][t]) \subseteq Voters(ds.Votes.sets[r][t])
        /\ Voters(ds.Votes.sets[r][t]) \subseteq Voters(es.Votes.sets[r][t])
    BY Zenon DEF Onward
  <2>2. /\ Maj23(cs, r, t) # NoVote => Maj23(ds, r, t) = Maj23(cs, r, t)
        /\ Maj23(ds, r, t) # NoVote => Maj23(es, r, t) = Maj23(ds, r, t)
    BY DEF Onward
  <2>. QED  BY <2>1, <2>2, Zenon
<1>3. es.addr = cs.addr /\ es.Height = cs.Height /\ es.chain = cs.chain
  BY DEF Onward
<1>. QED  BY <1>1, <1>2, <1>3 DEF Onward

(* The round goes on with the votes it has. *)
LEMMA FrameFacts ==
    ASSUME NEW S, NEW cs \in RoundState, NEW ds \in RoundState, VotesOK(cs, S),
           Frame(cs, ds), ds.Round = cs.Round, cs.Step <= ds.Step
    PROVE  /\ Onward(cs, ds) /\ VotesOK(ds, S) /\ ds.Votes.sets = cs.Votes.sets
           /\ ds.panicked = cs.panicked
<1>1. /\ ds.Votes = cs.Votes /\ ds.Height = cs.Height /\ ds.LastCommits = cs.LastCommits
      /\ ds.addr = cs.addr /\ ds.chain = cs.chain /\ ds.panicked = cs.panicked
  BY Zenon DEF Frame
<1>2. VotesOK(ds, S)
  BY <1>1 DEF VotesOK
<1>3. /\ ds.Votes.sets = cs.Votes.sets
      /\ \A r, t : Maj23(ds, r, t) = Maj23(cs, r, t)
  BY <1>1, SameMaj23, ZenonT(30)
<1>4. Onward(cs, ds)
  BY <1>1, <1>3 DEF Onward
<1>. QED  BY <1>1, <1>2, <1>3, <1>4

(* The same, when nothing else changes either. *)
LEMMA RestFacts ==
    ASSUME NEW S, NEW cs, NEW ds \in RoundState, Sound(cs, S), Held(cs),
           Rest(cs, ds), ds.Round = cs.Round, cs.Step <= ds.Step,
           ds.Step = cs.Step \/ ds.Step < RoundStepReply,
           \A t \in ds.ticks : t \in cs.ticks \/ t[1] <= ds.Round
    PROVE  /\ Onward(cs, ds) /\ LockKept(cs, ds) /\ VotesOK(ds, S) /\ LockOK(ds) /\ Held(ds)
           /\ ds.Votes.sets = cs.Votes.sets /\ ~ds.panicked
<1>0. /\ cs \in RoundState /\ VotesOK(cs, S) /\ LockOK(cs) /\ ~cs.panicked /\ Frame(cs, ds)
      /\ cs.Step \in Nat /\ ds.Step \in Nat /\ cs.LockedRound \in Int
  BY StateFacts, Zenon DEF Sound, Rest
<1>1. /\ Onward(cs, ds) /\ VotesOK(ds, S) /\ ds.Votes.sets = cs.Votes.sets /\ ~ds.panicked
  BY <1>0, FrameFacts, SMTT(30)
<1>2. \A r, t : Maj23(ds, r, t) = Maj23(cs, r, t)
  BY <1>1, SameMaj23, Zenon
<1>3. LockKept(cs, ds)
  <2>1. cs.LockedRound <= cs.LockedRound
    BY <1>0, SMTT(30)
  <2>. QED  BY <2>1, Zenon DEF LockKept, Rest
<1>4. ds.Step = RoundStepReply => cs.Step = RoundStepReply
  BY <1>0, SMTT(30) DEF RoundStepReply
<1>5. LockOK(ds)
  BY <1>0, <1>2, <1>4, Zenon DEF LockOK, Rest
<1>6. Held(ds)
  <2>1. ds.Step < RoundStepReply => cs.Step < RoundStepReply
    BY <1>0 DEF RoundStepReply
  <2>. QED  BY <1>2, <2>1, Zenon DEF Held, Rest
<1>. QED  BY <1>1, <1>3, <1>5, <1>6, Zenon

-----------------------------------------------------------------------------
(* The handlers, within a height.                                          *)

Goes(cs, ds, S) == Ready(ds, S) /\ Onward(cs, ds) /\ ds.Votes.sets = cs.Votes.sets

(* A handler that returns early. *)
LEMMA GoesRefl ==
    ASSUME NEW S, NEW cs, Ready(cs, S)
    PROVE  Goes(cs, cs, S)
<1>1. cs \in RoundState
  BY DEF Ready, Sound
<1>2. cs.Step <= cs.Step
  BY <1>1, StateFacts
<1>. QED  BY <1>2 DEF Goes, Onward

(* A handler that calls another. *)
LEMMA GoesTrans ==
    ASSUME NEW S, NEW cs, NEW ds, NEW es, Ready(cs, S), Goes(cs, ds, S), Goes(ds, es, S)
    PROVE  Goes(cs, es, S)
<1>1. cs \in RoundState /\ ds \in RoundState /\ es \in RoundState
  BY DEF Goes, Ready, Sound
<1>. QED  BY <1>1, OnwardTrans DEF Goes

(* A step that changes neither the votes nor the blocks, and signs nothing. *)
LEMMA QuietStep ==
    ASSUME NEW S, SentOK(S), NEW cs, Ready(cs, S), NEW ds \in RoundState,
           Rest(cs, ds), ds.Round = cs.Round, cs.Step <= ds.Step,
           ds.Step = cs.Step \/ ds.Step < RoundStepReply,
           \A t \in ds.ticks : t \in cs.ticks \/ t[1] <= ds.Round,
           ds.internalMsgQueue = cs.internalMsgQueue
    PROVE  /\ Goes(cs, ds, S) /\ FreshVotes(ds, S) = FreshVotes(cs, S)
           /\ InRound(cs, S) => InRound(ds, S)
<1>1. Sound(cs, S) /\ FreshOK(cs, S) /\ Held(cs)
  BY Zenon DEF Ready
<1>2. /\ Onward(cs, ds) /\ LockKept(cs, ds) /\ VotesOK(ds, S) /\ LockOK(ds) /\ Held(ds)
      /\ ds.Votes.sets = cs.Votes.sets /\ ~ds.panicked
  BY <1>1, RestFacts, Zenon
<1>3. Sound(ds, S) /\ FreshOK(ds, S) /\ FreshVotes(ds, S) = FreshVotes(cs, S)
  BY <1>1, <1>2, GoesOn, Zenon
<1>. QED  BY <1>2, <1>3, Zenon DEF Goes, Ready, InRound, Onward

(* The same, signing one message. *)
LEMMA SigningStep ==
    ASSUME NEW S, SentOK(S), NEW cs, Ready(cs, S), NEW ds \in RoundState,
           Rest(cs, ds), ds.Round = cs.Round, cs.Step <= ds.Step,
           ds.Step = cs.Step \/ ds.Step < RoundStepReply,
           \A t \in ds.ticks : t \in cs.ticks \/ t[1] <= ds.Round,
           NEW x, Signs(cs, ds, x), InRound(cs, S) \/ x.kind # "vote"
    PROVE  Goes(cs, ds, S) /\ (InRound(cs, S) => InRound(ds, S))
<1>1. Sound(cs, S) /\ FreshOK(cs, S) /\ Held(cs)
  BY DEF Ready
<1>2. /\ Onward(cs, ds) /\ LockKept(cs, ds) /\ VotesOK(ds, S) /\ LockOK(ds) /\ Held(ds)
      /\ ds.Votes.sets = cs.Votes.sets /\ ~ds.panicked
  BY <1>1, RestFacts, ZenonT(30)
<1>3. Sound(ds, S) /\ FreshOK(ds, S) /\ (InRound(cs, S) => InRound(ds, S))
  BY <1>1, <1>2, GoesOnSigning, Zenon
<1>. QED  BY <1>2, <1>3, Zenon DEF Goes, Ready

(* A vote of the node, before its signature. *)
LEMMA VoteIsMessage ==
    ASSUME NEW cs \in RoundState, NEW t \in VoteTypes, NEW x \in BlockIDs
    PROVE  SignedVote(cs.Height, cs.addr, cs.Round, t, x) \in Message
  BY StateFacts, ConsensusAssumption DEF SignedVote, Message, VoteMessage

(* signAddVote queues the vote of the node for its round. *)
LEMMA SignAddVoteIs ==
    ASSUME NEW cs, NEW t, NEW x
    PROVE  signAddVote(cs, t, x)
              = sendInternalMessage(cs, SignedVote(cs.Height, cs.addr, cs.Round, t, x))
  BY DEF signAddVote, SignedVote

(* enterPrepare signs one prepare, for the block the node is locked on if  *)
(* there is one.                                                           *)
LEMMA EnterPrepare ==
    ASSUME NEW S, SentOK(S), NEW cs, Ready(cs, S), InRound(cs, S),
           NEW r \in Rounds, r <= cs.Round
    PROVE  /\ Goes(cs, enterPrepare(cs, r), S) /\ InRound(enterPrepare(cs, r), S)
           /\ enterPrepare(cs, r).Round = cs.Round
<1>0. cs \in RoundState /\ LockOK(cs)
  BY DEF Ready, Sound
<1>1. CASE Past(cs, r, RoundStepPrepare)
  BY <1>1, GoesRefl, Zenon DEF enterPrepare
<1>2. CASE ~Past(cs, r, RoundStepPrepare)
  <2>1. cs.Round = r /\ cs.Step < RoundStepPrepare /\ cs.Step <= RoundStepPrepare
    BY <1>0, <1>2, StateFacts, RoundsAreInts, SMTT(30) DEF Past, RoundStepPrepare
  <2> DEFINE b  == IF cs.LockedBlock # None THEN cs.LockedBlock
                   ELSE IF cs.PrePrepareBlock \in ValidBlocks THEN cs.PrePrepareBlock
                   ELSE Nil
             x  == SignedVote(cs.Height, cs.addr, cs.Round, "prepare", b)
             es == sendInternalMessage(cs, x)
             ds == Stepped(es, r, RoundStepPrepare)
  <2>2. b \in ValidBlocks \cup {Nil} /\ cs.LockedBlock \in {None, b} /\ b \in BlockIDs
    BY <1>0, NotBlocks, Zenon DEF LockOK
  <2>3. enterPrepare(cs, r) = ds
    BY <1>2, SignAddVoteIs DEF enterPrepare, doPrepare
  <2> HIDE DEF b
  <2>4. x \in Message
    BY <1>0, <2>2, VoteIsMessage, Zenon DEF VoteTypes
  <2>5. /\ x.kind = "vote" /\ x.type = "prepare" /\ x.val = b /\ x.round = cs.Round
        /\ x.height = cs.Height /\ x.by = cs.addr
    BY DEF SignedVote
  <2> HIDE DEF x
  <2>6. /\ es \in RoundState /\ Rest(cs, es) /\ es.ticks = cs.ticks
        /\ es.internalMsgQueue = Append(cs.internalMsgQueue, x)
    BY <1>0, <2>4, SendType, SendFacts, Zenon
  <2> HIDE DEF es
  <2>7. /\ Rest(es, ds) /\ ds.Round = r /\ ds.Step = RoundStepPrepare /\ ds.ticks = es.ticks
        /\ ds.internalMsgQueue = es.internalMsgQueue
    BY <2>6, SteppedFacts, SMTT(30)
  <2>8. ds \in RoundState
    BY <2>6, SteppedType, SMTT(30) DEF RoundStepPrepare, RoundStepNewHeight, RoundStepReply
  <2> HIDE DEF ds
  <2>9. Rest(cs, ds)
    BY <2>6, <2>7, Zenon DEF Rest, Frame
  <2>10. Signs(cs, ds, x)
    <3>1. StepOf(x) = RoundStepPrepare
      BY <2>5, Zenon DEF StepOf
    <3>2. StepOf(x) <= ds.Step
      BY <2>7, <3>1, SMTT(30) DEF RoundStepPrepare
    <3>. QED  BY <2>1, <2>2, <2>4, <2>5, <2>6, <2>7, <3>1, <3>2, Zenon
                 DEF Signs, IsPrepare, CommitsBlock
  <2>11. ds.Step < RoundStepReply
    BY <2>7 DEF RoundStepPrepare, RoundStepReply
  <2>. QED  BY <2>1, <2>3, <2>6, <2>7, <2>8, <2>9, <2>10, <2>11, SigningStep, Zenon
<1>. QED  BY <1>1, <1>2

(* enterPrepareWait only waits. *)
LEMMA EnterPrepareWait ==
    ASSUME NEW S, SentOK(S), NEW cs, Ready(cs, S), NEW r \in Rounds, r <= cs.Round
    PROVE  Goes(cs, enterPrepareWait(cs, r), S)
<1>0. cs \in RoundState
  BY DEF Ready, Sound
<1>1. CASE Past(cs, r, RoundStepPrepareWait)
  BY <1>1, GoesRefl, Zenon DEF enterPrepareWait
<1>2. CASE ~Past(cs, r, RoundStepPrepareWait)
  <2>1. cs.Round = r /\ cs.Step <= RoundStepPrepareWait
    BY <1>0, <1>2, StateFacts, RoundsAreInts, SMTT(30) DEF Past, RoundStepPrepareWait
  <2> DEFINE es == scheduleTimeout(cs, r, RoundStepPrepareWait)
             ds == Stepped(es, r, RoundStepPrepareWait)
  <2>2. enterPrepareWait(cs, r) = ds
    BY <1>2, Zenon DEF enterPrepareWait
  <2>3. /\ es \in RoundState /\ Rest(cs, es)
        /\ es.ticks \subseteq cs.ticks \cup {<<r, RoundStepPrepareWait>>}
        /\ es.internalMsgQueue = cs.internalMsgQueue
    <3>1. RoundStepPrepareWait \in TimeoutSteps
      BY Zenon DEF TimeoutSteps
    <3>. QED  BY <1>0, <3>1, TimeoutType, TimeoutFacts
  <2> HIDE DEF es
  <2>4. /\ Rest(es, ds) /\ ds.Round = r /\ ds.Step = RoundStepPrepareWait /\ ds.ticks = es.ticks
        /\ ds.internalMsgQueue = es.internalMsgQueue
    BY <2>3, SteppedFacts, SMTT(30)
  <2>5. ds \in RoundState
    BY <2>3, SteppedType, SMTT(30) DEF RoundStepPrepareWait, RoundStepNewHeight, RoundStepReply
  <2> HIDE DEF ds
  <2>6. Rest(cs, ds)
    BY <2>3, <2>4, Zenon DEF Rest, Frame
  <2>7. \A t \in ds.ticks : t \in cs.ticks \/ t[1] <= ds.Round
    <3>1. r <= r
      BY RoundsAreInts
    <3>. QED  BY <2>3, <2>4, <3>1
  <2>8. ds.Step < RoundStepReply
    BY <2>4, SMTT(30) DEF RoundStepPrepareWait, RoundStepReply
  <2>. QED  BY <2>1, <2>2, <2>3, <2>4, <2>5, <2>6, <2>7, <2>8, QuietStep, Zenon
<1>. QED  BY <1>1, <1>2

(* scheduleTimeout signs nothing and moves nothing. *)
LEMMA ScheduleTimeout ==
    ASSUME NEW S, SentOK(S), NEW cs, Ready(cs, S), NEW r \in Rounds, r <= cs.Round,
           NEW s \in TimeoutSteps
    PROVE  LET ds == scheduleTimeout(cs, r, s)
           IN  /\ Goes(cs, ds, S) /\ FreshVotes(ds, S) = FreshVotes(cs, S)
               /\ InRound(cs, S) => InRound(ds, S)
               /\ Rest(cs, ds) /\ ds.Round = cs.Round /\ ds.Step = cs.Step
<1> DEFINE ds == scheduleTimeout(cs, r, s)
<1>0. cs \in RoundState
  BY DEF Ready, Sound
<1>1. ds \in RoundState
  BY <1>0, TimeoutType, Zenon
<1>2. /\ Rest(cs, ds) /\ ds.Round = cs.Round /\ ds.Step = cs.Step
      /\ ds.internalMsgQueue = cs.internalMsgQueue
      /\ ds.ticks \subseteq cs.ticks \cup {<<r, s>>}
  BY <1>0, TimeoutFacts
<1> HIDE DEF ds
<1>3. \A t \in ds.ticks : t \in cs.ticks \/ t[1] <= ds.Round
  BY <1>2, SMTT(30)
<1>4. cs.Step <= ds.Step
  BY <1>0, <1>2, StateFacts, SMTT(30)
<1>5. /\ Goes(cs, ds, S) /\ FreshVotes(ds, S) = FreshVotes(cs, S)
      /\ InRound(cs, S) => InRound(ds, S)
  BY <1>1, <1>2, <1>3, <1>4, QuietStep, Zenon
<1>. QED  BY <1>2, <1>5 DEF ds

(* Entering the pre-prepare step without a proposal. *)
LEMMA StepPrePrepare ==
    ASSUME NEW S, SentOK(S), NEW cs, Ready(cs, S), cs.Step < RoundStepPrePrepare
    PROVE  LET ds == Stepped(cs, cs.Round, RoundStepPrePrepare)
           IN  /\ Goes(cs, ds, S) /\ (InRound(cs, S) => InRound(ds, S))
               /\ ds.Round = cs.Round /\ ds.PrePrepare = cs.PrePrepare
<1> DEFINE ds == Stepped(cs, cs.Round, RoundStepPrePrepare)
<1>0. cs \in RoundState /\ cs.Round \in Rounds /\ cs.Step \in Nat
  BY StateFacts, Zenon DEF Ready, Sound
<1>1. ds \in RoundState
  BY <1>0, SteppedType, SMTT(30) DEF RoundStepPrePrepare, RoundStepNewHeight, RoundStepReply
<1>2. /\ Rest(cs, ds) /\ ds.Round = cs.Round /\ ds.Step = RoundStepPrePrepare
      /\ ds.ticks = cs.ticks /\ ds.internalMsgQueue = cs.internalMsgQueue
  BY <1>0, SteppedFacts
<1> HIDE DEF ds
<1>3. cs.Step <= ds.Step /\ ds.Step < RoundStepReply
  BY <1>0, <1>2, SMTT(30) DEF RoundStepPrePrepare, RoundStepReply
<1>4. Goes(cs, ds, S) /\ (InRound(cs, S) => InRound(ds, S))
  BY <1>1, <1>2, <1>3, QuietStep, Zenon
<1>. QED  BY <1>2, <1>4 DEF ds, Rest

(* decidePrePrepare proposes the valid block with the round of its         *)
(* majority, or a new block.                                               *)
LEMMA Propose ==
    ASSUME NEW S, SentOK(S), NEW cs, Ready(cs, S), cs.Step < RoundStepPrePrepare
    PROVE  LET ds == Stepped(decidePrePrepare(cs, cs.Round), cs.Round, RoundStepPrePrepare)
           IN  /\ Goes(cs, ds, S) /\ (InRound(cs, S) => InRound(ds, S))
               /\ ds.Round = cs.Round /\ ds.PrePrepare = cs.PrePrepare
<1> DEFINE b  == IF cs.ValidBlock # None THEN cs.ValidBlock ELSE createPrePrepareBlock(cs)
           x  == [kind |-> "pre_prepare", height |-> cs.Height, round |-> cs.Round,
                  polRound |-> cs.ValidRound, block |-> b, by |-> cs.addr]
           y  == [kind |-> "part", height |-> cs.Height, block |-> b, by |-> cs.addr]
           ps == sendInternalMessage(cs, x)
           qs == sendInternalMessage(ps, y)
           es == Stepped(ps, cs.Round, RoundStepPrePrepare)
           ds == Stepped(qs, cs.Round, RoundStepPrePrepare)
<1>0. cs \in RoundState /\ cs.Round \in Rounds /\ cs.Step \in Nat /\ LockOK(cs)
  BY StateFacts, Zenon DEF Ready, Sound
<1>1. b \in Blocks \cup {None}
  BY <1>0, ConsensusAssumption, StateFacts DEF createPrePrepareBlock
<1>2. decidePrePrepare(cs, cs.Round) = IF b = None THEN cs ELSE qs
  BY Zenon DEF decidePrePrepare
<1>3. cs.ValidRound >= 0 => Maj23(cs, cs.ValidRound, "prepare") = b
  BY <1>0 DEF LockOK
<1> HIDE DEF b
<1>4. CASE b = None
  BY <1>2, <1>4, StepPrePrepare, Zenon
<1>5. CASE b # None
  <2>1. x \in Message /\ y \in Message
    BY <1>0, <1>1, <1>5, StateFacts, ConsensusAssumption, Zenon
    DEF Message, PrePrepareMessage, BlockPartMessage
  <2>2. /\ x.kind = "pre_prepare" /\ x.round = cs.Round /\ x.height = cs.Height /\ x.by = cs.addr
        /\ x.polRound = cs.ValidRound /\ x.block = b
        /\ y.kind = "part" /\ y.height = cs.Height /\ y.by = cs.addr
    OBVIOUS
  <2> HIDE DEF x, y
  <2>3. /\ ps \in RoundState /\ Rest(cs, ps) /\ ps.ticks = cs.ticks
        /\ ps.internalMsgQueue = Append(cs.internalMsgQueue, x)
    BY <1>0, <2>1, SendType, SendFacts, Zenon
  <2> HIDE DEF ps
  <2>4. /\ qs \in RoundState /\ Rest(ps, qs) /\ qs.ticks = ps.ticks
        /\ qs.internalMsgQueue = Append(ps.internalMsgQueue, y)
    BY <2>1, <2>3, SendType, SendFacts
  <2> HIDE DEF qs
  <2>5. RoundStepPrePrepare \in RoundStepNewHeight..RoundStepReply
    BY DEF RoundStepPrePrepare, RoundStepNewHeight, RoundStepReply
  <2>6. es \in RoundState /\ ds \in RoundState
    BY <1>0, <2>3, <2>4, <2>5, SteppedType, Zenon
  <2>7. /\ Rest(ps, es) /\ es.Round = cs.Round /\ es.Step = RoundStepPrePrepare
        /\ es.ticks = ps.ticks /\ es.internalMsgQueue = ps.internalMsgQueue
    BY <2>3, SteppedFacts, SMTT(30)
  <2>8. /\ Rest(qs, ds) /\ ds.Round = cs.Round /\ ds.Step = RoundStepPrePrepare
        /\ ds.ticks = qs.ticks /\ ds.internalMsgQueue = qs.internalMsgQueue
    BY <2>4, SteppedFacts
  <2> HIDE DEF es, ds
  <2>9. Rest(cs, es) /\ Rest(es, ds)
    BY <2>3, <2>4, <2>7, <2>8, Zenon DEF Rest, Frame
  <2>10. /\ cs.Step <= es.Step /\ es.Step < RoundStepReply /\ es.Step <= ds.Step
         /\ StepOf(x) = RoundStepPrePrepare /\ StepOf(x) <= es.Step
    BY <1>0, <2>2, <2>7, <2>8, SMTT(30) DEF RoundStepPrePrepare, RoundStepReply, StepOf
  <2>11. Signs(cs, es, x)
    <3>1. x.polRound >= 0 => Maj23(es, x.polRound, "prepare") = x.block
      BY <1>3, <2>2, <2>9, SameMaj23, SMTT(30) DEF Rest, Frame
    <3>. QED  BY <2>1, <2>2, <2>3, <2>7, <2>10, <3>1, Zenon DEF Signs, IsPrepare, CommitsBlock
  <2>12. Goes(cs, es, S) /\ (InRound(cs, S) => InRound(es, S))
    BY <2>2, <2>3, <2>6, <2>7, <2>9, <2>10, <2>11, SigningStep, Zenon
  <2>13. Signs(es, ds, y)
    BY <2>1, <2>2, <2>4, <2>7, <2>8, <2>9, Zenon DEF Signs, IsPrepare, CommitsBlock, Rest, Frame
  <2>14. Goes(es, ds, S) /\ (InRound(es, S) => InRound(ds, S))
    <3>1. Ready(es, S)
      BY <2>12 DEF Goes
    <3>. QED  BY <2>2, <2>4, <2>6, <2>7, <2>8, <2>9, <2>10, <2>13, <3>1, SigningStep, Zenon
  <2>15. ds.PrePrepare = cs.PrePrepare
    BY <2>9 DEF Rest
  <2>. QED  BY <1>2, <1>5, <2>8, <2>12, <2>14, <2>15, GoesTrans DEF ds
<1>. QED  BY <1>4, <1>5

(* enterPrePrepare proposes if the node is the primary, and votes at once  *)
(* if the proposal is already there.                                       *)
LEMMA EnterPrePrepare ==
    ASSUME NEW S, SentOK(S), NEW cs, Ready(cs, S), NEW r \in Rounds, r <= cs.Round,
           InRound(cs, S) \/ cs.PrePrepare = None
    PROVE  /\ Goes(cs, enterPrePrepare(cs, r), S) /\ enterPrePrepare(cs, r).Round = cs.Round
           /\ InRound(cs, S) => InRound(enterPrePrepare(cs, r), S)
<1>0. cs \in RoundState
  BY Zenon DEF Ready, Sound
<1>1. CASE Past(cs, r, RoundStepPrePrepare)
  BY <1>1, GoesRefl, Zenon DEF enterPrePrepare
<1>2. CASE ~Past(cs, r, RoundStepPrePrepare)
  <2> DEFINE ts == scheduleTimeout(cs, r, RoundStepPrePrepare)
             ds == Stepped(IF isPrimary(cs) THEN decidePrePrepare(ts, r) ELSE ts,
                           r, RoundStepPrePrepare)
  <2>1. cs.Round = r /\ cs.Step < RoundStepPrePrepare
    BY <1>0, <1>2, StateFacts, RoundsAreInts, SMTT(30) DEF Past, RoundStepPrePrepare
  <2>2. enterPrePrepare(cs, r) = IF isPrePrepareComplete(ds) THEN enterPrepare(ds, r) ELSE ds
    BY <1>2, Zenon DEF enterPrePrepare
  <2>3. /\ Goes(cs, ts, S) /\ (InRound(cs, S) => InRound(ts, S))
        /\ Rest(cs, ts) /\ ts.Round = cs.Round /\ ts.Step = cs.Step
    <3>1. RoundStepPrePrepare \in TimeoutSteps
      BY DEF TimeoutSteps
    <3>. QED  BY <3>1, ScheduleTimeout
  <2> HIDE DEF ts
  <2>4. Ready(ts, S) /\ ts.PrePrepare = cs.PrePrepare
    BY <2>3, Zenon DEF Goes, Rest
  <2>5. /\ Goes(ts, ds, S) /\ (InRound(ts, S) => InRound(ds, S))
        /\ ds.Round = ts.Round /\ ds.PrePrepare = ts.PrePrepare
    <3>1. CASE isPrimary(cs)
      BY <2>1, <2>3, <2>4, <3>1, Propose, Zenon
    <3>2. CASE ~isPrimary(cs)
      BY <2>1, <2>3, <2>4, <3>2, StepPrePrepare, Zenon
    <3>. QED  BY <3>1, <3>2, Zenon
  <2> HIDE DEF ds
  <2>6. Goes(cs, ds, S) /\ (InRound(cs, S) => InRound(ds, S)) /\ ds.Round = r
    BY <2>1, <2>3, <2>5, GoesTrans, Zenon
  <2>7. CASE ~isPrePrepareComplete(ds)
    BY <2>1, <2>2, <2>6, <2>7, Zenon
  <2>8. CASE isPrePrepareComplete(ds)
    <3>1. cs.PrePrepare # None
      BY <2>4, <2>5, <2>8, Zenon DEF isPrePrepareComplete
    <3>2. Ready(ds, S) /\ InRound(ds, S)
      BY <2>6, <3>1 DEF Goes
    <3>3. r <= ds.Round
      BY <2>6, RoundsAreInts
    <3>4. /\ Goes(ds, enterPrepare(ds, r), S) /\ InRound(enterPrepare(ds, r), S)
          /\ enterPrepare(ds, r).Round = ds.Round
      BY <3>2, <3>3, EnterPrepare
    <3>. QED  BY <2>1, <2>2, <2>6, <2>8, <3>4, GoesTrans, Zenon
  <2>. QED  BY <2>7, <2>8, Zenon
<1>. QED  BY <1>1, <1>2

(* enterNewRound, up to its call of enterPrePrepare. *)
Begun(cs, r) ==
    [Stepped(cs, r, RoundStepNewRound) EXCEPT
       !.PrePrepare = IF r = 0 THEN @ ELSE None,
       !.PrePrepareBlock = IF r = 0 THEN @ ELSE None,
       !.PrePrepareBlockParts = IF r = 0 THEN @ ELSE None,
       !.Votes = SetRound(@, r + 1),
       !.TriggeredTimeoutCommit = FALSE]

(* The beginning of a round leaves a round state. *)
LEMMA BegunType ==
    ASSUME NEW cs \in RoundState, NEW r \in Rounds, SetRound(cs.Votes, r + 1) \in HeightVoteSets
    PROVE  Begun(cs, r) \in RoundState
<1> DEFINE es == Stepped(cs, r, RoundStepNewRound)
           p  == IF r = 0 THEN es.PrePrepare ELSE None
           b  == IF r = 0 THEN es.PrePrepareBlock ELSE None
           h  == IF r = 0 THEN es.PrePrepareBlockParts ELSE None
           vs == SetRound(es.Votes, r + 1)
           f  == FALSE
<1>1. es \in RoundState
  BY SteppedType DEF RoundStepNewRound, RoundStepNewHeight, RoundStepReply
<1>2. es.Votes = cs.Votes
  BY SteppedFacts DEF Rest, Frame
<1>3. Begun(cs, r) = [es EXCEPT !.PrePrepare = p, !.PrePrepareBlock = b,
                                !.PrePrepareBlockParts = h, !.Votes = vs,
                                !.TriggeredTimeoutCommit = f]
  BY DEF Begun
<1> HIDE DEF es
<1>4. /\ p \in Nilable(PrePrepareMessage) /\ b \in Nilable(Blocks)
      /\ h \in Nilable(Blocks) /\ vs \in HeightVoteSets /\ f \in BOOLEAN
  <2>1. None \in Nilable(PrePrepareMessage) /\ None \in Nilable(Blocks)
    BY DEF Nilable
  <2>. QED  BY <1>1, <1>2, <2>1 DEF RoundState
<1> HIDE DEF p, b, h, vs, f
<1>. QED  BY <1>1, <1>3, <1>4, ZenonT(30) DEF RoundState

(* What enterNewRound sets, and what it leaves. *)
LEMMA BegunFacts ==
    ASSUME NEW cs \in RoundState, NEW r \in Rounds
    PROVE  LET ds == Begun(cs, r)
           IN  /\ ds.addr = cs.addr /\ ds.Height = cs.Height /\ ds.chain = cs.chain
               /\ ds.LastCommits = cs.LastCommits /\ ds.panicked = cs.panicked
               /\ ds.Votes = SetRound(cs.Votes, r + 1)
               /\ ds.Round = r /\ ds.Step = RoundStepNewRound /\ ds.ticks = cs.ticks
               /\ ds.internalMsgQueue = cs.internalMsgQueue
               /\ ds.LockedRound = cs.LockedRound /\ ds.LockedBlock = cs.LockedBlock
               /\ ds.ValidRound = cs.ValidRound /\ ds.ValidBlock = cs.ValidBlock
               /\ ds.PrePrepare = (IF r = 0 THEN cs.PrePrepare ELSE None)
               /\ ds.PrePrepareBlock = (IF r = 0 THEN cs.PrePrepareBlock ELSE None)
               /\ ds.PrePrepareBlockParts = (IF r = 0 THEN cs.PrePrepareBlockParts ELSE None)
<1> DEFINE es == Stepped(cs, r, RoundStepNewRound)
           ds == Begun(cs, r)
<1>1. es \in RoundState
  BY SteppedType, SMTT(30) DEF RoundStepNewRound, RoundStepNewHeight, RoundStepReply
<1>2. /\ Rest(cs, es) /\ es.Round = r /\ es.Step = RoundStepNewRound /\ es.ticks = cs.ticks
      /\ es.internalMsgQueue = cs.internalMsgQueue
  BY SteppedFacts
<1>3. ds = [es EXCEPT
               !.PrePrepare = IF r = 0 THEN es.PrePrepare ELSE None,
               !.PrePrepareBlock = IF r = 0 THEN es.PrePrepareBlock ELSE None,
               !.PrePrepareBlockParts = IF r = 0 THEN es.PrePrepareBlockParts ELSE None,
               !.Votes = SetRound(es.Votes, r + 1),
               !.TriggeredTimeoutCommit = FALSE]
  BY DEF Begun
<1> HIDE DEF es, ds
<1>4. /\ ds.addr = es.addr /\ ds.Height = es.Height /\ ds.chain = es.chain
      /\ ds.LastCommits = es.LastCommits /\ ds.panicked = es.panicked
      /\ ds.Round = es.Round /\ ds.Step = es.Step /\ ds.ticks = es.ticks
      /\ ds.internalMsgQueue = es.internalMsgQueue
      /\ ds.LockedRound = es.LockedRound /\ ds.LockedBlock = es.LockedBlock
      /\ ds.ValidRound = es.ValidRound /\ ds.ValidBlock = es.ValidBlock
  BY <1>1, <1>3 DEF RoundState
<1>5. /\ ds.Votes = SetRound(es.Votes, r + 1)
      /\ ds.PrePrepare = (IF r = 0 THEN es.PrePrepare ELSE None)
      /\ ds.PrePrepareBlock = (IF r = 0 THEN es.PrePrepareBlock ELSE None)
      /\ ds.PrePrepareBlockParts = (IF r = 0 THEN es.PrePrepareBlockParts ELSE None)
  BY <1>1, <1>3, Zenon DEF RoundState
<1>6. /\ ds.addr = cs.addr /\ ds.Height = cs.Height /\ ds.chain = cs.chain
      /\ ds.LastCommits = cs.LastCommits /\ ds.panicked = cs.panicked
      /\ ds.Votes = SetRound(cs.Votes, r + 1)
  BY <1>2, <1>4, <1>5, Zenon DEF Rest, Frame
<1>7. /\ ds.LockedRound = cs.LockedRound /\ ds.LockedBlock = cs.LockedBlock
      /\ ds.ValidRound = cs.ValidRound /\ ds.ValidBlock = cs.ValidBlock
      /\ ds.PrePrepare = (IF r = 0 THEN cs.PrePrepare ELSE None)
      /\ ds.PrePrepareBlock = (IF r = 0 THEN cs.PrePrepareBlock ELSE None)
      /\ ds.PrePrepareBlockParts = (IF r = 0 THEN cs.PrePrepareBlockParts ELSE None)
  BY <1>2, <1>4, <1>5 DEF Rest
<1>. QED  BY <1>2, <1>4, <1>6, <1>7, Zenon DEF ds

(* A new round begins with the votes that came ahead of it. *)
LEMMA Begin ==
    ASSUME NEW S, SentOK(S), NEW cs, Ready(cs, S), NEW r \in Rounds,
           cs.Round < r \/ (cs.Round = r /\ cs.Step = RoundStepNewHeight)
    PROVE  LET ds == Begun(cs, r)
           IN  /\ Goes(cs, ds, S) /\ ds.Round = r
               /\ ds.PrePrepare = (IF r = 0 THEN cs.PrePrepare ELSE None)
               /\ FreshVotes(ds, S) = FreshVotes(cs, S)
               /\ r = 0 => cs.Round = 0
<1> DEFINE ds == Begun(cs, r)
           vs == SetRound(cs.Votes, r + 1)
<1>0. /\ cs \in RoundState /\ ~cs.panicked /\ VotesOK(cs, S) /\ LockOK(cs)
      /\ Sound(cs, S) /\ FreshOK(cs, S) /\ Held(cs)
  BY Zenon DEF Ready, Sound
<1>1. /\ cs.Round \in Nat /\ r \in Nat /\ cs.Step \in Nat /\ cs.Votes \in HeightVoteSets
      /\ cs.LockedRound \in Int
  BY <1>0, StateFacts, RoundsAreInts, Zenon
<1>2. r + 1 \in 0..(MaxRound + 1) /\ cs.Round + 1 \in Int /\ cs.Round + 1 <= r + 1
  BY <1>1, RoundAssumption, SMTT(30) DEF Rounds
<1>3. Tracked(cs.Votes, cs.Round + 1)
  BY <1>0, Zenon DEF VotesOK, Tracked
<1>4. vs \in HeightVoteSets /\ vs.round = r + 1 /\ vs.sets = cs.Votes.sets /\ Tracked(vs, r + 1)
  BY <1>1, <1>2, <1>3, SetRoundFacts
<1>5. ds \in RoundState
  BY <1>0, <1>4, BegunType, Zenon
<1>6. /\ ds.addr = cs.addr /\ ds.Height = cs.Height /\ ds.chain = cs.chain
      /\ ds.LastCommits = cs.LastCommits /\ ds.panicked = cs.panicked /\ ds.Votes = vs
      /\ ds.Round = r /\ ds.Step = RoundStepNewRound /\ ds.ticks = cs.ticks
      /\ ds.internalMsgQueue = cs.internalMsgQueue
      /\ ds.LockedRound = cs.LockedRound /\ ds.LockedBlock = cs.LockedBlock
      /\ ds.ValidRound = cs.ValidRound /\ ds.ValidBlock = cs.ValidBlock
      /\ ds.PrePrepare = (IF r = 0 THEN cs.PrePrepare ELSE None)
      /\ ds.PrePrepareBlock = (IF r = 0 THEN cs.PrePrepareBlock ELSE None)
      /\ ds.PrePrepareBlockParts = (IF r = 0 THEN cs.PrePrepareBlockParts ELSE None)
  BY <1>0, BegunFacts, ZenonT(30)
<1> HIDE DEF ds, vs
<1>7. ds.Votes.sets = cs.Votes.sets /\ \A q, t : Maj23(ds, q, t) = Maj23(cs, q, t)
  BY <1>4, <1>6, SameMaj23
<1>8. VotesOK(ds, S)
  <2>1. /\ \A q \in ds.Votes.rounds :
              q <= ds.Round + 1 \/ \E p \in Peers : q \in Range(ds.Votes.peerCatchupRounds[p])
        /\ \A p \in Peers : Len(ds.Votes.peerCatchupRounds[p]) <= 2
    BY <1>4, <1>6, Zenon DEF Tracked
  <2>2. ds.Votes.round \in {ds.Round, ds.Round + 1}
    BY <1>4, <1>6, Zenon
  <2>3. ds.Votes.sets = cs.Votes.sets /\ ds.Height = cs.Height /\ ds.LastCommits = cs.LastCommits
    BY <1>6, <1>7
  <2>. QED  BY <1>0, <2>1, <2>2, <2>3, ZenonT(30) DEF VotesOK
<1>9. cs.Round <= r /\ (r = 0 => cs.Round = 0)
      /\ (cs.Round < r \/ (cs.Round = r /\ cs.Step <= RoundStepNewRound))
  BY <1>1, SMTT(30) DEF RoundStepNewHeight, RoundStepNewRound
<1>10. Onward(cs, ds)
  BY <1>6, <1>7, <1>9, ZenonT(30) DEF Onward
<1>11. LockKept(cs, ds)
  <2>1. cs.LockedRound <= cs.LockedRound
    BY <1>1
  <2>. QED  BY <1>6, <2>1 DEF LockKept
<1>12. LockOK(ds)
  <2>1. \A q \in 0..cs.Round : q \in 0..r
    BY <1>1, <1>9, SMTT(30)
  <2>2. \A t \in cs.ticks : t[1] <= r
    <3> SUFFICES ASSUME NEW t \in cs.ticks PROVE t[1] <= r
      BY Zenon
    <3>1. t \in Timeout /\ t[1] <= cs.Round
      BY <1>0, Zenon DEF LockOK, RoundState
    <3>2. t[1] \in Nat
      BY <3>1, RoundsAreInts, Zenon DEF Timeout
    <3>. QED  BY <1>1, <1>9, <3>1, <3>2, SMTT(30)
  <2>3. ds.Step # RoundStepReply
    BY <1>6, SMTT(30) DEF RoundStepNewRound, RoundStepReply
  <2>. QED  BY <1>0, <1>6, <1>7, <2>1, <2>2, <2>3, Zenon DEF LockOK
<1>13. Held(ds)
  <2>1. CASE r = 0
    <3>1. cs.Round = r /\ cs.Step < RoundStepReply
      BY <1>1, <1>9, <2>1 DEF RoundStepNewHeight, RoundStepReply
    <3>. QED  BY <1>0, <1>6, <1>7, <2>1, <3>1, ZenonT(30) DEF Held
  <2>2. CASE r # 0
    BY <1>6, <2>2 DEF Held
  <2>. QED  BY <2>1, <2>2
<1>14. Sound(ds, S) /\ FreshOK(ds, S) /\ FreshVotes(ds, S) = FreshVotes(cs, S)
  BY <1>0, <1>5, <1>6, <1>8, <1>10, <1>11, <1>12, GoesOn, Zenon
<1>. QED  BY <1>6, <1>7, <1>9, <1>10, <1>13, <1>14, Zenon DEF ds, Goes, Ready

(* enterNewRound never goes back, so SetRound does not panic; what it      *)
(* signs is of the round it enters.                                        *)
LEMMA EnterNewRound ==
    ASSUME NEW S, SentOK(S), NEW cs, Ready(cs, S), NEW r \in Rounds,
           r # 0 \/ InRound(cs, S) \/ cs.PrePrepare = None
    PROVE  /\ Goes(cs, enterNewRound(cs, r), S)
           /\ r <= enterNewRound(cs, r).Round
           /\ FreshVotes(cs, S) = {} => InRound(enterNewRound(cs, r), S)
<1>0. cs \in RoundState /\ VotesOK(cs, S) /\ cs.Round \in Nat /\ r \in Nat /\ cs.Step \in Nat
  BY StateFacts, RoundsAreInts, ZenonT(30) DEF Ready, Sound
<1>1. CASE r < cs.Round \/ (cs.Round = r /\ cs.Step # RoundStepNewHeight)
  <2>1. enterNewRound(cs, r) = cs /\ r <= cs.Round
    BY <1>0, <1>1, SMTT(30) DEF enterNewRound
  <2>. QED  BY <2>1, GoesRefl DEF InRound
<1>2. CASE ~(r < cs.Round \/ (cs.Round = r /\ cs.Step # RoundStepNewHeight))
  <2> DEFINE bs == Begun(cs, r)
  <2>1. cs.Round < r \/ (cs.Round = r /\ cs.Step = RoundStepNewHeight)
    BY <1>0, <1>2, SMTT(30)
  <2>2. ~SetRoundPanics(cs.Votes, r + 1)
    <3>1. cs.Votes.round \in {cs.Round, cs.Round + 1}
      BY <1>0, Zenon DEF VotesOK
    <3>2. ~(r + 1 < cs.Votes.round - 1)
      BY <1>0, <2>1, <3>1
    <3>. QED  BY <3>2, Zenon DEF SetRoundPanics
  <2>3. enterNewRound(cs, r) \in {bs, scheduleTimeout(bs, r, RoundStepNewRound), enterPrePrepare(bs, r)}
    BY <1>2, <2>2, Zenon DEF enterNewRound, Begun
  <2>4. /\ Goes(cs, bs, S) /\ bs.Round = r
        /\ bs.PrePrepare = (IF r = 0 THEN cs.PrePrepare ELSE None)
        /\ FreshVotes(bs, S) = FreshVotes(cs, S)
        /\ r = 0 => cs.Round = 0
    BY <2>1, Begin, Zenon
  <2> HIDE DEF bs
  <2>5. Ready(bs, S) /\ bs.Height = cs.Height /\ r <= bs.Round
    BY <1>0, <2>4, SMTT(30) DEF Goes, Onward
  <2>6. FreshVotes(cs, S) = {} => InRound(bs, S)
    BY <2>4, Zenon DEF InRound
  <2>7. InRound(bs, S) \/ bs.PrePrepare = None
    <3>1. CASE r # 0
      BY <2>4, <3>1, Zenon
    <3>2. CASE r = 0 /\ InRound(cs, S)
      BY <2>4, <2>5, <3>2, Zenon DEF InRound
    <3>3. CASE r = 0 /\ cs.PrePrepare = None
      BY <2>4, <3>3, Zenon
    <3>. QED  BY <3>1, <3>2, <3>3, Zenon
  <2> DEFINE ts == scheduleTimeout(bs, r, RoundStepNewRound)
             ps == enterPrePrepare(bs, r)
  <2>8. Goes(bs, ts, S) /\ (InRound(bs, S) => InRound(ts, S)) /\ ts.Round = bs.Round
    <3>1. RoundStepNewRound \in TimeoutSteps
      BY Zenon DEF TimeoutSteps
    <3>. QED  BY <2>5, <3>1, ScheduleTimeout
  <2>9. Goes(bs, ps, S) /\ (InRound(bs, S) => InRound(ps, S)) /\ ps.Round = bs.Round
    BY <2>5, <2>7, EnterPrePrepare, Zenon
  <2> HIDE DEF ts, ps
  <2>10. Goes(cs, ts, S) /\ Goes(cs, ps, S)
    BY <2>4, <2>8, <2>9, GoesTrans
  <2>. QED  BY <2>3, <2>4, <2>5, <2>6, <2>8, <2>9, <2>10, Zenon DEF ts, ps
<1>. QED  BY <1>1, <1>2
=============================================================================
