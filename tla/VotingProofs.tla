---------------------------- MODULE VotingProofs ----------------------------
(***************************************************************************)
(* Agreement of Voting for every set of validators, blocks, heights and    *)
(* rounds, and every division of the power in which two quorums share a    *)
(* correct validator.                                                      *)
(***************************************************************************)
EXTENDS Voting, TLAPS

(* Rounds are natural numbers. *)
LEMMA RoundsAreNat == Rounds \subseteq Nat
  BY VotingAssumption DEF Rounds

(* Votes never disappear, and a step adds votes of one correct validator   *)
(* only, none of them behind a round it has already signed in.             *)
LEMMA StepFacts ==
    ASSUME TypeOK, [Next]_votes
    PROVE  /\ votes \subseteq votes'
           /\ TypeOK'
           /\ \A h \in Heights, r \in Rounds, x \in BlockIDs :
                 Polka(h, r, x) => Polka(h, r, x)'
           /\ \A h \in Heights, v \in Correct, r \in Rounds, x \in BlockIDs :
                 MayCommit(h, v, r, x)' => MayCommit(h, v, r, x)
<1>1. CASE UNCHANGED votes
  BY <1>1 DEF TypeOK, Polka, MayCommit, Reached
<1>2. CASE Next
  <2>1. PICK k \in Heights, u \in Correct, q \in Rounds, z \in BlockIDs :
           \/ Prepare(k, u, q, z)
           \/ Commit(k, u, q, z)
           \/ \E y \in BlockIDs : PrepareAndCommit(k, u, q, z, y)
    BY <1>2 DEF Next
  <2>2. votes \subseteq votes'
    BY <2>1 DEF Prepare, Commit, PrepareAndCommit
  <2>3. TypeOK'
    BY <2>1 DEF TypeOK, Vote, Prepare, Commit, PrepareAndCommit, PrepareVote, CommitVote
  <2>4. \A h \in Heights, r \in Rounds, x \in BlockIDs : Polka(h, r, x) => Polka(h, r, x)'
    BY <2>2 DEF Polka
  <2>5. ASSUME NEW h \in Heights, NEW v \in Correct, NEW r \in Rounds, NEW x \in BlockIDs,
               MayCommit(h, v, r, x)'
        PROVE  MayCommit(h, v, r, x)
    <3>1. CASE Reached(h, v, r, {"prepare"})'
      BY <2>2, <3>1 DEF Reached, MayCommit
    <3>2. CASE CommitVote(h, v, r, x) \in votes'
      <4>1. CASE CommitVote(h, v, r, x) \in votes
        BY <4>1 DEF MayCommit
      <4>2. CASE CommitVote(h, v, r, x) \notin votes
        <5>1. /\ k = h /\ u = v /\ q = r
              /\ Reached(k, u, q, {"prepare"}) \/ Reached(k, u, q, {})
          BY <2>1, <3>2, <4>2
          DEF Prepare, Commit, PrepareAndCommit, PrepareVote, CommitVote
        <5>. QED  BY <5>1 DEF Reached, MayCommit
      <4>. QED  BY <4>1, <4>2
    <3>. QED  BY <2>5, <3>1, <3>2 DEF MayCommit
  <2>. QED  BY <2>2, <2>3, <2>4, <2>5
<1>. QED  BY <1>1, <1>2

(* A step signs no second vote of a type in a round: Reached guards every  *)
(* signature.                                                              *)
LEMMA VotesOnceStep ==
    ASSUME TypeOK, VotesOnce, [Next]_votes
    PROVE  VotesOnce'
<1>1. CASE UNCHANGED votes
  BY <1>1 DEF VotesOnce
<1>2. ASSUME NEW h \in Heights, NEW u \in Correct, NEW q \in Rounds, NEW z \in BlockIDs,
             Prepare(h, u, q, z)
      PROVE  VotesOnce'
  BY <1>2, RoundsAreNat DEF VotesOnce, Prepare, Reached, PrepareVote, TypeOK, Vote
<1>3. ASSUME NEW h \in Heights, NEW u \in Correct, NEW q \in Rounds, NEW z \in BlockIDs,
             Commit(h, u, q, z)
      PROVE  VotesOnce'
  BY <1>3, RoundsAreNat DEF VotesOnce, Commit, Reached, CommitVote, TypeOK, Vote
<1>4. ASSUME NEW h \in Heights, NEW u \in Correct, NEW q \in Rounds, NEW z \in BlockIDs,
             NEW y \in BlockIDs, PrepareAndCommit(h, u, q, z, y)
      PROVE  VotesOnce'
  BY <1>4, RoundsAreNat
  DEF VotesOnce, PrepareAndCommit, Reached, PrepareVote, CommitVote, TypeOK, Vote
<1>. QED  BY <1>1, <1>2, <1>3, <1>4 DEF Next

(* A commit for a block is signed only on a polka of its round. *)
LEMMA CommitsHavePolkaStep ==
    ASSUME TypeOK, CommitsHavePolka, [Next]_votes
    PROVE  CommitsHavePolka'
<1> SUFFICES ASSUME NEW m \in votes', m.type = "commit", m.val \in Blocks
             PROVE  Polka(m.height, m.round, m.val)'
  BY DEF CommitsHavePolka
<1>1. m.height \in Heights /\ m.round \in Rounds /\ m.val \in BlockIDs
  BY StepFacts DEF TypeOK, Vote
<1>2. CASE m \in votes
  BY <1>1, <1>2, StepFacts DEF CommitsHavePolka
<1>3. CASE m \notin votes
  <2>1. PICK h \in Heights, u \in Correct, q \in Rounds, z \in BlockIDs :
           \/ Prepare(h, u, q, z)
           \/ Commit(h, u, q, z)
           \/ \E y \in BlockIDs : PrepareAndCommit(h, u, q, z, y)
    BY <1>3 DEF Next
  <2>2. Polka(m.height, m.round, m.val)
    BY <1>3, <2>1 DEF Prepare, Commit, PrepareAndCommit, PrepareVote, CommitVote
  <2>. QED  BY <1>1, <2>2, StepFacts
<1>. QED  BY <1>2, <1>3

(* A prepare against an earlier commit is signed only when a polka of a    *)
(* later round has released the lock, and polkas never go away.            *)
LEMMA PreparesReleasedStep ==
    ASSUME TypeOK, PreparesReleased, [Next]_votes
    PROVE  /\ PreparesReleased'
           /\ \A m, n \in votes' :
                 (/\ m.by = n.by /\ m.height = n.height
                  /\ m.type = "commit" /\ n.type = "prepare"
                  /\ m.round < n.round /\ m.val \in Blocks /\ n.val # m.val)
                    => PolkaAgainst(m.height, m.round, n.round, m.val)
<1>1. ASSUME NEW m \in votes', NEW n \in votes', m.by = n.by, m.height = n.height,
             m.type = "commit", n.type = "prepare",
             m.round < n.round, m.val \in Blocks, n.val # m.val
      PROVE  PolkaAgainst(m.height, m.round, n.round, m.val)
  <2>1. CASE m \in votes /\ n \in votes
    BY <1>1, <2>1 DEF PreparesReleased
  <2>2. CASE m \notin votes \/ n \notin votes
    <3>1. PICK h \in Heights, u \in Correct, q \in Rounds, z \in BlockIDs :
             \/ Prepare(h, u, q, z)
             \/ Commit(h, u, q, z)
             \/ \E y \in BlockIDs : PrepareAndCommit(h, u, q, z, y)
      BY <2>2 DEF Next
    <3>2. q \in Nat /\ \A k \in votes : k.round \in Nat
      BY RoundsAreNat DEF TypeOK, Vote
    <3>3. m \in votes
      \* a new commit of u is in round q, and u has signed nothing later
      <4>1. SUFFICES ASSUME m \notin votes PROVE FALSE
        OBVIOUS
      <4>2. /\ m.by = u /\ m.height = h /\ m.round = q
            /\ \A k \in votes : k.by = u /\ k.height = h => k.round <= q
        BY <1>1, <3>1, <3>2, <4>1
        DEF Prepare, Commit, PrepareAndCommit, PrepareVote, CommitVote, Reached
      <4>3. n \notin votes
        <5>1. SUFFICES ASSUME n \in votes PROVE FALSE
          OBVIOUS
        <5>2. n.round \in Nat /\ n.round <= q
          BY <1>1, <3>2, <4>2, <5>1
        <5>. QED  BY <1>1, <3>2, <4>2, <5>2
      <4>4. n.round = q
        BY <1>1, <3>1, <4>3 DEF Prepare, Commit, PrepareAndCommit, PrepareVote, CommitVote
      <4>. QED  BY <1>1, <3>2, <4>2, <4>4
    <3>4. n \notin votes
      BY <2>2, <3>3
    <3>5. n.by = u /\ n.height = h /\ n.round = q /\ Released(h, u, q, n.val)
      BY <1>1, <3>1, <3>4 DEF Prepare, Commit, PrepareAndCommit, PrepareVote, CommitVote
    <3>. QED  BY <1>1, <3>3, <3>5 DEF Released
  <2>. QED  BY <2>1, <2>2
<1>2. PreparesReleased'
  <2> SUFFICES ASSUME NEW m \in votes', NEW n \in votes', m.by = n.by, m.height = n.height,
                      m.type = "commit", n.type = "prepare",
                      m.round < n.round, m.val \in Blocks, n.val # m.val
               PROVE  PolkaAgainst(m.height, m.round, n.round, m.val)'
    BY DEF PreparesReleased
  <2>1. PICK s \in Rounds, y \in BlockIDs :
           m.round < s /\ s <= n.round /\ y # m.val /\ Polka(m.height, s, y)
    BY <1>1 DEF PolkaAgainst
  <2>2. m.height \in Heights
    BY StepFacts DEF TypeOK, Vote
  <2>. QED  BY <2>1, <2>2, StepFacts DEF PolkaAgainst
<1>. QED  BY <1>1, <1>2

(* The heart of the argument.  Suppose a step leaves a polka for y in      *)
(* round s although every correct member of Q may still commit, or has     *)
(* committed, x in the earlier round r.  The polka and Q share a correct   *)
(* validator w.  It has prepared in s, so it can no longer commit in r: it *)
(* has committed x there.  Its prepare was therefore released by a polka   *)
(* that existed before the step, and that polka already excluded x.        *)
LEMMA PolkaExcludesStep ==
    ASSUME IInv, [Next]_votes
    PROVE  PolkaExcludes'
<1> USE DEF IInv
<1> SUFFICES ASSUME NEW h \in Heights, NEW r \in Rounds, NEW s \in Rounds,
                    NEW x \in Blocks, NEW y \in BlockIDs,
                    r < s, x # y, Polka(h, s, y)', NEW Q \in Quorums,
                    \A v \in Q \cap Correct : MayCommit(h, v, r, x)'
             PROVE  FALSE
  BY DEF PolkaExcludes
<1>1. r \in Nat /\ s \in Nat /\ x \in BlockIDs
  BY RoundsAreNat DEF Blocks
<1>2. \A v \in Q \cap Correct : MayCommit(h, v, r, x)
  BY <1>1, StepFacts
<1>3. PICK P \in Quorums : \A v \in P \cap Correct : PrepareVote(h, v, s, y) \in votes'
  BY DEF Polka
<1>4. PICK w \in Correct : w \in P /\ w \in Q
  BY VotingAssumption
<1>5. PrepareVote(h, w, s, y) \in votes'
  BY <1>3, <1>4
<1>6. ~Reached(h, w, r, {"prepare"})'
  BY <1>1, <1>5 DEF Reached, PrepareVote
<1>7. CommitVote(h, w, r, x) \in votes'
  BY <1>4, <1>6 DEF MayCommit
<1>8. PICK t \in Rounds, z \in BlockIDs : r < t /\ z # x /\ Polka(h, t, z)
  <2> DEFINE m == CommitVote(h, w, r, x)
             n == PrepareVote(h, w, s, y)
  <2>1. /\ m.by = n.by /\ m.height = h /\ n.height = h
        /\ m.type = "commit" /\ n.type = "prepare"
        /\ m.round = r /\ m.round < n.round /\ m.val = x /\ n.val # m.val
    BY DEF CommitVote, PrepareVote
  <2> HIDE DEF m, n
  <2>2. m \in votes' /\ n \in votes'
    BY <1>5, <1>7 DEF m, n
  <2>3. PolkaAgainst(h, r, n.round, x)
    BY <2>1, <2>2, PreparesReleasedStep
  <2>. QED  BY <2>3 DEF PolkaAgainst
<1>. QED  BY <1>2, <1>8 DEF PolkaExcludes

(* IInv is an invariant of every behaviour of Voting. *)
THEOREM VotingInvariant == Spec => []IInv
<1>1. Init => IInv
  <2> SUFFICES ASSUME Init PROVE IInv
    OBVIOUS
  <2>1. TypeOK /\ VotesOnce /\ CommitsHavePolka /\ PreparesReleased
    BY DEF Init, TypeOK, VotesOnce, CommitsHavePolka, PreparesReleased
  <2>2. PolkaExcludes
    BY VotingAssumption DEF Init, PolkaExcludes, Polka
  <2>. QED  BY <2>1, <2>2 DEF IInv
<1>2. IInv /\ [Next]_votes => IInv'
  BY StepFacts, VotesOnceStep, CommitsHavePolkaStep, PreparesReleasedStep,
     PolkaExcludesStep DEF IInv
<1>. QED  BY <1>1, <1>2, PTL DEF Spec

(* The inductive invariant excludes two decisions: in one round because a  *)
(* correct validator commits once, across rounds because the later         *)
(* decision rests on a polka that excludes the earlier one.                *)
LEMMA IInvImpliesAgreement == IInv => Agreement
<1> SUFFICES ASSUME IInv, NEW h \in Heights,
                    NEW x \in Blocks, NEW y \in Blocks,
                    NEW r \in Rounds, NEW s \in Rounds,
                    NEW P \in Quorums, NEW Q \in Quorums,
                    \A v \in P \cap Correct : CommitVote(h, v, r, x) \in votes,
                    \A v \in Q \cap Correct : CommitVote(h, v, s, y) \in votes,
                    r <= s
             PROVE  x = y
  <2>1. \A r, s \in Rounds : r <= s \/ s <= r
    BY RoundsAreNat
  <2>. QED  BY <2>1 DEF Agreement, Decided
<1>1. CASE r = s
  <2>1. PICK w \in Correct : w \in P /\ w \in Q
    BY VotingAssumption
  <2> DEFINE m == CommitVote(h, w, r, x)
             n == CommitVote(h, w, s, y)
  <2>2. /\ m.by = n.by /\ m.height = n.height /\ m.type = n.type /\ m.round = n.round
        /\ m.val = x /\ n.val = y
    BY <1>1 DEF CommitVote
  <2>3. m \in votes /\ n \in votes
    BY <2>1
  <2> HIDE DEF m, n
  <2>. QED  BY <2>2, <2>3 DEF IInv, VotesOnce
<1>2. CASE r < s
  <2>1. PICK w \in Correct : w \in Q
    BY VotingAssumption
  <2> DEFINE m == CommitVote(h, w, s, y)
  <2>a. m \in votes /\ m.height = h /\ m.type = "commit" /\ m.round = s /\ m.val = y
    BY <2>1 DEF CommitVote
  <2> HIDE DEF m
  <2>2. Polka(h, s, y)
    BY <2>a DEF IInv, CommitsHavePolka
  <2>3. \A v \in P \cap Correct : MayCommit(h, v, r, x)
    BY DEF MayCommit
  <2>. QED  BY <1>2, <2>2, <2>3 DEF IInv, PolkaExcludes, Blocks
<1>. QED  BY <1>1, <1>2, RoundsAreNat

(* At most one block is decided at a height: what enterCommit's lock and   *)
(* addVote's unlock rule are for.                                          *)
THEOREM VotingAgreement == Spec => []Agreement
  BY VotingInvariant, IInvImpliesAgreement, PTL
=============================================================================
