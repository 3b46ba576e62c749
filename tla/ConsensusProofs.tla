--------------------------- MODULE ConsensusProofs ---------------------------
(***************************************************************************)
(* The properties of Consensus for every set of validators, blocks, peers, *)
(* heights and rounds, every division of the power and every set of        *)
(* messages the faulty validators sign.  ConsensusLemmas and               *)
(* ConsensusHandlers follow the steps a handler takes; here the handlers   *)
(* are completed and the steps of the nodes put together.                  *)
(***************************************************************************)
EXTENDS ConsensusHandlers

WithLastCommits(cs, vs) == [cs EXCEPT !.LastCommits = vs]

(* A late commit changes nothing else. *)
LEMMA WithLastCommitsFacts ==
    ASSUME NEW cs \in RoundState, NEW vs \in VoteSets
    PROVE  LET ds == WithLastCommits(cs, vs)
           IN  /\ ds.addr = cs.addr /\ ds.Height = cs.Height /\ ds.Votes = cs.Votes
               /\ ds.LastCommits = vs /\ ds.LastReplyRound = cs.LastReplyRound
               /\ ds.chain = cs.chain /\ ds.panicked = cs.panicked
               /\ ds.Round = cs.Round /\ ds.Step = cs.Step /\ ds.PrePrepare = cs.PrePrepare
               /\ ds.LockedRound = cs.LockedRound /\ ds.LockedBlock = cs.LockedBlock
               /\ ds.ValidRound = cs.ValidRound /\ ds.ValidBlock = cs.ValidBlock
               /\ ds.internalMsgQueue = cs.internalMsgQueue /\ ds.ticks = cs.ticks
               /\ ds.PrePrepareBlock = cs.PrePrepareBlock
               /\ ds.PrePrepareBlockParts = cs.PrePrepareBlockParts
               /\ ds.ReplyRound = cs.ReplyRound
  BY DEF WithLastCommits, RoundState

(* addLastCommit: a commit of the last height that comes before the next   *)
(* has begun.                                                              *)
LEMMA AddLastCommit ==
    ASSUME NEW S, SentOK(S), NEW cs, Ready(cs, S), InRound(cs, S), NEW m \in Message,
           m.kind = "vote"
    PROVE  Goes(cs, addLastCommit(cs, m), S)
<1> DEFINE vs == AddVote(cs.LastCommits, m.by, m.val)
           ds == WithLastCommits(cs, vs)
<1>0. /\ cs \in RoundState /\ Sound(cs, S) /\ FreshOK(cs, S) /\ VotesOK(cs, S) /\ LockOK(cs)
      /\ Held(cs) /\ ~cs.panicked /\ cs.Step \in Nat /\ cs.LockedRound \in Int
  BY StateFacts DEF Ready, Sound
<1>1. Good(vs)
  <2>1. m.by \in Validators /\ m.val \in BlockIDs /\ Good(cs.LastCommits)
    BY <1>0, MessageFacts, Zenon DEF VotesOK
  <2>. QED  BY <2>1, AddVoteIsGood
<1>2. addLastCommit(cs, m) \in {cs, ds, enterNewRound(ds, 0)}
  BY DEF addLastCommit, WithLastCommits
<1> HIDE DEF vs
<1>3. vs \in VoteSets
  BY <1>1 DEF Good
<1>4. ds \in RoundState
  BY <1>0, <1>3 DEF WithLastCommits, RoundState
<1>5. /\ ds.addr = cs.addr /\ ds.Height = cs.Height /\ ds.Votes = cs.Votes
      /\ ds.LastCommits = vs
      /\ ds.chain = cs.chain /\ ds.panicked = cs.panicked
      /\ ds.Round = cs.Round /\ ds.Step = cs.Step
      /\ ds.LockedRound = cs.LockedRound /\ ds.LockedBlock = cs.LockedBlock
      /\ ds.ValidRound = cs.ValidRound /\ ds.ValidBlock = cs.ValidBlock
      /\ ds.internalMsgQueue = cs.internalMsgQueue /\ ds.ticks = cs.ticks
      /\ ds.PrePrepareBlock = cs.PrePrepareBlock
      /\ ds.PrePrepareBlockParts = cs.PrePrepareBlockParts
      /\ ds.ReplyRound = cs.ReplyRound
  BY <1>0, <1>3, WithLastCommitsFacts, Zenon
<1> HIDE DEF ds
<1>6. ds.Votes.sets = cs.Votes.sets
  BY <1>5
<1>7. \A q, t : Maj23(ds, q, t) = Maj23(cs, q, t)
  BY <1>6, SameMaj23
<1>8. cs.Step <= cs.Step /\ cs.LockedRound <= cs.LockedRound
  BY <1>0
<1>9. Onward(cs, ds) /\ LockKept(cs, ds)
  BY <1>5, <1>7, <1>8 DEF Onward, LockKept
<1>10. VotesOK(ds, S)
  BY <1>0, <1>1, <1>5, Zenon DEF VotesOK
<1>11. LockOK(ds) /\ Held(ds)
  BY <1>0, <1>5, <1>7, Zenon DEF LockOK, Held
<1>12. Sound(ds, S) /\ FreshOK(ds, S) /\ FreshVotes(ds, S) = FreshVotes(cs, S)
  BY <1>0, <1>4, <1>5, <1>9, <1>10, <1>11, GoesOn
<1>13. Goes(cs, ds, S) /\ InRound(ds, S) /\ Ready(ds, S)
  BY <1>5, <1>6, <1>9, <1>11, <1>12, Zenon DEF Goes, Ready, InRound
<1>14. 0 \in Rounds
  BY RoundAssumption DEF Rounds
<1>15. Goes(ds, enterNewRound(ds, 0), S)
  BY <1>13, <1>14, EnterNewRound
<1>16. Goes(cs, enterNewRound(ds, 0), S) /\ Goes(cs, cs, S)
  BY <1>13, <1>15, GoesTrans, GoesRefl
<1>. QED  BY <1>2, <1>13, <1>16

(* addVote. *)
LEMMA AddVoteHandled ==
    ASSUME NEW S, SentOK(S), NEW cs, Ready(cs, S), FreshVotes(cs, S) = {}, NEW p \in Peers,
           NEW m, Incoming(m, S), m.kind = "vote", m.height = cs.Height => cs.Height <= MaxHeight
    PROVE  Result(cs, addVote(cs, p, m), S)
<1> DEFINE ds == WithVotes(cs, AddHeightVote(cs.Votes, p, m.round, m.type, m.by, m.val))
           adds == AddsVote(cs.Votes, p, m.round, m.type, m.by, m.val)
<1>0. m \in Message /\ m.round \in Rounds /\ m.type \in VoteTypes /\ InRound(cs, S)
      /\ cs \in RoundState
  BY MessageFacts DEF Incoming, InRound, Ready, Sound
<1>1. addVote(cs, p, m)
        = IF m.height + 1 = cs.Height /\ m.type = "commit" THEN addLastCommit(cs, m)
          ELSE IF m.height # cs.Height THEN cs
          ELSE IF ~adds THEN ds
          ELSE IF m.type = "prepare" THEN PrepareAdded(ds, m.round)
          ELSE CommitAdded(ds, m.round)
  BY DEF addVote, WithVotes
<1>2. Result(cs, addLastCommit(cs, m), S) /\ Result(cs, cs, S)
  BY <1>0, AddLastCommit, GoesRefl, ResultOfGoes
<1>3. ASSUME m.height = cs.Height, m.height + 1 # cs.Height \/ m.type # "commit"
      PROVE  Result(cs, addVote(cs, p, m), S)
  <2>1. /\ Sound(ds, S) /\ FreshOK(ds, S) /\ Onward(cs, ds)
        /\ FreshVotes(ds, S) = FreshVotes(cs, S) /\ ds.Round = cs.Round
        /\ (~adds \/ m.type # "prepare" \/ m.round # cs.Round) => Held(ds)
    BY <1>3, Count
  <2> HIDE DEF ds, adds
  <2>2. /\ ds \in RoundState /\ InRound(ds, S) /\ ds.Height = cs.Height
        /\ FreshVotes(ds, S) = {} /\ ds.Height <= MaxHeight
    BY <1>3, <2>1 DEF Sound, InRound, Onward
  <2>3. ASSUME NEW es, Result(ds, es, S) PROVE Result(cs, es, S)
    <3>1. es \in RoundState
      BY <2>3, Zenon DEF Result, Ready, Sound
    <3>2. CASE Onward(ds, es)
      BY <1>0, <2>1, <2>2, <2>3, <3>1, <3>2, OnwardTrans, Zenon DEF Result
    <3>. QED  BY <2>1, <2>3, <3>2, Zenon DEF Result, Onward
  <2>4. CASE ~adds
    <3>1. addVote(cs, p, m) = ds
      BY <1>1, <1>3, <2>4
    <3>. QED  BY <2>1, <2>4, <3>1 DEF Result, Ready
  <2>5. CASE adds /\ m.type = "prepare"
    <3>1. addVote(cs, p, m) = PrepareAdded(ds, m.round)
      BY <1>1, <1>3, <2>5
    <3>2. Goes(ds, PrepareAdded(ds, m.round), S)
      BY <1>0, <2>1, <2>2, AddedPrepare, Zenon
    <3>. QED  BY <2>3, <3>1, <3>2, ResultOfGoes, Zenon
  <2>6. CASE adds /\ m.type # "prepare"
    <3>1. addVote(cs, p, m) = CommitAdded(ds, m.round)
      BY <1>1, <1>3, <2>6, Zenon
    <3>2. Ready(ds, S)
      BY <2>1, <2>6 DEF Ready
    <3>3. Result(ds, CommitAdded(ds, m.round), S)
      BY <1>0, <2>2, <3>2, AddedCommit, Zenon
    <3>. QED  BY <2>3, <3>1, <3>3
  <2>. QED  BY <2>4, <2>5, <2>6, Zenon
<1> HIDE DEF ds, adds
<1>. QED  BY <1>1, <1>2, <1>3

(* handleMsg. *)
LEMMA HandleMsg ==
    ASSUME NEW S, SentOK(S), NEW cs, Ready(cs, S), FreshVotes(cs, S) = {}, NEW p \in Peers,
           NEW m, Incoming(m, S), m.height = cs.Height => cs.Height <= MaxHeight
    PROVE  Result(cs, handleMsg(cs, p, m), S)
<1>0. m \in Message /\ m.kind \in {"pre_prepare", "part", "vote"} /\ InRound(cs, S)
  BY MessageFacts DEF Incoming, InRound
<1>1. CASE m.kind = "pre_prepare"
  <2>1. handleMsg(cs, p, m) = setPrePrepare(cs, m)
    BY <1>1 DEF handleMsg
  <2>. QED  BY <1>0, <1>1, <2>1, SetPrePrepare, ResultOfGoes, Zenon
<1>2. CASE m.kind = "part"
  <2>1. handleMsg(cs, p, m) = addPrePrepareBlockPart(cs, m)
    BY <1>2 DEF handleMsg
  <2>. QED  BY <1>0, <1>2, <2>1, AddPrePrepareBlockPart
<1>3. CASE m.kind = "vote"
  <2>1. handleMsg(cs, p, m) = addVote(cs, p, m)
    BY <1>3 DEF handleMsg
  <2>. QED  BY <1>3, <2>1, AddVoteHandled
<1>. QED  BY <1>0, <1>1, <1>2, <1>3, Zenon

(* handleTimeout. *)
LEMMA HandleTimeout ==
    ASSUME NEW S, SentOK(S), NEW cs, Ready(cs, S), FreshVotes(cs, S) = {},
           NEW r \in Rounds, r <= cs.Round, NEW s \in TimeoutSteps,
           s = RoundStepCommitWait => r < MaxRound
    PROVE  Goes(cs, handleTimeout(cs, r, s), S)
<1>0. /\ InRound(cs, S) /\ cs \in RoundState /\ cs.Round \in Nat /\ 0 <= cs.Round
      /\ r \in Nat /\ 0 \in Rounds
  BY StateFacts, RoundsAreInts, RoundAssumption DEF InRound, Ready, Sound, Rounds
<1>1. CASE Stale(cs, r, s)
  BY <1>1, GoesRefl DEF handleTimeout
<1>2. CASE ~Stale(cs, r, s)
  <2>1. CASE s = RoundStepNewHeight
    <3>1. handleTimeout(cs, r, s) = enterNewRound(cs, 0)
      BY <1>2, <2>1 DEF handleTimeout, RoundStepNewHeight, RoundStepNewRound, RoundStepPrePrepare,
                        RoundStepPrepareWait, RoundStepCommitWait
    <3>. QED  BY <1>0, <3>1, EnterNewRound
  <2>2. CASE s = RoundStepNewRound
    <3>1. handleTimeout(cs, r, s) = enterPrePrepare(cs, 0)
      BY <1>2, <2>2 DEF handleTimeout, RoundStepNewHeight, RoundStepNewRound, RoundStepPrePrepare,
                        RoundStepPrepareWait, RoundStepCommitWait
    <3>. QED  BY <1>0, <3>1, EnterPrePrepare
  <2>3. CASE s = RoundStepPrePrepare
    <3>1. handleTimeout(cs, r, s) = enterPrepare(cs, r)
      BY <1>2, <2>3, SMTT(30)
         DEF handleTimeout, RoundStepNewHeight, RoundStepNewRound, RoundStepPrePrepare,
             RoundStepPrepareWait, RoundStepCommitWait
    <3>. QED  BY <1>0, <3>1, EnterPrepare
  <2>4. CASE s = RoundStepPrepareWait
    <3>1. handleTimeout(cs, r, s) = enterCommit(cs, r)
      BY <1>2, <2>4 DEF handleTimeout, RoundStepNewHeight, RoundStepNewRound, RoundStepPrePrepare,
                        RoundStepPrepareWait, RoundStepCommitWait
    <3>. QED  BY <1>0, <3>1, EnterCommit
  <2>5. CASE s = RoundStepCommitWait
    <3> DEFINE ds == enterCommit(cs, r)
    <3>1. handleTimeout(cs, r, s) = enterNewRound(ds, r + 1)
      BY <1>2, <2>5 DEF handleTimeout, RoundStepNewHeight, RoundStepNewRound, RoundStepPrePrepare,
                        RoundStepPrepareWait, RoundStepCommitWait
    <3>2. r + 1 \in Rounds /\ r + 1 # 0
      BY <1>0, <2>5, RoundAssumption DEF Rounds
    <3>3. Goes(cs, ds, S)
      BY <1>0, EnterCommit
    <3> HIDE DEF ds
    <3>4. Goes(ds, enterNewRound(ds, r + 1), S)
      BY <3>2, <3>3, EnterNewRound, Zenon DEF Goes
    <3>. QED  BY <3>1, <3>3, <3>4, GoesTrans, Zenon
  <2>. QED  BY <2>1, <2>2, <2>3, <2>4, <2>5, Zenon DEF TimeoutSteps
<1>. QED  BY <1>1, <1>2

(* handleTxsAvailable. *)
LEMMA HandleTxsAvailable ==
    ASSUME NEW S, SentOK(S), NEW cs, Ready(cs, S), FreshVotes(cs, S) = {}
    PROVE  Goes(cs, handleTxsAvailable(cs), S)
<1>0. InRound(cs, S) /\ cs \in RoundState /\ cs.Round \in Nat /\ 0 \in Rounds /\ 0 <= cs.Round
      /\ RoundStepNewRound \in TimeoutSteps
  BY StateFacts, RoundsAreInts, RoundAssumption DEF InRound, Ready, Sound, Rounds, TimeoutSteps
<1>1. handleTxsAvailable(cs)
        \in {cs, scheduleTimeout(cs, 0, RoundStepNewRound), enterPrePrepare(cs, 0)}
  BY DEF handleTxsAvailable
<1>2. Goes(cs, scheduleTimeout(cs, 0, RoundStepNewRound), S)
  BY <1>0, ScheduleTimeout
<1>3. Goes(cs, enterPrePrepare(cs, 0), S) /\ Goes(cs, cs, S)
  BY <1>0, EnterPrePrepare, GoesRefl
<1>. QED  BY <1>1, <1>2, <1>3, Zenon

(* A claim of a majority changes no vote. *)
LEMMA ClaimKeepsVotes ==
    ASSUME NEW vs, Good(vs), NEW p \in Peers, NEW b \in BlockIDs
    PROVE  LET ms == SetPeerMaj23(vs, p, b)
           IN  ms.votes = vs.votes /\ ms.votesByBlock = vs.votesByBlock /\ ms.maj23 = vs.maj23
<1>1. vs \in VoteSets
  BY DEF Good
<1>. QED  BY <1>1 DEF SetPeerMaj23, VoteSets

(* The claim of a peer is recorded. *)
LEMMA HandleMaj23 ==
    ASSUME NEW S, SentOK(S), NEW cs, Ready(cs, S), NEW p \in Peers, NEW r \in Rounds,
           NEW t \in VoteTypes, NEW b \in BlockIDs
    PROVE  Result(cs, [cs EXCEPT !.Votes = SetHeightPeerMaj23(@, p, r, t, b)], S)
<1> DEFINE hvs == cs.Votes
           vs  == SetHeightPeerMaj23(hvs, p, r, t, b)
           ds  == WithVotes(cs, vs)
<1>0. /\ cs \in RoundState /\ VotesOK(cs, S) /\ hvs \in HeightVoteSets /\ cs.Round \in Rounds
  BY StateFacts DEF Ready, Sound
<1>1. \A q \in Rounds, s \in VoteTypes : Good(hvs.sets[q][s])
  BY <1>0, Zenon DEF VotesOK
<1>2. /\ vs \in HeightVoteSets /\ vs.round = hvs.round /\ vs.rounds = hvs.rounds
      /\ vs.peerCatchupRounds = hvs.peerCatchupRounds
      /\ \A q \in Rounds, s \in VoteTypes :
            vs.sets[q][s] = IF q = r /\ s = t /\ r \in hvs.rounds
                            THEN SetPeerMaj23(hvs.sets[q][s], p, b) ELSE hvs.sets[q][s]
  <2> HIDE DEF hvs
  <2>. QED  BY <1>0, <1>1, SetHeightPeerMaj23Facts, SMTT(30)
<1> HIDE DEF vs
<1>3. Tracked(vs, cs.Round + 1)
  BY <1>0, <1>2 DEF VotesOK, Tracked
<1>4. ASSUME NEW q \in Rounds, NEW s \in VoteTypes
      PROVE  /\ Good(vs.sets[q][s]) /\ vs.sets[q][s].votes = hvs.sets[q][s].votes
             /\ vs.sets[q][s].votesByBlock = hvs.sets[q][s].votesByBlock
             /\ vs.sets[q][s].maj23 = hvs.sets[q][s].maj23
  <2>1. Good(hvs.sets[q][s])
    BY <1>1, Zenon
  <2> DEFINE os == hvs.sets[q][s]
  <2> HIDE DEF os
  <2>2. /\ Good(SetPeerMaj23(os, p, b)) /\ SetPeerMaj23(os, p, b).votes = os.votes
        /\ SetPeerMaj23(os, p, b).votesByBlock = os.votesByBlock
        /\ SetPeerMaj23(os, p, b).maj23 = os.maj23
    BY <2>1, SetPeerMaj23IsGood, ClaimKeepsVotes, Zenon DEF os
  <2>3. vs.sets[q][s] \in {SetPeerMaj23(os, p, b), os}
    BY <1>2 DEF os
  <2>. QED  BY <2>1, <2>2, <2>3, Zenon DEF os
<1>5. ASSUME NEW q \in Rounds, NEW s \in VoteTypes
      PROVE  /\ Good(vs.sets[q][s])
             /\ Voters(hvs.sets[q][s]) \subseteq Voters(vs.sets[q][s])
             /\ hvs.sets[q][s].maj23 # NoVote => vs.sets[q][s].maj23 = hvs.sets[q][s].maj23
             /\ \A c \in BlockIDs : \A u \in vs.sets[q][s].votesByBlock[c] \cap Correct :
                   SignedVote(cs.Height, u, q, s, c) \in S
  <2>1. \A c \in BlockIDs : \A u \in hvs.sets[q][s].votesByBlock[c] \cap Correct :
           SignedVote(cs.Height, u, q, s, c) \in S
    BY <1>0 DEF VotesOK
  <2>. QED  BY <1>4, <2>1, Zenon DEF Voters
<1>6. /\ Sound(ds, S) /\ FreshOK(ds, S) /\ Onward(cs, ds)
      /\ Maj23(ds, cs.Round, "prepare") = Maj23(cs, cs.Round, "prepare") => Held(ds)
  BY <1>2, <1>3, <1>5, Grow, Zenon
<1>7. ds.Votes = vs
  BY <1>0, <1>2, WithVotesFacts, Zenon
<1>8. [cs EXCEPT !.Votes = SetHeightPeerMaj23(@, p, r, t, b)] = ds
  BY DEF vs, WithVotes
<1> HIDE DEF ds
<1>9. Maj23(ds, cs.Round, "prepare") = Maj23(cs, cs.Round, "prepare")
  BY <1>0, <1>4, <1>7, SMTT(30) DEF Maj23, getVoteSet, VoteTypes
<1>. QED  BY <1>6, <1>8, <1>9, Zenon DEF Result, Ready

(* Timeouts are dropped: the one that is handled, and those that have      *)
(* become stale.                                                           *)
LEMMA FewerTicks ==
    ASSUME NEW S, SentOK(S), NEW cs, Ready(cs, S), NEW T, T \subseteq cs.ticks
    PROVE  LET ds == [cs EXCEPT !.ticks = T]
           IN  /\ Goes(cs, ds, S) /\ FreshVotes(ds, S) = FreshVotes(cs, S)
               /\ ds.internalMsgQueue = cs.internalMsgQueue
               /\ ds.Round = cs.Round /\ ds.Step = cs.Step /\ ds.ticks = T
<1> DEFINE ds == [cs EXCEPT !.ticks = T]
<1>0. cs \in RoundState
  BY DEF Ready, Sound
<1>1. T \in SUBSET Timeout
  BY <1>0 DEF RoundState
<1>2. ds \in RoundState
  BY <1>0, <1>1, Zenon DEF RoundState
<1>3. /\ Rest(cs, ds) /\ ds.Round = cs.Round /\ ds.Step = cs.Step /\ ds.ticks = T
      /\ ds.internalMsgQueue = cs.internalMsgQueue
  BY <1>0 DEF RoundState, Rest, Frame
<1> HIDE DEF ds
<1>4. cs.Step <= ds.Step
  BY <1>0, <1>3, StateFacts, SMTT(30)
<1>5. Goes(cs, ds, S) /\ FreshVotes(ds, S) = FreshVotes(cs, S)
  BY <1>2, <1>3, <1>4, QuietStep, Zenon
<1>. QED  BY <1>3, <1>5 DEF ds

(* A message is taken off the queue: its signer keeps having signed it. *)
LEMMA Dequeue ==
    ASSUME NEW S, SentOK(S), NEW cs, Ready(cs, S), cs.internalMsgQueue # <<>>,
           Range(cs.internalMsgQueue) \subseteq S
    PROVE  LET ds == [cs EXCEPT !.internalMsgQueue = Tail(cs.internalMsgQueue)]
           IN  /\ Ready(ds, S) /\ Onward(cs, ds) /\ Range(ds.internalMsgQueue) \subseteq S
               /\ Head(cs.internalMsgQueue) \in S
<1> DEFINE q  == cs.internalMsgQueue
           ds == [cs EXCEPT !.internalMsgQueue = Tail(q)]
<1>0. /\ cs \in RoundState /\ Sound(cs, S) /\ Held(cs) /\ q \in Seq(Message)
      /\ VotesOK(cs, S) /\ LockOK(cs) /\ SignedOK(cs, S) /\ PolkasOK(cs, S) /\ ChainOK(cs, S)
      /\ ~cs.panicked
  BY StateFacts, Zenon DEF Ready, Sound
<1>1. Tail(q) \in Seq(Message) /\ Range(Tail(q)) \subseteq Range(q) /\ Head(q) \in Range(q)
  <2>1. q # <<>>
    OBVIOUS
  <2> HIDE DEF q
  <2>. QED  BY <1>0, <2>1, RangeTail, Zenon
<1>2. ds \in RoundState
  <2> HIDE DEF q
  <2>. QED  BY <1>0, <1>1, Zenon DEF RoundState
<1>3. /\ Rest(cs, ds) /\ ds.Round = cs.Round /\ ds.Step = cs.Step /\ ds.ticks = cs.ticks
      /\ ds.internalMsgQueue = Tail(q)
  <2> HIDE DEF q
  <2>. QED  BY <1>0 DEF RoundState, Rest, Frame
<1> HIDE DEF ds
<1>4. cs.Step <= ds.Step
  BY <1>0, <1>3, StateFacts
<1>5. /\ Onward(cs, ds) /\ VotesOK(ds, S) /\ LockOK(ds) /\ Held(ds)
      /\ ds.Votes.sets = cs.Votes.sets /\ ~ds.panicked
  BY <1>0, <1>2, <1>3, <1>4, RestFacts, Zenon
<1>6. /\ ds.addr = cs.addr /\ ds.Height = cs.Height /\ ds.chain = cs.chain
      /\ ds.LockedBlock = cs.LockedBlock /\ ds.LockedRound = cs.LockedRound
  BY <1>3 DEF Rest, Frame
<1>7. Mine(ds, S) = Mine(cs, S) /\ Own(ds, S) = Own(cs, S)
  BY <1>1, <1>3, <1>6, Zenon DEF Mine, Own
<1>8. \A r, t : Maj23(ds, r, t) = Maj23(cs, r, t)
  BY <1>5, SameMaj23
<1>9. SignedOK(ds, S)
  BY <1>0, <1>1, <1>3, <1>6, <1>7, Zenon DEF SignedOK
<1>10. PolkasOK(ds, S)
  BY <1>0, <1>3, <1>6, <1>7, <1>8, SMTT(30) DEF PolkasOK, Overtaken
<1>11. ChainOK(ds, S)
  BY <1>0, <1>6 DEF ChainOK
<1>12. FreshOK(ds, S)
  BY <1>1, <1>3 DEF FreshOK, FreshVotes
<1>. QED  BY <1>1, <1>2, <1>3, <1>5, <1>9, <1>10, <1>11, <1>12, Zenon DEF Ready, Sound, ds

(* More messages of others leave a node sound. *)
LEMMA SoundGrows ==
    ASSUME NEW S, NEW T, S \subseteq T, NEW cs, Sound(cs, S), Mine(cs, T) = Mine(cs, S)
    PROVE  Sound(cs, T)
<1>0. /\ cs \in RoundState /\ ~cs.panicked
      /\ VotesOK(cs, S) /\ LockOK(cs) /\ SignedOK(cs, S) /\ PolkasOK(cs, S) /\ ChainOK(cs, S)
  BY DEF Sound
<1>1. Own(cs, T) = Own(cs, S)
  BY DEF Own
<1>2. VotesOK(cs, T)
  BY <1>0, Zenon DEF VotesOK
<1>3. SignedOK(cs, T)
  BY <1>0, <1>1, Zenon DEF SignedOK
<1>4. PolkasOK(cs, T)
  BY <1>0, <1>1, Zenon DEF PolkasOK
<1>5. ChainOK(cs, T)
  BY <1>0, Zenon DEF ChainOK, QuorumIn
<1>. QED  BY <1>0, <1>2, <1>3, <1>4, <1>5, Zenon DEF Sound

-----------------------------------------------------------------------------
(* Between two steps a node has sent all it signed. *)
LEMMA AtRest ==
    ASSUME IInv, NEW v \in Correct
    PROVE  /\ SentOK(sent) /\ Ready(node[v], sent) /\ FreshVotes(node[v], sent) = {}
           /\ node[v] \in RoundState /\ node[v].addr = v
           /\ Range(node[v].internalMsgQueue) \subseteq sent
<1>1. /\ SentOK(sent) /\ Range(node[v].internalMsgQueue) \subseteq sent /\ node[v].addr = v
      /\ Sound(node[v], sent) /\ Held(node[v])
  BY DEF IInv
<1>2. FreshVotes(node[v], sent) = {}
  BY <1>1, Zenon DEF FreshVotes
<1>. QED  BY <1>1, <1>2 DEF Ready, FreshOK, Sound

(* One node runs a handler and sends what it signs. *)
Moved(v) ==
    /\ Result(node[v], node'[v], sent)
    /\ node' = [node EXCEPT ![v] = node'[v]]
    /\ sent' = sent \cup Range(node'[v].internalMsgQueue)

(* Going on after a result is a result. *)
LEMMA ResultThenGoes ==
    ASSUME NEW S, NEW cs \in RoundState, NEW ds, NEW es, Result(cs, ds, S), Goes(ds, es, S)
    PROVE  Result(cs, es, S)
<1>1. ds \in RoundState /\ es \in RoundState
  BY DEF Result, Goes, Ready, Sound
<1>2. CASE Onward(cs, ds)
  BY <1>1, <1>2, OnwardTrans DEF Goes, Result
<1>. QED  BY <1>2, Zenon DEF Goes, Result, Onward

(* Dropping the stale timeouts completes the step. *)
LEMMA BecomesMoves ==
    ASSUME IInv, NEW v \in Correct, NEW cs, Result(node[v], cs, sent), Becomes(v, cs)
    PROVE  Moved(v)
<1> DEFINE T  == {t \in cs.ticks : ~Stale(cs, t[1], t[2])}
           ds == [cs EXCEPT !.ticks = T]
<1>0. /\ SentOK(sent) /\ node[v] \in RoundState /\ Ready(cs, sent) /\ T \subseteq cs.ticks
      /\ DOMAIN node = Correct
  BY AtRest DEF Result, IInv
<1>1. node' = [node EXCEPT ![v] = ds] /\ sent' = sent \cup Range(cs.internalMsgQueue)
  BY DEF Becomes
<1> HIDE DEF T
<1>2. Goes(cs, ds, sent) /\ ds.internalMsgQueue = cs.internalMsgQueue
  BY <1>0, FewerTicks
<1> HIDE DEF ds
<1>3. node'[v] = ds
  BY <1>0, <1>1
<1>. QED  BY <1>0, <1>1, <1>2, <1>3, ResultThenGoes, SMTT(30) DEF Moved

(* Every step of the specification is one of these. *)
LEMMA NextMoves ==
    ASSUME IInv, Next
    PROVE  \E v \in Correct : Moved(v)
<1>1. PICK v \in Correct :
         \/ ReceiveInternal(v)
         \/ \E p \in Peers \ {Self}, m \in Gossiped \cup Forged : ReceiveFromPeer(v, p, m)
         \/ \E r \in Rounds, s \in TimeoutSteps : ReceiveTimeout(v, r, s)
         \/ ReceiveTxsAvailable(v)
         \/ \E p \in Peers \ {Self}, c \in Claims : ReceiveMaj23(v, p, c[1], c[2], c[3])
  BY DEF Next
<1> DEFINE cs == node[v]
<1>2. /\ SentOK(sent) /\ Ready(cs, sent) /\ FreshVotes(cs, sent) = {} /\ cs \in RoundState
      /\ Range(cs.internalMsgQueue) \subseteq sent
  BY AtRest
<1>3. CASE ReceiveInternal(v)
  <2> DEFINE q  == cs.internalMsgQueue
             ds == [cs EXCEPT !.internalMsgQueue = Tail(q)]
  <2>1. /\ q # <<>> /\ Head(q).height <= MaxHeight /\ Becomes(v, handleMsg(ds, Self, Head(q)))
    BY <1>3 DEF ReceiveInternal
  <2>2. /\ Ready(ds, sent) /\ Onward(cs, ds) /\ Range(ds.internalMsgQueue) \subseteq sent
        /\ Head(q) \in sent
    BY <1>2, <2>1, Dequeue, Zenon
  <2> HIDE DEF q, ds
  <2>3. FreshVotes(ds, sent) = {} /\ Self \in Peers /\ Incoming(Head(q), sent)
    BY <1>2, <2>2, ConsensusAssumption, Zenon DEF FreshVotes, Incoming, SentOK
  <2>4. Result(ds, handleMsg(ds, Self, Head(q)), sent)
    BY <1>2, <2>1, <2>2, <2>3, HandleMsg, Zenon
  <2>5. Result(cs, handleMsg(ds, Self, Head(q)), sent)
    <3> DEFINE es == handleMsg(ds, Self, Head(q))
    <3> HIDE DEF es, cs
    <3>1. ds \in RoundState /\ es \in RoundState
      BY <2>2, <2>4 DEF Result, Ready, Sound, es
    <3>2. Onward(ds, es) => Onward(cs, es)
      BY <1>2, <2>2, <3>1, OnwardTrans, Zenon
    <3>. QED  BY <2>2, <2>4, <3>2, Zenon DEF Result, Onward, es
  <2>. QED  BY <2>1, <2>5, BecomesMoves
<1>4. ASSUME NEW p \in Peers \ {Self}, NEW m \in Gossiped \cup Forged, ReceiveFromPeer(v, p, m)
      PROVE  Moved(v)
  <2>1. Incoming(m, sent)
    BY <1>2, ForgedAssumption DEF Incoming, Gossiped, SentOK
  <2>2. cs.Height <= MaxHeight /\ Becomes(v, handleMsg(cs, p, m))
    BY <1>4 DEF ReceiveFromPeer, Active
  <2>3. Result(cs, handleMsg(cs, p, m), sent)
    BY <1>2, <2>1, <2>2, HandleMsg, Zenon
  <2>. QED  BY <2>2, <2>3, BecomesMoves
<1>5. ASSUME NEW r \in Rounds, NEW s \in TimeoutSteps, ReceiveTimeout(v, r, s)
      PROVE  Moved(v)
  <2> DEFINE T  == cs.ticks \ {<<r, s>>}
             ds == [cs EXCEPT !.ticks = T]
  <2>1. /\ <<r, s>> \in cs.ticks
        /\ s = RoundStepCommitWait => r < MaxRound
        /\ Becomes(v, handleTimeout(ds, r, s)) /\ T \subseteq cs.ticks
    BY <1>5 DEF ReceiveTimeout
  <2> HIDE DEF T
  <2>2. /\ Goes(cs, ds, sent) /\ FreshVotes(ds, sent) = {} /\ ds.Round = cs.Round
    BY <1>2, <2>1, FewerTicks, SMTT(30)
  <2> HIDE DEF ds
  <2>3. r <= ds.Round
    BY <1>2, <2>1, <2>2, Zenon DEF Ready, Sound, LockOK
  <2>4. Goes(ds, handleTimeout(ds, r, s), sent)
    BY <1>2, <2>1, <2>2, <2>3, HandleTimeout, Zenon DEF Goes
  <2>5. Result(cs, handleTimeout(ds, r, s), sent)
    BY <1>2, <2>2, <2>4, GoesTrans, ResultOfGoes, Zenon
  <2>. QED  BY <2>1, <2>5, BecomesMoves
<1>6. CASE ReceiveTxsAvailable(v)
  <2>1. Goes(cs, handleTxsAvailable(cs), sent)
    BY <1>2, HandleTxsAvailable
  <2>2. Becomes(v, handleTxsAvailable(cs))
    BY <1>6 DEF ReceiveTxsAvailable
  <2>. QED  BY <2>1, <2>2, ResultOfGoes, BecomesMoves, Zenon
<1>7. ASSUME NEW p \in Peers \ {Self}, NEW c \in Claims, ReceiveMaj23(v, p, c[1], c[2], c[3])
      PROVE  Moved(v)
  <2>1. c[1] \in Rounds /\ c[2] \in VoteTypes /\ c[3] \in BlockIDs
    BY ConsensusAssumption
  <2> DEFINE ds == [cs EXCEPT !.Votes = SetHeightPeerMaj23(@, p, c[1], c[2], c[3])]
  <2>2. Result(cs, ds, sent)
    BY <1>2, <2>1, HandleMaj23
  <2>3. Becomes(v, ds)
    BY <1>7 DEF ReceiveMaj23
  <2> HIDE DEF ds
  <2>. QED  BY <2>2, <2>3, BecomesMoves
<1>. QED  BY <1>1, <1>3, <1>4, <1>5, <1>6, <1>7, Zenon

(* What one node signs leaves the others as sound as they were. *)
LEMMA MovedKeeps ==
    ASSUME IInv, NEW v \in Correct, Moved(v)
    PROVE  IInv'
<1> DEFINE ds == node'[v]
<1>0. /\ SentOK(sent) /\ node[v].addr = v /\ DOMAIN node = Correct
      /\ Ready(ds, sent) /\ Sound(ds, sent) /\ Held(ds) /\ SignedOK(ds, sent)
      /\ ds \in RoundState /\ ds.addr = v
  BY DEF IInv, Moved, Result, Ready, Sound, Onward
<1>1. sent' = sent \cup Range(ds.internalMsgQueue) /\ sent \subseteq sent'
  BY Zenon DEF Moved
<1>2. \A m \in Range(ds.internalMsgQueue) : m \in Message /\ m.by = v
  BY <1>0, Zenon DEF SignedOK
<1>3. SentOK(sent')
  <2>1. \A m \in Range(ds.internalMsgQueue) : m.kind = "vote" => m.val \in ValidBlocks \cup {Nil}
    BY <1>0, <1>2 DEF SignedOK, Mine
  <2>. QED  BY <1>0, <1>1, <1>2, <2>1, Zenon DEF SentOK
<1>4. ASSUME NEW w \in Correct
      PROVE  /\ node'[w] \in RoundState /\ node'[w].addr = w
             /\ Range(node'[w].internalMsgQueue) \subseteq sent'
             /\ Sound(node'[w], sent') /\ Held(node'[w])
  <2>1. CASE w = v
    <3>1. Mine(ds, sent') = Mine(ds, sent)
      BY <1>1 DEF Mine
    <3>2. Sound(ds, sent')
      BY <1>0, <1>1, <3>1, SoundGrows, Zenon
    <3>. QED  BY <1>0, <1>1, <2>1, <3>2, Zenon
  <2>2. CASE w # v
    <3>1. node'[w] = node[w]
      BY <1>0, <2>2 DEF Moved
    <3>2. /\ node[w] \in RoundState /\ node[w].addr = w /\ Sound(node[w], sent)
          /\ Held(node[w]) /\ Range(node[w].internalMsgQueue) \subseteq sent
      BY DEF IInv
    <3>3. Mine(node[w], sent') = Mine(node[w], sent)
      BY <1>1, <1>2, <2>2, <3>2, Zenon DEF Mine
    <3>4. Sound(node[w], sent')
      BY <1>1, <3>2, <3>3, SoundGrows
    <3>. QED  BY <1>1, <3>1, <3>2, <3>4, Zenon
  <2>. QED  BY <2>1, <2>2
<1>5. node' \in [Correct -> RoundState]
  <2>1. node' = [node EXCEPT ![v] = ds]
    BY Zenon DEF Moved
  <2> HIDE DEF ds
  <2>. QED  BY <1>0, <2>1 DEF IInv
<1>. QED  BY <1>3, <1>4, <1>5, ZenonT(30) DEF IInv

(* The initial state of a node. *)
LEMMA NewStateSound ==
    ASSUME NEW v \in Correct
    PROVE  LET cs == NewState(v)
           IN  /\ cs \in RoundState /\ Sound(cs, {}) /\ Held(cs) /\ cs.addr = v
               /\ Range(cs.internalMsgQueue) = {}
<1> DEFINE cs == NewState(v)
<1>1. cs \in RoundState
  <2>1. /\ 1 \in Heights /\ 0 \in Rounds /\ -1 \in RoundOrNone /\ 1 \in RoundStepNewHeight..RoundStepReply
        /\ RoundStepNewHeight \in TimeoutSteps
    BY ConsensusAssumption, RoundAssumption
    DEF Heights, Rounds, RoundOrNone, RoundStepNewHeight, RoundStepReply, TimeoutSteps
  <2>2. /\ None \in Nilable(Blocks) /\ None \in Nilable(PrePrepareMessage)
        /\ NewHeightVoteSet \in HeightVoteSets /\ NewVoteSet \in VoteSets
    BY NewHeightVoteSetFacts, NewIsGood DEF Nilable, Good
  <2>3. <<0, RoundStepNewHeight>> \in Timeout /\ {<<0, RoundStepNewHeight>>} \in SUBSET Timeout
    BY <2>1 DEF Timeout
  <2>4. <<>> \in Seq(Message) /\ <<>> \in Seq(Blocks)
    BY SMTT(30)
  <2>. QED  BY <2>1, <2>2, <2>3, <2>4, Zenon DEF NewState, RoundState, RoundStepNewHeight
<1>2. /\ cs.addr = v /\ cs.Height = 1 /\ cs.Round = 0 /\ cs.Step = RoundStepNewHeight
      /\ cs.PrePrepareBlock = None /\ cs.LockedBlock = None
      /\ cs.ValidRound = -1 /\ cs.ValidBlock = None /\ cs.Votes = NewHeightVoteSet
      /\ cs.LastCommits = NewVoteSet /\ cs.internalMsgQueue = <<>>
      /\ cs.ticks = {<<0, RoundStepNewHeight>>} /\ cs.chain = <<>> /\ cs.panicked = FALSE
  BY DEF NewState
<1> HIDE DEF cs
<1>3. Range(cs.internalMsgQueue) = {} /\ Mine(cs, {}) = {} /\ Own(cs, {}) = {}
  <2>1. Range(<<>>) = {}
    BY SMTT(30) DEF Range
  <2>. QED  BY <1>2, <2>1 DEF Mine, Own
<1>4. VotesOK(cs, {})
  <2>1. \A r \in Rounds, t \in VoteTypes :
           /\ Good(cs.Votes.sets[r][t])
           /\ \A c \in BlockIDs : cs.Votes.sets[r][t].votesByBlock[c] = {}
    BY <1>2, NewHeightVoteSetFacts, NewVoteSetIsEmpty, NewIsGood, Zenon
  <2>2. Good(cs.LastCommits) /\ cs.Votes.round \in {cs.Round, cs.Round + 1}
    BY <1>2, NewIsGood, NewHeightVoteSetFacts
  <2>3. cs.Round + 1 = 1 /\ Tracked(cs.Votes, 1)
    BY <1>2, NewHeightVoteSetFacts, SMTT(30)
  <2>. QED  BY <2>1, <2>2, <2>3, Zenon DEF VotesOK, Tracked
<1>5. LockOK(cs) /\ Held(cs)
  <2>1. cs.Step # RoundStepReply
    BY <1>2 DEF RoundStepNewHeight, RoundStepReply
  <2>2. ~(cs.ValidRound >= 0) /\ \A t \in cs.ticks : t[1] <= cs.Round
    BY <1>2, SMTT(30)
  <2>. QED  BY <1>2, <2>1, <2>2 DEF LockOK, Held
<1>6. SignedOK(cs, {}) /\ PolkasOK(cs, {}) /\ ChainOK(cs, {})
  <2>1. Len(cs.chain) = cs.Height - 1 /\ DOMAIN cs.chain = {}
    BY <1>2
  <2>. QED  BY <1>3, <2>1, Zenon DEF SignedOK, PolkasOK, ChainOK
<1>. QED  BY <1>1, <1>2, <1>3, <1>4, <1>5, <1>6, Zenon DEF Sound, cs

(* The inductive invariant holds at first. *)
LEMMA InitIInv == Init => IInv
<1> SUFFICES ASSUME Init PROVE IInv
  OBVIOUS
<1>1. sent = {} /\ SentOK(sent)
  BY DEF Init, SentOK
<1>2. \A v \in Correct : /\ node[v] \in RoundState /\ node[v].addr = v
                         /\ Range(node[v].internalMsgQueue) = {}
                         /\ Sound(node[v], sent) /\ Held(node[v])
  BY <1>1, NewStateSound DEF Init
<1>3. node \in [Correct -> RoundState]
  BY <1>2 DEF Init
<1>. QED  BY <1>1, <1>2, <1>3 DEF IInv

(* And every step keeps it. *)
LEMMA NextIInv == IInv /\ [Next]_vars => IInv'
<1> SUFFICES ASSUME IInv, [Next]_vars PROVE IInv'
  OBVIOUS
<1>1. CASE Next
  BY <1>1, NextMoves, MovedKeeps
<1>2. CASE UNCHANGED vars
  BY <1>2 DEF vars, IInv
<1>. QED  BY <1>1, <1>2

(* The inductive invariant of the consensus: whatever messages, timeouts   *)
(* and notifications the handlers of consensus_state.go are run on, every  *)
(* node is sound.                                                          *)
THEOREM ConsensusInvariant == Spec => []IInv
  BY InitIInv, NextIInv, PTL DEF Spec

-----------------------------------------------------------------------------
(* What the invariant says of the messages a node has signed. *)
LEMMA SentIsMine ==
    ASSUME IInv, NEW m \in sent
    PROVE  m.by \in Correct /\ m \in Mine(node[m.by], sent)
  BY DEF IInv, SentOK, Mine

(* The same, for the height a node is at. *)
LEMMA CurrentIsOwn ==
    ASSUME IInv, NEW v \in Correct
    PROVE  Current(v) = Own(node[v], sent)
  BY DEF IInv, Current, Own, Mine

(* The nodes and the messages have their types. *)
THEOREM ConsensusTypes == Spec => []TypeOK
<1>1. IInv => TypeOK
  BY DEF IInv, TypeOK, SentOK
<1>. QED  BY <1>1, ConsensusInvariant, PTL

(* None of the panics of consensus_state.go and of SetRound is reached. *)
THEOREM NodesNeverPanic == Spec => []NoPanic
<1>1. IInv => NoPanic
  BY Zenon DEF IInv, NoPanic, Sound
<1>. QED  BY <1>1, ConsensusInvariant, PTL

(* A validator signs one proposal in a round and one vote of each type,    *)
(* without the check of its private validator.                             *)
THEOREM NodesSignOnce == Spec => []SignsOnce
<1>1. IInv => SignsOnce
  <2> SUFFICES ASSUME IInv, NEW m \in sent, NEW n \in sent, SameSlot(m, n)
               PROVE  m = n
    BY DEF SignsOnce
  <2>1. m.by \in Correct /\ m \in Mine(node[m.by], sent) /\ n \in Mine(node[m.by], sent)
    BY SentIsMine, Zenon DEF SameSlot
  <2>2. SignedOK(node[m.by], sent)
    BY <2>1, Zenon DEF IInv, Sound
  <2>. QED  BY <2>1, <2>2 DEF SignedOK
<1>. QED  BY <1>1, ConsensusInvariant, PTL

(* The lock rule of enterPrepare and enterCommit: a node prepares against  *)
(* its commit only after a later majority for something else.              *)
THEOREM NodesRespectLock == Spec => []PreparesRespectLock
<1>1. IInv => PreparesRespectLock
  <2> SUFFICES ASSUME IInv, NEW v \in Correct, NEW m \in Current(v), NEW n \in Current(v),
                      CommitsBlock(m), IsPrepare(n), n.val # m.val, m.round < n.round
               PROVE  Overtaken(node[v], m, n.round)
    BY DEF PreparesRespectLock
  <2>1. m \in Own(node[v], sent) /\ n \in Own(node[v], sent) /\ PolkasOK(node[v], sent)
    BY CurrentIsOwn, Zenon DEF IInv, Sound
  <2>. QED  BY <2>1 DEF PolkasOK
<1>. QED  BY <1>1, ConsensusInvariant, PTL

(* Locks, valid blocks, commits and repeated proposals rest on majorities  *)
(* of prepares in the vote sets of the node.                               *)
THEOREM LocksRestOnPolkas == Spec => []LocksArePolkas
<1>1. IInv => LocksArePolkas
  <2> SUFFICES ASSUME IInv, NEW v \in Correct
               PROVE  LET cs == node[v]
                      IN  /\ cs.LockedBlock # None =>
                                /\ Maj23(cs, cs.LockedRound, "prepare") = cs.LockedBlock
                                /\ cs.ValidBlock # None
                          /\ cs.ValidBlock # None =>
                                Maj23(cs, cs.ValidRound, "prepare") = cs.ValidBlock
                          /\ cs.PrePrepareBlock # None =>
                                cs.PrePrepareBlockParts = cs.PrePrepareBlock
                          /\ \A m \in Current(v) :
                                /\ CommitsBlock(m) => Maj23(cs, m.round, "prepare") = m.val
                                /\ m.kind = "pre_prepare" /\ m.polRound >= 0
                                      => Maj23(cs, m.polRound, "prepare") = m.block
    BY DEF LocksArePolkas
  <2>1. LockOK(node[v]) /\ PolkasOK(node[v], sent) /\ Current(v) = Own(node[v], sent)
    BY CurrentIsOwn, ZenonT(30) DEF IInv, Sound
  <2>. QED  BY <2>1, Zenon DEF LockOK, PolkasOK
<1>. QED  BY <1>1, ConsensusInvariant, PTL

(* The vote sets a node keeps are bounded by its round and by two for each *)
(* peer, as HeightVoteSet.AddVote promises.                                *)
THEOREM VoteSetsAreBounded == Spec => []TrackedAreBounded
<1>1. IInv => TrackedAreBounded
  BY DEF IInv, Sound, VotesOK, TrackedAreBounded
<1>. QED  BY <1>1, ConsensusInvariant, PTL

-----------------------------------------------------------------------------
(* A node that stays at its height goes on. *)
LEMMA StaysOnward ==
    ASSUME IInv, Next, NEW w \in Correct, node'[w].Height = node[w].Height
    PROVE  Onward(node[w], node'[w])
<1>0. node[w] \in RoundState /\ node[w].Height \in Nat /\ node[w].Step \in Nat /\ DOMAIN node = Correct
  BY StateFacts DEF IInv
<1>1. PICK v \in Correct : Moved(v)
  BY NextMoves
<1>2. CASE w = v
  <2>1. node'[w].Height # node[w].Height + 1
    BY <1>0, SMTT(30)
  <2>. QED  BY <1>1, <1>2, <2>1 DEF Moved, Result
<1>3. CASE w # v
  <2>1. node'[w] = node[w]
    BY <1>0, <1>1, <1>3 DEF Moved
  <2>2. node[w].Step <= node[w].Step
    BY <1>0
  <2>. QED  BY <2>1, <2>2 DEF Onward
<1>. QED  BY <1>2, <1>3, Zenon

(* Within a height the round and the step of a node never go back. *)
THEOREM NodesMoveForward == Spec => MovesForward
<1>1. IInv /\ [Next]_vars =>
        [\A v \in Correct :
           node'[v].Height = node[v].Height =>
              \/ node[v].Round < node'[v].Round
              \/ node[v].Round = node'[v].Round /\ node[v].Step <= node'[v].Step]_vars
  BY StaysOnward DEF Onward
<1>. QED  BY <1>1, ConsensusInvariant, PTL DEF Spec, MovesForward

(* Within a height no vote set forgets a validator it has counted. *)
THEOREM NodesKeepVotes == Spec => VotesAreKept
<1>1. IInv /\ [Next]_vars =>
        [\A v \in Correct :
           node'[v].Height = node[v].Height =>
              \A r \in Rounds, t \in VoteTypes :
                 Voters(node[v].Votes.sets[r][t])
                    \subseteq Voters(node'[v].Votes.sets[r][t])]_vars
  BY StaysOnward DEF Onward
<1>. QED  BY <1>1, ConsensusInvariant, PTL DEF Spec, VotesAreKept

-----------------------------------------------------------------------------
(* The votes a step adds are those its node has just signed. *)
LEMMA FreshAreAdded ==
    ASSUME IInv, NEW v \in Correct, Moved(v)
    PROVE  VotesSigned' = VotesSigned \cup FreshVotes(node'[v], sent)
  BY DEF Moved, VotesSigned, FreshVotes

(* A quorum of prepares is a polka of Voting. *)
LEMMA QuorumIsPolka ==
    ASSUME NEW h, NEW r, NEW x, QuorumIn(sent, h, r, "prepare", x)
    PROVE  Voting!Polka(h, r, x)
<1>1. PICK Q \in Quorums : \A u \in Q \cap Correct : SignedVote(h, u, r, "prepare", x) \in sent
  BY DEF QuorumIn
<1>2. Q \in Voting!Quorums
  BY DEF Quorums, Voting!Quorums, QuorumPower, Voting!QuorumPower
<1>3. \A u \in Q \cap Correct : Voting!PrepareVote(h, u, r, x) \in VotesSigned
  <2> SUFFICES ASSUME NEW u \in Q \cap Correct
               PROVE  Voting!PrepareVote(h, u, r, x) \in VotesSigned
    OBVIOUS
  <2>1. SignedVote(h, u, r, "prepare", x) \in sent /\ SignedVote(h, u, r, "prepare", x).kind = "vote"
    BY <1>1 DEF SignedVote
  <2>2. Voting!PrepareVote(h, u, r, x) = SignedVote(h, u, r, "prepare", x)
    BY DEF SignedVote, Voting!PrepareVote
  <2>. QED  BY <2>1, <2>2 DEF VotesSigned
<1>. QED  BY <1>2, <1>3 DEF Voting!Polka

(* What obeys the rules may be signed in Voting. *)
LEMMA ObeysReached ==
    ASSUME NEW m, Obeys(m, sent)
    PROVE  /\ IsPrepare(m) => Voting!Reached(m.height, m.by, m.round, {})
           /\ Voting!Reached(m.height, m.by, m.round, {"prepare"})
<1>1. \A n \in VotesSigned : n.by = m.by /\ n.height = m.height =>
         n.round < m.round \/ (n.round = m.round /\ n.type = "prepare" /\ m.type = "commit")
  BY Zenon DEF Obeys, VotesOf, VotesSigned
<1>. QED  BY <1>1 DEF Voting!Reached, IsPrepare

(* A prepare that obeys the rules is released. *)
LEMMA ObeysReleased ==
    ASSUME NEW m, Obeys(m, sent), IsPrepare(m)
    PROVE  Voting!Released(m.height, m.by, m.round, m.val)
<1> SUFFICES ASSUME NEW n \in VotesSigned, n.by = m.by, n.height = m.height,
                    n.type = "commit", n.val \in Blocks \ {m.val}, n.round < m.round
             PROVE  Voting!PolkaAgainst(m.height, n.round, m.round, n.val)
  BY DEF Voting!Released, Voting!Blocks, Blocks
<1>1. n \in VotesOf(m.by, m.height, sent) /\ CommitsBlock(n) /\ n.val # m.val
  BY DEF VotesSigned, VotesOf, CommitsBlock, Blocks
<1>2. PICK s \in Rounds, y \in BlockIDs : /\ n.round < s /\ s <= m.round /\ y # n.val
                                          /\ QuorumIn(sent, n.height, s, "prepare", y)
  BY <1>1, Zenon DEF Obeys
<1>3. Voting!Polka(m.height, s, y)
  BY <1>2, QuorumIsPolka, Zenon
<1>. QED  BY <1>2, <1>3, Zenon DEF Voting!PolkaAgainst, Voting!Rounds, Rounds

(* A step signs at most a prepare and a commit of one round, and each as   *)
(* Voting allows.                                                          *)
LEMMA MovedVotes ==
    ASSUME IInv, NEW v \in Correct, Moved(v)
    PROVE  UNCHANGED VotesSigned \/ Voting!Next
<1> DEFINE ds == node'[v]
           F  == FreshVotes(ds, sent)
<1>0. /\ SentOK(sent) /\ SignedOK(ds, sent) /\ FreshOK(ds, sent) /\ ds.addr = v
      /\ VotesSigned' = VotesSigned \cup F
  BY FreshAreAdded, ZenonT(30) DEF IInv, Moved, Result, Ready, Sound, Onward
<1>1. ASSUME NEW m \in F
      PROVE  /\ m \in VoteMessage /\ m.by = v /\ m.height \in Heights /\ m.round \in Rounds
             /\ m.val \in BlockIDs /\ m.type \in {"prepare", "commit"} /\ m.kind = "vote"
             /\ Obeys(m, sent) /\ m \in Mine(ds, sent)
  <2>1. m \in Message /\ m.by = v /\ m.kind = "vote" /\ Obeys(m, sent)
    BY <1>0, Zenon DEF SignedOK, FreshOK, FreshVotes
  <2>2. m \in Mine(ds, sent)
    BY <1>0, <2>1, Zenon DEF Mine, FreshVotes
  <2>. QED  BY <2>1, <2>2, MessageFacts, Zenon DEF VoteTypes
<1>2. ASSUME NEW m \in F, NEW n \in F
      PROVE  /\ n.height = m.height /\ n.round = m.round
             /\ n.type = m.type => n = m
  <2>1. n.height = m.height /\ n.round = m.round
    BY <1>0, Zenon DEF FreshOK
  <2>2. n.type = m.type => SameSlot(m, n)
    BY <1>1, <2>1 DEF SameSlot
  <2>. QED  BY <1>0, <1>1, <2>1, <2>2, Zenon DEF SignedOK
<1>3. ASSUME NEW m \in F
      PROVE  /\ m.type = "prepare" => m = Voting!PrepareVote(m.height, v, m.round, m.val)
             /\ m.type = "commit" => m = Voting!CommitVote(m.height, v, m.round, m.val)
  <2>1. m = SignedVote(m.height, v, m.round, m.type, m.val)
    BY <1>1, VoteIsSigned, Zenon
  <2>. QED  BY <2>1, Zenon DEF SignedVote, Voting!PrepareVote, Voting!CommitVote
<1>4. ASSUME NEW m \in F, m.type = "prepare"
      PROVE  /\ Voting!Reached(m.height, v, m.round, {})
             /\ Voting!Released(m.height, v, m.round, m.val)
  BY <1>1, <1>4, ObeysReached, ObeysReleased, Zenon DEF IsPrepare
<1>5. ASSUME NEW m \in F, m.type = "commit"
      PROVE  /\ Voting!Reached(m.height, v, m.round, {"prepare"})
             /\ m.val \in Voting!Blocks => Voting!Polka(m.height, m.round, m.val)
  <2>1. m.val \in Voting!Blocks => CommitsBlock(m)
    BY <1>1, <1>5 DEF CommitsBlock, Voting!Blocks
  <2>. QED  BY <1>1, <2>1, ObeysReached, QuorumIsPolka, Zenon DEF Obeys
<1>6. Voting!Rounds = Rounds
  BY DEF Voting!Rounds, Rounds
<1> HIDE DEF F
<1>7. CASE F = {}
  BY <1>0, <1>7, Zenon
<1>8. ASSUME NEW p \in F, p.type = "prepare", NEW c \in F, c.type = "commit"
      PROVE  Voting!Next
  <2>1. F = {p, c}
    BY <1>1, <1>2, <1>8
  <2>2. c.height = p.height /\ c.round = p.round
    BY <1>2, Zenon
  <2>3. Voting!PrepareAndCommit(p.height, v, p.round, p.val, c.val)
    BY <1>0, <1>3, <1>4, <1>5, <1>8, <2>1, <2>2, Zenon DEF Voting!PrepareAndCommit
  <2>. QED  BY <1>1, <1>6, <2>3, Zenon DEF Voting!Next
<1>9. ASSUME NEW p \in F, p.type = "prepare", \A c \in F : c.type # "commit"
      PROVE  Voting!Next
  <2>1. F = {p}
    BY <1>1, <1>2, <1>9, ZenonT(30)
  <2>2. Voting!Prepare(p.height, v, p.round, p.val)
    BY <1>0, <1>3, <1>4, <1>9, <2>1, Zenon DEF Voting!Prepare
  <2>. QED  BY <1>1, <1>6, <2>2, Zenon DEF Voting!Next
<1>10. ASSUME NEW c \in F, c.type = "commit", \A p \in F : p.type # "prepare"
       PROVE  Voting!Next
  <2>1. F = {c}
    BY <1>1, <1>2, <1>10, ZenonT(30)
  <2>2. Voting!Commit(c.height, v, c.round, c.val)
    BY <1>0, <1>3, <1>5, <1>10, <2>1, Zenon DEF Voting!Commit
  <2>. QED  BY <1>1, <1>6, <2>2, Zenon DEF Voting!Next
<1>. QED  BY <1>1, <1>7, <1>8, <1>9, <1>10, Zenon

(* The state machine implements Voting: whatever the handlers of           *)
(* consensus_state.go do, they sign votes by its rules.                    *)
THEOREM ConsensusImplementsVoting == Spec => ImplementsVoting
<1>1. Init => Voting!Init
  BY DEF Init, Voting!Init, VotesSigned
<1>2. IInv /\ [Next]_vars => [UNCHANGED VotesSigned \/ Voting!Next]_vars
  BY NextMoves, MovedVotes
<1>. QED  BY <1>1, <1>2, ConsensusInvariant, PTL DEF Spec, ImplementsVoting

-----------------------------------------------------------------------------
(* Agreement, from the agreement of Voting. *)
VP == INSTANCE VotingProofs WITH votes <- VotesSigned

(* The two instances have the same steps. *)
LEMMA SameVoting == /\ Voting!Init => VP!Init
                    /\ Voting!Next => VP!Next
<1>1. Voting!Init => VP!Init
  BY Zenon DEF Voting!Init, VP!Init
<1>2. \A h, r, x : Voting!Polka(h, r, x) <=> VP!Polka(h, r, x)
  BY DEF Voting!Polka, VP!Polka, Voting!PrepareVote, VP!PrepareVote,
         Voting!Quorums, VP!Quorums, Voting!QuorumPower, VP!QuorumPower
<1>3. \A h, v, r, T : Voting!Reached(h, v, r, T) <=> VP!Reached(h, v, r, T)
  BY DEF Voting!Reached, VP!Reached
<1>4. \A h, v, r, x : Voting!Released(h, v, r, x) <=> VP!Released(h, v, r, x)
  BY <1>2, SMTT(30) DEF Voting!Released, VP!Released, Voting!PolkaAgainst, VP!PolkaAgainst,
              Voting!Rounds, VP!Rounds, Voting!Blocks, VP!Blocks
<1>5. \A h, v, r, x : Voting!Prepare(h, v, r, x) => VP!Prepare(h, v, r, x)
  BY <1>3, <1>4, Zenon DEF Voting!Prepare, VP!Prepare, Voting!PrepareVote, VP!PrepareVote
<1>6. \A h, v, r, x : Voting!Commit(h, v, r, x) => VP!Commit(h, v, r, x)
  BY <1>2, <1>3, Zenon DEF Voting!Commit, VP!Commit, Voting!CommitVote, VP!CommitVote,
                    Voting!Blocks, VP!Blocks
<1>7. \A h, v, r, x, y :
         Voting!PrepareAndCommit(h, v, r, x, y) => VP!PrepareAndCommit(h, v, r, x, y)
  BY <1>2, <1>3, <1>4, SMTT(30) DEF Voting!PrepareAndCommit, VP!PrepareAndCommit,
                          Voting!PrepareVote, VP!PrepareVote, Voting!CommitVote, VP!CommitVote,
                          Voting!Blocks, VP!Blocks
<1>8. Voting!Next => VP!Next
  BY <1>5, <1>6, <1>7 DEF Voting!Next, VP!Next, Voting!Rounds, VP!Rounds
<1>. QED  BY <1>1, <1>8

(* If the faulty validators have less than 16 of the 30 units of power, no *)
(* two nodes append different blocks at a height.                          *)
THEOREM NodesAgree ==
    ASSUME PowerOf[Validators \ Correct] < 16 * Unit
    PROVE  Spec => []ChainsAgree
<1>1. Init => VP!Init
  BY SameVoting, Zenon DEF Init, Voting!Init, VotesSigned
<1>2. IInv /\ [Next]_vars => [VP!Next]_VotesSigned
  <2> SUFFICES ASSUME IInv, [Next]_vars PROVE [VP!Next]_VotesSigned
    OBVIOUS
  <2>1. CASE Next
    BY <2>1, NextMoves, MovedVotes, SameVoting, Zenon
  <2>2. CASE UNCHANGED vars
    BY <2>2 DEF vars, VotesSigned
  <2>. QED  BY <2>1, <2>2, Zenon
<1>3. Spec => VP!Spec
  BY <1>1, <1>2, ConsensusInvariant, PTL DEF Spec, VP!Spec
<1>4. VP!VotingAssumption
  <2>1. Correct \in SUBSET Validators /\ MaxRound \in Nat
    BY ConsensusAssumption, RoundAssumption, Zenon
  <2>2. \A P, Q \in Quorums : P \cap Q \cap Correct # {}
    BY <2>1, QuorumsShareCorrect, Zenon
  <2>3. VP!Quorums = Quorums
    BY DEF VP!Quorums, Quorums, VP!QuorumPower, QuorumPower
  <2>. QED  BY <2>1, <2>2, <2>3, Zenon DEF VP!VotingAssumption
<1>5. VP!Spec => []VP!Agreement
  <2>1. VP!PowerAssumption
    BY PowerAssumption DEF VP!PowerAssumption, VP!TotalVotingPower, TotalVotingPower
  <2>. QED  BY <1>4, <2>1, NilAssumption, VP!VotingAgreement, Zenon
<1>6. IInv /\ VP!Agreement => ChainsAgree
  <2> SUFFICES ASSUME IInv, VP!Agreement, NEW v \in Correct, NEW w \in Correct,
                      NEW h \in DOMAIN node[v].chain \cap DOMAIN node[w].chain
               PROVE  node[v].chain[h] = node[w].chain[h]
    BY DEF ChainsAgree
  <2>1. ASSUME NEW u \in Correct, h \in DOMAIN node[u].chain
        PROVE  /\ h \in Heights /\ node[u].chain[h] \in VP!Blocks
               /\ VP!Decided(h, node[u].chain[h])
    <3> DEFINE cs == node[u]
               x  == cs.chain[h]
    <3>1. /\ cs.chain \in Seq(Blocks) /\ cs.Height \in Heights /\ Len(cs.chain) = cs.Height - 1
          /\ \E r \in Rounds : QuorumIn(sent, h, r, "commit", x)
      BY <2>1, Zenon DEF IInv, Sound, ChainOK, RoundState
    <3>2. h \in 1..Len(cs.chain) /\ x \in Blocks
      BY <2>1, <3>1, SMTT(30)
    <3>3. h \in Heights
      BY <3>1, <3>2, ConsensusAssumption, SMTT(30) DEF Heights
    <3>4. PICK r \in Rounds, Q \in Quorums :
             \A y \in Q \cap Correct : SignedVote(h, y, r, "commit", x) \in sent
      BY <3>1, Zenon DEF QuorumIn
    <3>5. \A y \in Q \cap Correct : VP!CommitVote(h, y, r, x) \in VotesSigned
      <4> SUFFICES ASSUME NEW y \in Q \cap Correct
                   PROVE  VP!CommitVote(h, y, r, x) \in VotesSigned
        BY Zenon
      <4>1. /\ SignedVote(h, y, r, "commit", x) \in sent
            /\ SignedVote(h, y, r, "commit", x).kind = "vote"
        BY <3>4, Zenon DEF SignedVote
      <4>2. VP!CommitVote(h, y, r, x) = SignedVote(h, y, r, "commit", x)
        BY DEF SignedVote, VP!CommitVote
      <4>. QED  BY <4>1, <4>2, Zenon DEF VotesSigned
    <3>6. r \in VP!Rounds /\ Q \in VP!Quorums
      BY Zenon DEF VP!Rounds, Rounds, VP!Quorums, Quorums, VP!QuorumPower, QuorumPower
    <3> HIDE DEF x
    <3>7. VP!Decided(h, x)
      BY <3>5, <3>6, Zenon DEF VP!Decided
    <3>. QED  BY <3>2, <3>3, <3>7, Zenon DEF VP!Blocks, Blocks, x
  <2>2. h \in DOMAIN node[v].chain /\ h \in DOMAIN node[w].chain
    OBVIOUS
  <2>. QED  BY <2>1, <2>2 DEF VP!Agreement
<1>. QED  BY <1>3, <1>5, <1>6, ConsensusInvariant, PTL
=============================================================================
