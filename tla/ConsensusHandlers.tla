------------------------- MODULE ConsensusHandlers -------------------------
(***************************************************************************)
(* What the commit vote, the end of a height, a block part and a counted   *)
(* vote keep true of their node, from the lemmas about the steps of a      *)
(* round.                                                                  *)
(***************************************************************************)
EXTENDS ConsensusLemmas

(* The blocks a node holds, is locked on and keeps as valid.               *)

Blocked(cs, lr, lb, vr, vb, b, h) ==
    [cs EXCEPT !.LockedRound = lr, !.LockedBlock = lb, !.ValidRound = vr, !.ValidBlock = vb,
               !.PrePrepareBlock = b, !.PrePrepareBlockParts = h]

(* A change of the blocks leaves a round state. *)
LEMMA BlockedType ==
    ASSUME NEW cs \in RoundState, NEW lr \in RoundOrNone, NEW lb \in Nilable(Blocks),
           NEW vr \in RoundOrNone, NEW vb \in Nilable(Blocks),
           NEW b \in Nilable(Blocks), NEW h \in Nilable(Blocks)
    PROVE  Blocked(cs, lr, lb, vr, vb, b, h) \in RoundState
  BY Zenon DEF Blocked, RoundState

IsBlocked(cs, ds, lr, lb, vr, vb, b, h) ==
    /\ Frame(cs, ds) /\ ds.Round = cs.Round /\ ds.Step = cs.Step
    /\ ds.PrePrepare = cs.PrePrepare /\ ds.ReplyRound = cs.ReplyRound
    /\ ds.internalMsgQueue = cs.internalMsgQueue /\ ds.ticks = cs.ticks
    /\ ds.LockedRound = lr /\ ds.LockedBlock = lb
    /\ ds.ValidRound = vr /\ ds.ValidBlock = vb
    /\ ds.PrePrepareBlock = b /\ ds.PrePrepareBlockParts = h

(* What a change of the blocks sets, and what it leaves. *)
LEMMA BlockedFacts ==
    ASSUME NEW cs \in RoundState, NEW lr, NEW lb, NEW vr, NEW vb, NEW b, NEW h
    PROVE  IsBlocked(cs, Blocked(cs, lr, lb, vr, vb, b, h), lr, lb, vr, vb, b, h)
  BY DEF IsBlocked, Blocked, RoundState, Frame

(* The updates of the handlers. *)
LEMMA RelockForm ==
    ASSUME NEW cs \in RoundState, NEW r
    PROVE  [cs EXCEPT !.LockedRound = r]
              = Blocked(cs, r, cs.LockedBlock, cs.ValidRound, cs.ValidBlock,
                        cs.PrePrepareBlock, cs.PrePrepareBlockParts)
  BY Zenon DEF Blocked, RoundState

(* enterCommit locks. *)
LEMMA LockForm ==
    ASSUME NEW cs \in RoundState, NEW r, NEW b
    PROVE  [cs EXCEPT !.LockedRound = r, !.LockedBlock = b]
              = Blocked(cs, r, b, cs.ValidRound, cs.ValidBlock,
                        cs.PrePrepareBlock, cs.PrePrepareBlockParts)
  BY Zenon DEF Blocked, RoundState

(* enterCommit gives up the lock for a block it does not have. *)
LEMMA ReleaseForm ==
    ASSUME NEW cs \in RoundState, NEW b, NEW h
    PROVE  [Unlocked(cs) EXCEPT !.PrePrepareBlock = b, !.PrePrepareBlockParts = h]
              = Blocked(cs, -1, None, cs.ValidRound, cs.ValidBlock, b, h)
  BY Zenon DEF Blocked, RoundState, Unlocked

(* A change of these blocks alone. *)
LEMMA Relock ==
    ASSUME NEW S, SentOK(S), NEW cs, Sound(cs, S), FreshOK(cs, S), NEW ds \in RoundState,
           Frame(cs, ds), ds.Round = cs.Round, ds.Step = cs.Step,
           ds.internalMsgQueue = cs.internalMsgQueue,
           LockKept(cs, ds), LockOK(ds), Held(ds)
    PROVE  /\ Goes(cs, ds, S) /\ FreshVotes(ds, S) = FreshVotes(cs, S)
           /\ InRound(cs, S) => InRound(ds, S)
<1>0. cs \in RoundState /\ VotesOK(cs, S) /\ ~cs.panicked
  BY DEF Sound
<1>1. cs.Step <= ds.Step
  BY <1>0, StateFacts
<1>2. /\ Onward(cs, ds) /\ VotesOK(ds, S) /\ ds.Votes.sets = cs.Votes.sets /\ ~ds.panicked
  BY <1>0, <1>1, FrameFacts
<1>3. Sound(ds, S) /\ FreshOK(ds, S) /\ FreshVotes(ds, S) = FreshVotes(cs, S)
  BY <1>2, GoesOn
<1>. QED  BY <1>2, <1>3, Zenon DEF Goes, Ready, InRound, Onward

(* The commit vote, for nil or for the block the node is locked on. *)
LEMMA SignCommit ==
    ASSUME NEW S, SentOK(S), NEW cs, Ready(cs, S), InRound(cs, S), cs.Step < RoundStepCommit,
           NEW b \in ValidBlocks \cup {Nil},
           b # Nil => /\ Maj23(cs, cs.Round, "prepare") = b
                      /\ cs.LockedBlock = b /\ cs.LockedRound = cs.Round
    PROVE  LET ds == Stepped(signAddVote(cs, "commit", b), cs.Round, RoundStepCommit)
           IN  Goes(cs, ds, S) /\ InRound(ds, S) /\ ds.Round = cs.Round
<1> DEFINE x  == SignedVote(cs.Height, cs.addr, cs.Round, "commit", b)
           es == sendInternalMessage(cs, x)
           ds == Stepped(es, cs.Round, RoundStepCommit)
<1>0. cs \in RoundState /\ cs.Round \in Rounds /\ cs.Step \in Nat
  BY StateFacts DEF Ready, Sound
<1>1. signAddVote(cs, "commit", b) = es
  BY SignAddVoteIs
<1>2. x \in Message
  BY <1>0, NotBlocks, VoteIsMessage DEF VoteTypes
<1>3. /\ x.kind = "vote" /\ x.type = "commit" /\ x.val = b /\ x.round = cs.Round
      /\ x.height = cs.Height /\ x.by = cs.addr
  BY DEF SignedVote
<1> HIDE DEF x
<1>4. /\ es \in RoundState /\ Rest(cs, es) /\ es.ticks = cs.ticks
      /\ es.internalMsgQueue = Append(cs.internalMsgQueue, x)
  BY <1>0, <1>2, SendType, SendFacts
<1> HIDE DEF es
<1>5. /\ Rest(es, ds) /\ ds.Round = cs.Round /\ ds.Step = RoundStepCommit /\ ds.ticks = es.ticks
      /\ ds.internalMsgQueue = es.internalMsgQueue
  BY <1>4, SteppedFacts
<1>6. ds \in RoundState
  BY <1>0, <1>4, SteppedType DEF RoundStepCommit, RoundStepNewHeight, RoundStepReply
<1> HIDE DEF ds
<1>7. Rest(cs, ds)
  BY <1>4, <1>5 DEF Rest, Frame
<1>8. Signs(cs, ds, x)
  <2>1. StepOf(x) = RoundStepCommit
    BY <1>3 DEF StepOf
  <2>2. StepOf(x) <= ds.Step
    BY <1>5, <2>1 DEF RoundStepCommit
  <2>3. CommitsBlock(x) => /\ Maj23(ds, x.round, "prepare") = x.val
                           /\ ds.LockedBlock = x.val /\ ds.LockedRound = x.round
    <3>0. ds.Votes.sets = cs.Votes.sets
      BY <1>7 DEF Rest, Frame
    <3>1. Maj23(ds, cs.Round, "prepare") = Maj23(cs, cs.Round, "prepare")
      BY <3>0, SameMaj23
    <3>2. ds.LockedBlock = cs.LockedBlock /\ ds.LockedRound = cs.LockedRound
      BY <1>7 DEF Rest
    <3>. QED  BY <1>3, <3>1, <3>2 DEF CommitsBlock
  <2>. QED  BY <1>2, <1>3, <1>4, <1>5, <2>1, <2>2, <2>3, Zenon DEF Signs, IsPrepare
<1>9. ds.Step < RoundStepReply /\ cs.Step <= ds.Step
  BY <1>0, <1>5 DEF RoundStepCommit, RoundStepReply
<1>10. Goes(cs, ds, S) /\ InRound(ds, S)
  BY <1>4, <1>5, <1>6, <1>7, <1>8, <1>9, SigningStep, Zenon
<1>. QED  BY <1>1, <1>5, <1>10 DEF ds

(* A majority of the round for something else releases the lock. *)
LEMMA Releases ==
    ASSUME NEW S, NEW cs, Sound(cs, S), NEW ds, Frame(cs, ds), ds.Round = cs.Round,
           Maj23(cs, cs.Round, "prepare") \notin {NoVote, cs.LockedBlock}
    PROVE  LockKept(cs, ds)
<1>0. /\ cs \in RoundState /\ LockOK(cs)
      /\ cs.Round \in Rounds /\ cs.Round \in Nat /\ cs.LockedRound \in Int
  BY StateFacts, Zenon DEF Sound
<1>1. Maj23(ds, cs.Round, "prepare") = Maj23(cs, cs.Round, "prepare")
  BY SameMaj23 DEF Frame
<1>2. CASE cs.LockedBlock # None
  <2>1. /\ cs.LockedRound \in 0..cs.Round
        /\ Maj23(cs, cs.LockedRound, "prepare") = cs.LockedBlock
    BY <1>0, <1>2 DEF LockOK
  <2>2. cs.LockedRound # cs.Round
    BY <2>1
  <2>3. cs.LockedRound < cs.Round /\ cs.Round <= cs.Round
    BY <1>0, <2>1, <2>2
  <2>. QED  BY <1>0, <1>1, <2>3 DEF LockKept
<1>. QED  BY <1>2 DEF LockKept

(* enterCommit: the lock follows the majority of the round, and neither of *)
(* the panics is reached.                                                  *)
LEMMA EnterCommit ==
    ASSUME NEW S, SentOK(S), NEW cs, Ready(cs, S), InRound(cs, S),
           NEW r \in Rounds, r <= cs.Round
    PROVE  /\ Goes(cs, enterCommit(cs, r), S) /\ InRound(enterCommit(cs, r), S)
           /\ enterCommit(cs, r).Round = cs.Round
<1>0. /\ cs \in RoundState /\ VotesOK(cs, S) /\ LockOK(cs) /\ Sound(cs, S) /\ FreshOK(cs, S)
      /\ Held(cs)
  BY DEF Ready, Sound
<1>a. /\ cs.LockedRound \in RoundOrNone /\ cs.LockedBlock \in Nilable(Blocks)
      /\ cs.ValidRound \in RoundOrNone /\ cs.ValidBlock \in Nilable(Blocks)
      /\ cs.PrePrepareBlock \in Nilable(Blocks) /\ cs.PrePrepareBlockParts \in Nilable(Blocks)
  BY <1>0 DEF RoundState
<1>b. /\ None \in Nilable(Blocks) /\ -1 \in RoundOrNone /\ r \in RoundOrNone
      /\ \A b \in Blocks : b \in Nilable(Blocks)
  BY DEF Nilable, RoundOrNone
<1>1. CASE Past(cs, r, RoundStepCommit)
  BY <1>1, GoesRefl DEF enterCommit
<1>2. CASE ~Past(cs, r, RoundStepCommit)
  <2>1. cs.Round = r /\ cs.Step < RoundStepCommit /\ cs.Step < RoundStepReply
    BY <1>0, <1>2, StateFacts, RoundsAreInts DEF Past, RoundStepCommit, RoundStepReply
  <2> DEFINE maj == Maj23(cs, r, "prepare")
  <2>2. enterCommit(cs, r) = Stepped(CommitAndLock(cs, r), r, RoundStepCommit)
    BY <1>2 DEF enterCommit
  <2>3. maj # NoVote => maj \in BlockIDs
    BY <1>0, MajorityIsQuorum DEF VoteTypes
  <2>4. maj \in Blocks => maj \in ValidBlocks
    BY <1>0, MajorityIsValid DEF VoteTypes
  <2>5. maj # NoVote => POLFrom(cs.Votes, r)
    <3>1. /\ cs.Votes.round \in {cs.Round, cs.Round + 1} /\ cs.Round \in Nat
      BY <1>0, StateFacts, Zenon DEF VotesOK
    <3>2. r <= r /\ r <= cs.Votes.round
      BY <2>1, <3>1
    <3>. QED  BY <3>2 DEF POLFrom, Maj23, getVoteSet, HasTwoThirdsMajority
  <2> HIDE DEF maj
  <2>6. maj = Maj23(cs, cs.Round, "prepare") /\ maj = Maj23(cs, r, "prepare")
    BY <2>1 DEF maj
  <2>7. ASSUME NEW es, Goes(cs, es, S), InRound(es, S), es.Round = cs.Round, es.Step = cs.Step,
               NEW b \in ValidBlocks \cup {Nil},
               b # Nil => maj = b /\ es.LockedBlock = b /\ es.LockedRound = es.Round,
               CommitAndLock(cs, r) = signAddVote(es, "commit", b)
        PROVE  /\ Goes(cs, enterCommit(cs, r), S) /\ InRound(enterCommit(cs, r), S)
               /\ enterCommit(cs, r).Round = cs.Round
    <3> DEFINE ds == Stepped(signAddVote(es, "commit", b), es.Round, RoundStepCommit)
    <3>1. Ready(es, S) /\ Maj23(es, es.Round, "prepare") = maj
      BY <2>6, <2>7, SameMaj23 DEF Goes
    <3>2. Goes(es, ds, S) /\ InRound(ds, S) /\ ds.Round = es.Round
      BY <2>1, <2>7, <3>1, SignCommit
    <3>3. enterCommit(cs, r) = ds
      BY <2>1, <2>2, <2>7
    <3> HIDE DEF ds
    <3>. QED  BY <2>7, <3>2, <3>3, GoesTrans
  <2>8. CASE maj = NoVote
    <3>1. CommitAndLock(cs, r) = signAddVote(cs, "commit", Nil)
      BY <2>6, <2>8 DEF CommitAndLock
    <3>. QED  BY <2>7, <3>1, GoesRefl
  <2>9. CASE maj = Nil
    <3> DEFINE es == Blocked(cs, -1, None, cs.ValidRound, cs.ValidBlock,
                             cs.PrePrepareBlock, cs.PrePrepareBlockParts)
    <3>1. CommitAndLock(cs, r) = signAddVote(es, "commit", Nil)
      BY <1>0, <2>5, <2>6, <2>9, NotBlocks, LockForm, Zenon DEF CommitAndLock, Unlocked
    <3>2. es \in RoundState
      BY <1>0, <1>a, <1>b, BlockedType, Zenon
    <3>3. /\ Frame(cs, es) /\ es.Round = cs.Round /\ es.Step = cs.Step
          /\ es.ReplyRound = cs.ReplyRound
          /\ es.internalMsgQueue = cs.internalMsgQueue /\ es.ticks = cs.ticks
          /\ es.LockedBlock = None
          /\ es.ValidRound = cs.ValidRound /\ es.ValidBlock = cs.ValidBlock
          /\ es.PrePrepareBlock = cs.PrePrepareBlock
          /\ es.PrePrepareBlockParts = cs.PrePrepareBlockParts
      <4>1. IsBlocked(cs, es, -1, None, cs.ValidRound, cs.ValidBlock, cs.PrePrepareBlock,
                      cs.PrePrepareBlockParts)
        BY <1>0, BlockedFacts, Zenon
      <4>. QED  BY <4>1, Zenon DEF IsBlocked
    <3> HIDE DEF es
    <3>4. \A q, t : Maj23(es, q, t) = Maj23(cs, q, t)
      BY <3>3, SameMaj23 DEF Frame
    <3>5. LockKept(cs, es)
      <4>1. maj \notin {NoVote, cs.LockedBlock}
        BY <1>0, <2>9, NotBlocks, StateFacts, Zenon
      <4>. QED  BY <1>0, <2>6, <3>3, <4>1, Releases, Zenon
    <3>6. LockOK(es) /\ Held(es)
      BY <1>0, <3>3, <3>4, Zenon DEF LockOK, Held
    <3>7. Goes(cs, es, S) /\ InRound(es, S)
      BY <1>0, <3>2, <3>3, <3>5, <3>6, Relock, Zenon
    <3>. QED  BY <2>7, <3>1, <3>3, <3>7
  <2>10. CASE maj \in Blocks /\ cs.LockedBlock = maj
    <3> DEFINE es == Blocked(cs, r, cs.LockedBlock, cs.ValidRound, cs.ValidBlock,
                             cs.PrePrepareBlock, cs.PrePrepareBlockParts)
    <3>1. CommitAndLock(cs, r) = signAddVote(es, "commit", maj)
      BY <1>0, <2>5, <2>6, <2>10, NotBlocks, RelockForm DEF CommitAndLock
    <3>2. es \in RoundState
      BY <1>0, <1>a, <1>b, BlockedType, ZenonT(30)
    <3>3. /\ Frame(cs, es) /\ es.Round = cs.Round /\ es.Step = cs.Step
          /\ es.ReplyRound = cs.ReplyRound
          /\ es.internalMsgQueue = cs.internalMsgQueue /\ es.ticks = cs.ticks
          /\ es.LockedBlock = cs.LockedBlock /\ es.LockedRound = r
          /\ es.ValidRound = cs.ValidRound /\ es.ValidBlock = cs.ValidBlock
          /\ es.PrePrepareBlock = cs.PrePrepareBlock
          /\ es.PrePrepareBlockParts = cs.PrePrepareBlockParts
      <4>1. IsBlocked(cs, es, r, cs.LockedBlock, cs.ValidRound, cs.ValidBlock,
                      cs.PrePrepareBlock, cs.PrePrepareBlockParts)
        BY <1>0, BlockedFacts, Zenon
      <4>. QED  BY <4>1, Zenon DEF IsBlocked
    <3> HIDE DEF es
    <3>4. \A q, t : Maj23(es, q, t) = Maj23(cs, q, t)
      BY <3>3, SameMaj23 DEF Frame
    <3>5. cs.LockedBlock # None /\ cs.LockedRound \in 0..cs.Round /\ cs.Round \in Nat
      BY <1>0, <2>10, NotBlocks, StateFacts, Zenon DEF LockOK
    <3>6. cs.LockedRound <= r /\ r \in 0..cs.Round
      BY <2>1, <3>5
    <3>7. LockKept(cs, es)
      BY <3>3, <3>6, Zenon DEF LockKept
    <3>8. LockOK(es) /\ Held(es)
      BY <1>0, <2>6, <2>10, <3>3, <3>4, <3>6, Zenon DEF LockOK, Held
    <3>9. Goes(cs, es, S) /\ InRound(es, S)
      BY <1>0, <3>2, <3>3, <3>7, <3>8, Relock
    <3>. QED  BY <2>1, <2>4, <2>7, <2>10, <3>1, <3>3, <3>9, Zenon
  <2>11. CASE maj \in Blocks /\ cs.LockedBlock # maj /\ cs.PrePrepareBlock = maj
    <3> DEFINE es == Blocked(cs, r, maj, cs.ValidRound, cs.ValidBlock,
                             cs.PrePrepareBlock, cs.PrePrepareBlockParts)
    <3>1. CommitAndLock(cs, r) = signAddVote(es, "commit", maj)
      <4>1. es = [cs EXCEPT !.LockedRound = r, !.LockedBlock = maj]
        BY <1>0, LockForm, Zenon
      <4>. QED  BY <2>4, <2>5, <2>6, <2>11, <4>1, NotBlocks, Zenon DEF CommitAndLock
    <3>2. es \in RoundState
      BY <1>0, <1>a, <1>b, <2>11, BlockedType, ZenonT(30)
    <3>3. /\ Frame(cs, es) /\ es.Round = cs.Round /\ es.Step = cs.Step
          /\ es.ReplyRound = cs.ReplyRound
          /\ es.internalMsgQueue = cs.internalMsgQueue /\ es.ticks = cs.ticks
          /\ es.LockedBlock = maj /\ es.LockedRound = r
          /\ es.ValidRound = cs.ValidRound /\ es.ValidBlock = cs.ValidBlock
          /\ es.PrePrepareBlock = cs.PrePrepareBlock
          /\ es.PrePrepareBlockParts = cs.PrePrepareBlockParts
      <4>1. IsBlocked(cs, es, r, maj, cs.ValidRound, cs.ValidBlock, cs.PrePrepareBlock,
                      cs.PrePrepareBlockParts)
        BY <1>0, BlockedFacts, Zenon
      <4>. QED  BY <4>1, Zenon DEF IsBlocked
    <3> HIDE DEF es
    <3>4. \A q, t : Maj23(es, q, t) = Maj23(cs, q, t)
      BY <3>3, SameMaj23 DEF Frame
    <3>5. LockKept(cs, es)
      <4>1. maj \notin {NoVote, cs.LockedBlock}
        BY <2>11, NotBlocks, Zenon
      <4>. QED  BY <1>0, <2>6, <3>3, <4>1, Releases, Zenon
    <3>6. cs.ValidBlock # None /\ maj # None
      BY <1>0, <2>1, <2>6, <2>11, NotBlocks, Zenon DEF Held
    <3>7. r \in 0..cs.Round
      BY <2>1, RoundsAreInts
    <3>8. LockOK(es) /\ Held(es)
      BY <1>0, <2>4, <2>6, <2>11, <3>3, <3>4, <3>6, <3>7, Zenon DEF LockOK, Held
    <3>9. Goes(cs, es, S) /\ InRound(es, S)
      BY <1>0, <3>2, <3>3, <3>5, <3>8, Relock
    <3>. QED  BY <2>1, <2>4, <2>7, <2>11, <3>1, <3>3, <3>9, Zenon
  <2>12. CASE maj \in Blocks /\ cs.LockedBlock # maj /\ cs.PrePrepareBlock # maj
    <3> DEFINE b  == IF cs.PrePrepareBlockParts = maj THEN cs.PrePrepareBlock ELSE None
               es == Blocked(cs, -1, None, cs.ValidRound, cs.ValidBlock, b, maj)
    <3>1. CommitAndLock(cs, r) = signAddVote(es, "commit", Nil)
      <4>1. Unlocked(cs).PrePrepareBlock = cs.PrePrepareBlock
        BY <1>0 DEF Unlocked, RoundState
      <4>2. es = [Unlocked(cs) EXCEPT !.PrePrepareBlock = b, !.PrePrepareBlockParts = maj]
        BY <1>0, ReleaseForm, Zenon
      <4>. QED  BY <2>5, <2>6, <2>12, <4>1, <4>2, NotBlocks, Zenon DEF CommitAndLock
    <3>2. b \in Nilable(Blocks) /\ b = None
      BY <1>0, <1>a, <1>b, <2>12, Zenon DEF LockOK
    <3> HIDE DEF b
    <3>3. es \in RoundState
      BY <1>0, <1>a, <1>b, <2>12, <3>2, BlockedType, Zenon
    <3>4. /\ Frame(cs, es) /\ es.Round = cs.Round /\ es.Step = cs.Step
          /\ es.ReplyRound = cs.ReplyRound
          /\ es.internalMsgQueue = cs.internalMsgQueue /\ es.ticks = cs.ticks
          /\ es.LockedBlock = None
          /\ es.ValidRound = cs.ValidRound /\ es.ValidBlock = cs.ValidBlock
          /\ es.PrePrepareBlock = b
      <4>1. IsBlocked(cs, es, -1, None, cs.ValidRound, cs.ValidBlock, b, maj)
        BY <1>0, BlockedFacts, Zenon
      <4>. QED  BY <4>1, Zenon DEF IsBlocked
    <3> HIDE DEF es
    <3>5. \A q, t : Maj23(es, q, t) = Maj23(cs, q, t)
      BY <3>4, SameMaj23, Zenon DEF Frame
    <3>6. LockKept(cs, es)
      <4>1. maj \notin {NoVote, cs.LockedBlock}
        BY <2>12, NotBlocks
      <4>. QED  BY <1>0, <2>6, <3>4, <4>1, Releases, Zenon
    <3>7. LockOK(es) /\ Held(es)
      BY <1>0, <3>2, <3>4, <3>5, Zenon DEF LockOK, Held
    <3>8. Goes(cs, es, S) /\ InRound(es, S)
      BY <1>0, <3>3, <3>4, <3>6, <3>7, Relock
    <3>. QED  BY <2>7, <3>1, <3>4, <3>8, Zenon
  <2>. QED  BY <2>3, <2>8, <2>9, <2>10, <2>11, <2>12, Zenon DEF Blocks
<1>. QED  BY <1>1, <1>2

(* enterCommitWait is entered with +2/3 commits, and only waits. *)
LEMMA EnterCommitWait ==
    ASSUME NEW S, SentOK(S), NEW cs, Ready(cs, S), NEW r \in Rounds, r <= cs.Round,
           HasTwoThirdsAny(cs.Votes.sets[r]["commit"])
    PROVE  Goes(cs, enterCommitWait(cs, r), S)
<1>0. cs \in RoundState /\ cs.Step \in Nat
  BY StateFacts, Zenon DEF Ready, Sound
<1>1. CASE r < cs.Round \/ (cs.Round = r /\ cs.TriggeredTimeoutCommit)
  BY <1>1, GoesRefl DEF enterCommitWait
<1>2. CASE ~(r < cs.Round \/ (cs.Round = r /\ cs.TriggeredTimeoutCommit))
  <2> DEFINE ts == scheduleTimeout(cs, r, RoundStepCommitWait)
             ds == [ts EXCEPT !.TriggeredTimeoutCommit = TRUE]
  <2>1. enterCommitWait(cs, r) = ds
    BY <1>2 DEF enterCommitWait, getVoteSet
  <2>2. Goes(cs, ts, S) /\ ts.Round = cs.Round /\ ts.Step = cs.Step
    <3>1. RoundStepCommitWait \in TimeoutSteps
      BY DEF TimeoutSteps
    <3>. QED  BY <3>1, ScheduleTimeout, Zenon
  <2> HIDE DEF ts
  <2>3. ts \in RoundState /\ Ready(ts, S)
    BY <2>2, Zenon DEF Goes, Ready, Sound
  <2>4. ds \in RoundState
    BY <2>3, Zenon DEF RoundState
  <2>5. /\ Rest(ts, ds) /\ ds.Round = ts.Round /\ ds.Step = ts.Step /\ ds.ticks = ts.ticks
        /\ ds.internalMsgQueue = ts.internalMsgQueue
    BY <2>3 DEF RoundState, Rest, Frame
  <2> HIDE DEF ds
  <2>6. ts.Step <= ds.Step
    BY <1>0, <2>2, <2>5
  <2>7. Goes(ts, ds, S)
    BY <2>3, <2>4, <2>5, <2>6, QuietStep, Zenon
  <2>. QED  BY <2>1, <2>2, <2>7, GoesTrans
<1>. QED  BY <1>1, <1>2, Zenon

-----------------------------------------------------------------------------
(* The end of a height.                                                    *)

(* The vote sets of a new height are empty. *)
LEMMA NewHeightVoteSetFacts ==
    /\ NewHeightVoteSet \in HeightVoteSets /\ NewHeightVoteSet.round = 0
    /\ Tracked(NewHeightVoteSet, 1)
    /\ \A r \in Rounds, t \in VoteTypes : NewHeightVoteSet.sets[r][t] = NewVoteSet
<1>1. NewVoteSet \in VoteSets
  BY NewIsGood DEF Good
<1>2. NewHeightVoteSet \in HeightVoteSets
  <2> DEFINE sets == [r \in Rounds |-> [t \in VoteTypes |-> NewVoteSet]]
             pcr  == [p \in Peers |-> <<>>]
  <2>1. sets \in [Rounds -> [VoteTypes -> VoteSets]] /\ pcr \in [Peers -> Seq(Rounds)]
    BY <1>1
  <2>2. 0 \in 0..(MaxRound + 1) /\ {0} \in SUBSET (-1..(MaxRound + 1))
    BY RoundAssumption
  <2> HIDE DEF sets, pcr
  <2>. QED  BY <2>1, <2>2 DEF NewHeightVoteSet, HeightVoteSets, sets, pcr
<1>3. /\ NewHeightVoteSet.round = 0 /\ NewHeightVoteSet.rounds = {0}
      /\ \A r \in Rounds, t \in VoteTypes : NewHeightVoteSet.sets[r][t] = NewVoteSet
      /\ \A p \in Peers : NewHeightVoteSet.peerCatchupRounds[p] = <<>>
  BY DEF NewHeightVoteSet
<1>5. /\ \A r \in NewHeightVoteSet.rounds : r <= 1
      /\ \A p \in Peers : Len(NewHeightVoteSet.peerCatchupRounds[p]) = 0
  BY <1>3
<1>6. Tracked(NewHeightVoteSet, 1)
  BY <1>5 DEF Tracked
<1>. QED  BY <1>2, <1>3, <1>6

(* Nobody is in a new vote set. *)
LEMMA NewVoteSetIsEmpty ==
    NewVoteSet.maj23 = NoVote /\ \A b \in BlockIDs : NewVoteSet.votesByBlock[b] = {}
  BY DEF NewVoteSet

Appended(cs, b) == [cs EXCEPT !.chain = Append(@, b)]

(* finalizeAppend leaves a round state. *)
LEMMA AppendedType ==
    ASSUME NEW cs \in RoundState, NEW b \in Blocks
    PROVE  Appended(cs, b) \in RoundState
<1>1. Append(cs.chain, b) \in Seq(Blocks)
  BY DEF RoundState
<1>. QED  BY <1>1, Zenon DEF Appended, RoundState

(* finalizeAppend changes the chain alone. *)
LEMMA AppendedFacts ==
    ASSUME NEW cs \in RoundState, NEW b
    PROVE  /\ Appended(cs, b).chain = Append(cs.chain, b)
           /\ Appended(cs, b).addr = cs.addr /\ Appended(cs, b).Height = cs.Height
           /\ Appended(cs, b).Votes = cs.Votes /\ Appended(cs, b).ReplyRound = cs.ReplyRound
           /\ Appended(cs, b).internalMsgQueue = cs.internalMsgQueue
           /\ Appended(cs, b).panicked = cs.panicked
  BY DEF Appended, RoundState

(* updateToState leaves a round state. *)
LEMMA UpdateType ==
    ASSUME NEW cs \in RoundState, cs.Height + 1 \in Heights, cs.ReplyRound \in Rounds
    PROVE  updateToState(cs) \in RoundState
<1> DEFINE h  == cs.Height + 1
           s  == RoundStepNewHeight
           n  == -1
           o  == None
           vs == NewHeightVoteSet
           lc == getVoteSet(cs.Votes, cs.ReplyRound, "commit")
           lr == cs.ReplyRound
           f  == FALSE
           t  == <<0, RoundStepNewHeight>>
           ts == {<<0, RoundStepNewHeight>>}
           z  == 0
<1>1. s \in RoundStepNewHeight..RoundStepReply
  BY DEF RoundStepNewHeight, RoundStepReply
<1>2. n \in RoundOrNone /\ o \in Nilable(Blocks) /\ o \in Nilable(PrePrepareMessage)
      /\ lr \in RoundOrNone /\ f \in BOOLEAN
  BY DEF Nilable, RoundOrNone
<1>3. vs \in HeightVoteSets
  BY NewHeightVoteSetFacts
<1>4. lc \in VoteSets
  BY DEF getVoteSet, RoundState, HeightVoteSets, VoteTypes
<1>5. z \in Rounds /\ t \in Timeout /\ ts \in SUBSET Timeout
  BY RoundsAreInts DEF Timeout, TimeoutSteps
<1>6. updateToState(cs)
        = [cs EXCEPT !.Height = h, !.Round = z, !.Step = s,
                     !.PrePrepare = o, !.PrePrepareBlock = o, !.PrePrepareBlockParts = o,
                     !.LockedRound = n, !.LockedBlock = o, !.ValidRound = n, !.ValidBlock = o,
                     !.Votes = vs, !.LastCommits = lc, !.LastReplyRound = lr,
                     !.ReplyRound = n, !.TriggeredTimeoutCommit = f, !.ticked = t, !.ticks = ts]
  BY DEF updateToState
<1>7. h \in Heights
  OBVIOUS
<1> HIDE DEF h, s, n, o, vs, lc, lr, f, t, ts, z
<1> DEFINE ds == [cs EXCEPT !.Height = h, !.Round = z, !.Step = s, !.PrePrepare = o,
                            !.PrePrepareBlock = o, !.PrePrepareBlockParts = o]
           es == [ds EXCEPT !.LockedRound = n, !.LockedBlock = o, !.ValidRound = n,
                            !.ValidBlock = o, !.Votes = vs, !.LastCommits = lc]
<1>8. updateToState(cs)
        = [es EXCEPT !.LastReplyRound = lr, !.ReplyRound = n, !.TriggeredTimeoutCommit = f,
                     !.ticked = t, !.ticks = ts]
  BY <1>6 DEF RoundState
<1>9. ds \in RoundState
  BY <1>1, <1>2, <1>5, <1>7, Zenon DEF RoundState
<1> HIDE DEF ds
<1>10. es \in RoundState
  BY <1>2, <1>3, <1>4, <1>9, Zenon DEF RoundState
<1> HIDE DEF es
<1>11. [es EXCEPT !.LastReplyRound = lr, !.ReplyRound = n, !.TriggeredTimeoutCommit = f,
                  !.ticked = t, !.ticks = ts] \in RoundState
  BY <1>2, <1>5, <1>10, Zenon DEF RoundState
<1>. QED  BY <1>8, <1>11

(* What updateToState sets. *)
LEMMA UpdateFacts ==
    ASSUME NEW cs \in RoundState
    PROVE  /\ updateToState(cs).addr = cs.addr /\ updateToState(cs).Height = cs.Height + 1
           /\ updateToState(cs).Round = 0 /\ updateToState(cs).Step = RoundStepNewHeight
           /\ updateToState(cs).PrePrepare = None /\ updateToState(cs).PrePrepareBlock = None
           /\ updateToState(cs).LockedBlock = None
           /\ updateToState(cs).ValidRound = -1 /\ updateToState(cs).ValidBlock = None
           /\ updateToState(cs).Votes = NewHeightVoteSet
           /\ updateToState(cs).LastCommits = getVoteSet(cs.Votes, cs.ReplyRound, "commit")
           /\ updateToState(cs).ticks = {<<0, RoundStepNewHeight>>}
           /\ updateToState(cs).chain = cs.chain
           /\ updateToState(cs).internalMsgQueue = cs.internalMsgQueue
           /\ updateToState(cs).panicked = cs.panicked
  BY DEF updateToState, RoundState

NextHeight(cs, ds, S) ==
    /\ Ready(ds, S) /\ ds.addr = cs.addr /\ ds.Height = cs.Height + 1 /\ ds.PrePrepare = None

(* The height after b: the commits of a quorum are behind b, and none of   *)
(* the messages of the node is of the new height.                          *)
LEMMA Update ==
    ASSUME NEW S, SentOK(S), NEW cs, Ready(cs, S), cs.Height <= MaxHeight,
           cs.ReplyRound \in Rounds, NEW b \in Blocks, Maj23(cs, cs.ReplyRound, "commit") = b
    PROVE  NextHeight(cs, updateToState(Appended(cs, b)), S)
<1> DEFINE es == Appended(cs, b)
           ds == updateToState(es)
<1>0. /\ cs \in RoundState /\ ~cs.panicked /\ VotesOK(cs, S) /\ SignedOK(cs, S) /\ ChainOK(cs, S)
      /\ FreshOK(cs, S) /\ cs.Height \in Nat /\ cs.Height >= 1
  BY StateFacts DEF Ready, Sound, Heights
<1>1. cs.Height + 1 \in Heights
  BY <1>0, ConsensusAssumption DEF Heights
<1>2. /\ es \in RoundState /\ es.chain = Append(cs.chain, b) /\ es.addr = cs.addr
      /\ es.Height = cs.Height /\ es.Votes = cs.Votes /\ es.ReplyRound = cs.ReplyRound
      /\ es.internalMsgQueue = cs.internalMsgQueue /\ es.panicked = cs.panicked
  BY <1>0, AppendedType, AppendedFacts
<1> HIDE DEF es
<1>3. ds \in RoundState
  BY <1>1, <1>2, UpdateType, Zenon
<1>4. /\ ds.addr = es.addr /\ ds.Height = es.Height + 1 /\ ds.Round = 0
      /\ ds.Step = RoundStepNewHeight /\ ds.PrePrepare = None /\ ds.PrePrepareBlock = None
      /\ ds.LockedBlock = None /\ ds.ValidRound = -1 /\ ds.ValidBlock = None
      /\ ds.Votes = NewHeightVoteSet
      /\ ds.LastCommits = getVoteSet(es.Votes, es.ReplyRound, "commit")
      /\ ds.ticks = {<<0, RoundStepNewHeight>>} /\ ds.chain = es.chain
      /\ ds.internalMsgQueue = es.internalMsgQueue /\ ds.panicked = es.panicked
  BY <1>2, UpdateFacts, Zenon
<1> HIDE DEF ds
<1>5. /\ ds.addr = cs.addr /\ ds.Height = cs.Height + 1 /\ ds.chain = Append(cs.chain, b)
      /\ ds.internalMsgQueue = cs.internalMsgQueue /\ ~ds.panicked
  BY <1>0, <1>2, <1>4, Zenon
<1>6. VotesOK(ds, S)
  <2>1. \A r \in Rounds, t \in VoteTypes :
           /\ Good(ds.Votes.sets[r][t])
           /\ \A c \in BlockIDs : ds.Votes.sets[r][t].votesByBlock[c] = {}
    BY <1>4, NewHeightVoteSetFacts, NewVoteSetIsEmpty, NewIsGood, Zenon
  <2>2. Good(ds.LastCommits)
    BY <1>0, <1>2, <1>4, Zenon DEF VotesOK, getVoteSet, VoteTypes
  <2>3. ds.Votes.round \in {ds.Round, ds.Round + 1}
    BY <1>4, NewHeightVoteSetFacts, Zenon
  <2>4. ds.Round + 1 = 1 /\ Tracked(ds.Votes, 1)
    BY <1>4, NewHeightVoteSetFacts, SMTT(30)
  <2>. QED  BY <2>1, <2>2, <2>3, <2>4, Zenon DEF VotesOK, Tracked
<1>7. LockOK(ds) /\ Held(ds)
  <2>1. ds.Step # RoundStepReply
    BY <1>4 DEF RoundStepNewHeight, RoundStepReply
  <2>2. ~(ds.ValidRound >= 0) /\ \A t \in ds.ticks : t[1] <= ds.Round
    BY <1>4
  <2>. QED  BY <1>4, <2>1, <2>2 DEF LockOK, Held
<1>8. Mine(ds, S) = Mine(cs, S) /\ FreshVotes(ds, S) = FreshVotes(cs, S)
  BY <1>5 DEF Mine, FreshVotes
<1>9. Own(ds, S) = {}
  <2> SUFFICES ASSUME NEW m \in Own(ds, S) PROVE FALSE
    OBVIOUS
  <2>1. m \in Mine(cs, S) /\ m.height = cs.Height + 1
    BY <1>5, <1>8, Zenon DEF Own
  <2>2. m.height <= cs.Height
    BY <1>0, <2>1, Zenon DEF SignedOK
  <2>. QED  BY <1>0, <2>1, <2>2
<1>10. SignedOK(ds, S)
  <2>1. \A m \in Mine(cs, S) : m.height <= ds.Height
    <3> SUFFICES ASSUME NEW m \in Mine(cs, S) PROVE m.height <= ds.Height
      BY Zenon
    <3>1. m.height \in Nat /\ m.height <= cs.Height
      BY <1>0, MineFacts, MessageFacts, Zenon DEF SignedOK
    <3>. QED  BY <1>0, <1>5, <3>1
  <2>. QED  BY <1>0, <1>5, <1>8, <1>9, <2>1, Zenon DEF SignedOK
<1>11. PolkasOK(ds, S)
  BY <1>9 DEF PolkasOK
<1>12. ChainOK(ds, S)
  <2>1. cs.chain \in Seq(Blocks) /\ Len(cs.chain) = cs.Height - 1
    BY <1>0, Zenon DEF RoundState, ChainOK
  <2>2. /\ Len(ds.chain) = Len(cs.chain) + 1 /\ ds.chain[Len(cs.chain) + 1] = b
        /\ DOMAIN ds.chain = 1..(Len(cs.chain) + 1) /\ DOMAIN cs.chain = 1..Len(cs.chain)
        /\ \A h \in 1..Len(cs.chain) : ds.chain[h] = cs.chain[h]
    BY <1>5, <2>1, SMTT(30)
  <2>3. Len(ds.chain) = ds.Height - 1
    BY <1>0, <1>5, <2>1, <2>2, SMTT(30)
  <2>4. QuorumIn(S, cs.Height, cs.ReplyRound, "commit", b)
    BY <1>0, NotBlocks, MajorityIsQuorum, Zenon DEF VoteTypes
  <2>5. ASSUME NEW h \in DOMAIN ds.chain
        PROVE  \E r \in Rounds : QuorumIn(S, h, r, "commit", ds.chain[h])
    <3>1. CASE h \in DOMAIN cs.chain
      BY <1>0, <2>2, <3>1, Zenon DEF ChainOK
    <3>2. CASE h = Len(cs.chain) + 1
      <4>1. h = cs.Height
        BY <1>0, <2>1, <3>2, SMTT(30)
      <4>. QED  BY <2>2, <2>4, <3>2, <4>1, Zenon
    <3>3. h \in DOMAIN cs.chain \/ h = Len(cs.chain) + 1
      BY <2>1, <2>2, SMTT(30)
    <3>. QED  BY <3>1, <3>2, <3>3, Zenon
  <2>. QED  BY <2>3, <2>5, Zenon DEF ChainOK
<1>13. FreshOK(ds, S)
  BY <1>0, <1>8 DEF FreshOK
<1>. QED  BY <1>3, <1>4, <1>5, <1>6, <1>7, <1>10, <1>11, <1>12, <1>13, ZenonT(30)
          DEF NextHeight, Ready, Sound, ds, es

(* finalizeAppend does not panic: the node holds the block whose header    *)
(* the majority names, and that block is valid.                            *)
LEMMA TryFinalizeAppend ==
    ASSUME NEW S, SentOK(S), NEW cs, Ready(cs, S), cs.Height <= MaxHeight,
           cs.ReplyRound \in Rounds
    PROVE  tryFinalizeAppend(cs) = cs \/ NextHeight(cs, tryFinalizeAppend(cs), S)
<1> DEFINE maj == Maj23(cs, cs.ReplyRound, "commit")
<1>0. VotesOK(cs, S) /\ LockOK(cs)
  BY DEF Ready, Sound
<1>1. CASE ~(maj \in Blocks /\ cs.PrePrepareBlock = maj)
  BY <1>1 DEF tryFinalizeAppend
<1>2. CASE maj \in Blocks /\ cs.PrePrepareBlock = maj
  <2>1. maj \in ValidBlocks
    BY <1>0, <1>2, MajorityIsValid, Zenon DEF VoteTypes
  <2>2. cs.PrePrepareBlockParts = maj
    BY <1>0, <1>2, NotBlocks DEF LockOK
  <2>3. tryFinalizeAppend(cs) = updateToState(Appended(cs, maj))
    BY <1>2, <2>1, <2>2, Zenon DEF tryFinalizeAppend, finalizeAppend, Appended
  <2>. QED  BY <1>2, <2>3, Update, Zenon
<1>. QED  BY <1>1, <1>2

(* enterReply keeps the block of the majority if the node has it, and      *)
(* expects it otherwise.                                                   *)
LEMMA EnterReply ==
    ASSUME NEW S, SentOK(S), NEW cs, Ready(cs, S), cs.Height <= MaxHeight,
           NEW r \in Rounds, Maj23(cs, r, "commit") \in Blocks
    PROVE  \/ Goes(cs, enterReply(cs, r), S) /\ (InRound(cs, S) => InRound(enterReply(cs, r), S))
           \/ NextHeight(cs, enterReply(cs, r), S)
<1>0. /\ cs \in RoundState /\ LockOK(cs) /\ Sound(cs, S) /\ FreshOK(cs, S) /\ VotesOK(cs, S)
      /\ cs.Step \in 1..8 /\ cs.LockedRound \in Int
  BY StateFacts DEF Ready, Sound
<1>1. CASE RoundStepReply <= cs.Step
  BY <1>1, GoesRefl DEF enterReply
<1>2. CASE ~(RoundStepReply <= cs.Step)
  <2> DEFINE maj == Maj23(cs, r, "commit")
             have == maj \in {cs.LockedBlock, cs.PrePrepareBlock}
             b == IF have THEN maj
                  ELSE IF cs.PrePrepareBlockParts = maj THEN cs.PrePrepareBlock ELSE None
             h == IF maj = cs.PrePrepareBlock /\ maj # cs.LockedBlock
                  THEN cs.PrePrepareBlockParts ELSE maj
             ks == [cs EXCEPT !.PrePrepareBlock = b, !.PrePrepareBlockParts = h]
             ds == [ks EXCEPT !.Step = RoundStepReply, !.ReplyRound = r]
  <2>1. enterReply(cs, r) = tryFinalizeAppend(ds)
    BY <1>2 DEF enterReply
  <2>2. maj \in Blocks
    BY Zenon
  <2> HIDE DEF maj
  <2>3. b # None => h = b
    BY <1>0, NotBlocks, Zenon DEF LockOK
  <2>4. b \in Nilable(Blocks) /\ h \in Nilable(Blocks)
    <3>1. /\ cs.PrePrepareBlock \in Nilable(Blocks) /\ cs.PrePrepareBlockParts \in Nilable(Blocks)
          /\ maj \in Nilable(Blocks) /\ None \in Nilable(Blocks)
      BY <1>0, <2>2 DEF RoundState, Nilable
    <3>. QED  BY <3>1
  <2> HIDE DEF b, h
  <2>5. ks \in RoundState
    BY <1>0, <2>4, Zenon DEF RoundState
  <2>6. /\ Frame(cs, ks) /\ ks.Round = cs.Round
        /\ ks.LockedRound = cs.LockedRound /\ ks.LockedBlock = cs.LockedBlock
        /\ ks.ValidRound = cs.ValidRound /\ ks.ValidBlock = cs.ValidBlock
        /\ ks.internalMsgQueue = cs.internalMsgQueue /\ ks.ticks = cs.ticks
        /\ ks.PrePrepareBlock = b /\ ks.PrePrepareBlockParts = h
    BY <1>0 DEF RoundState, Frame
  <2> HIDE DEF ks
  <2>7. ds \in RoundState
    <3>1. RoundStepReply \in RoundStepNewHeight..RoundStepReply /\ r \in RoundOrNone
      BY DEF RoundStepNewHeight, RoundStepReply, RoundOrNone
    <3>. QED  BY <2>5, <3>1, Zenon DEF RoundState
  <2>8. /\ Frame(ks, ds) /\ ds.Round = ks.Round /\ ds.Step = RoundStepReply /\ ds.ReplyRound = r
        /\ ds.LockedRound = ks.LockedRound /\ ds.LockedBlock = ks.LockedBlock
        /\ ds.ValidRound = ks.ValidRound /\ ds.ValidBlock = ks.ValidBlock
        /\ ds.internalMsgQueue = ks.internalMsgQueue /\ ds.ticks = ks.ticks
        /\ ds.PrePrepareBlock = ks.PrePrepareBlock
        /\ ds.PrePrepareBlockParts = ks.PrePrepareBlockParts
    BY <2>5, Zenon DEF RoundState, Frame
  <2> HIDE DEF ds
  <2>9. /\ Frame(cs, ds) /\ ds.Round = cs.Round
        /\ ds.LockedRound = cs.LockedRound /\ ds.LockedBlock = cs.LockedBlock
        /\ ds.ValidRound = cs.ValidRound /\ ds.ValidBlock = cs.ValidBlock
        /\ ds.internalMsgQueue = cs.internalMsgQueue /\ ds.ticks = cs.ticks
        /\ ds.PrePrepareBlock = b /\ ds.PrePrepareBlockParts = h
    BY <2>6, <2>8, Zenon DEF Frame
  <2>10. cs.Step <= ds.Step
    BY <1>0, <2>8, SMTT(30) DEF RoundStepReply
  <2>11. /\ Onward(cs, ds) /\ VotesOK(ds, S) /\ ds.Votes.sets = cs.Votes.sets
         /\ ds.panicked = cs.panicked
    BY <1>0, <2>7, <2>9, <2>10, FrameFacts, SMTT(30)
  <2>12. \A q, t : Maj23(ds, q, t) = Maj23(cs, q, t)
    BY <2>11, SameMaj23
  <2>13. LockKept(cs, ds)
    <3>1. cs.LockedRound <= cs.LockedRound
      BY <1>0, SMTT(30)
    <3>. QED  BY <2>9, <3>1 DEF LockKept
  <2>14. LockOK(ds)
    BY <1>0, <2>3, <2>8, <2>9, <2>12, Zenon DEF LockOK
  <2>15. Held(ds)
    BY <2>8 DEF Held, RoundStepReply
  <2>16. /\ Sound(ds, S) /\ FreshOK(ds, S) /\ FreshVotes(ds, S) = FreshVotes(cs, S) /\ ~ds.panicked
    <3>1. ~ds.panicked
      BY <1>0, <2>11, Zenon DEF Sound
    <3>. QED  BY <1>0, <2>7, <2>9, <2>11, <2>13, <2>14, <3>1, GoesOn, Zenon
  <2>17. Goes(cs, ds, S) /\ (InRound(cs, S) => InRound(ds, S))
    BY <2>9, <2>11, <2>15, <2>16, Zenon DEF Goes, Ready, InRound, Frame
  <2>18. ds.Height = cs.Height /\ ds.addr = cs.addr /\ Ready(ds, S)
    BY <2>9, <2>17, Zenon DEF Frame, Goes
  <2>19. tryFinalizeAppend(ds) = ds \/ NextHeight(ds, tryFinalizeAppend(ds), S)
    BY <2>8, <2>18, TryFinalizeAppend
  <2>. QED  BY <2>1, <2>17, <2>18, <2>19 DEF NextHeight
<1>. QED  BY <1>1, <1>2, Zenon

-----------------------------------------------------------------------------
(* The proposal and its block.                                             *)

(* setPrePrepare: a proposal is taken, and its parts are expected. *)
LEMMA SetPrePrepare ==
    ASSUME NEW S, SentOK(S), NEW cs, Ready(cs, S), NEW m \in Message, m.kind = "pre_prepare"
    PROVE  /\ Goes(cs, setPrePrepare(cs, m), S)
<1>0. cs \in RoundState /\ LockOK(cs) /\ Sound(cs, S) /\ FreshOK(cs, S) /\ cs.LockedRound \in Int
      /\ Held(cs)
  BY StateFacts DEF Ready, Sound
<1> DEFINE h  == IF cs.PrePrepareBlockParts = None THEN m.block ELSE cs.PrePrepareBlockParts
           ds == [cs EXCEPT !.PrePrepare = m, !.PrePrepareBlockParts = h]
<1>1. setPrePrepare(cs, m) \in {cs, ds}
  BY DEF setPrePrepare
<1>2. h \in Nilable(Blocks) /\ m \in Nilable(PrePrepareMessage)
  <2>1. m \in PrePrepareMessage /\ m.block \in Blocks
    BY MessageFacts, Zenon DEF Message, BlockPartMessage, VoteMessage
  <2>. QED  BY <1>0, <2>1, Zenon DEF RoundState, Nilable
<1>3. cs.PrePrepareBlock # None => h = cs.PrePrepareBlock
  BY <1>0 DEF LockOK
<1> HIDE DEF h
<1>4. ds \in RoundState
  BY <1>0, <1>2, Zenon DEF RoundState
<1>5. /\ Frame(cs, ds) /\ ds.Round = cs.Round /\ ds.Step = cs.Step
      /\ ds.LockedRound = cs.LockedRound /\ ds.LockedBlock = cs.LockedBlock
      /\ ds.ValidRound = cs.ValidRound /\ ds.ValidBlock = cs.ValidBlock
      /\ ds.internalMsgQueue = cs.internalMsgQueue /\ ds.ticks = cs.ticks
      /\ ds.PrePrepareBlock = cs.PrePrepareBlock /\ ds.PrePrepareBlockParts = h
      /\ ds.ReplyRound = cs.ReplyRound
  BY <1>0 DEF RoundState, Frame
<1> HIDE DEF ds
<1>6. \A q, t : Maj23(ds, q, t) = Maj23(cs, q, t)
  BY <1>5, SameMaj23, Zenon DEF Frame
<1>7. LockKept(cs, ds)
  <2>1. cs.LockedRound <= cs.LockedRound
    BY <1>0, SMTT(30)
  <2>. QED  BY <1>5, <2>1 DEF LockKept
<1>8. LockOK(ds) /\ Held(ds)
  BY <1>0, <1>3, <1>5, <1>6, Zenon DEF LockOK, Held
<1>9. Goes(cs, ds, S)
  BY <1>0, <1>4, <1>5, <1>7, <1>8, Relock, Zenon
<1>. QED  BY <1>1, <1>9, GoesRefl, Zenon

(* What a message or a timeout leaves behind. *)
Result(cs, ds, S) ==
    Ready(ds, S) /\ (Onward(cs, ds) \/ (ds.addr = cs.addr /\ ds.Height = cs.Height + 1))

(* What a handler returns is a result. *)
LEMMA ResultOfGoes ==
    ASSUME NEW S, NEW cs, NEW ds, Goes(cs, ds, S) \/ NextHeight(cs, ds, S)
    PROVE  Result(cs, ds, S)
  BY DEF Goes, NextHeight, Result

(* So is what it returns after another. *)
LEMMA ResultAfterGoes ==
    ASSUME NEW S, NEW cs, NEW ds, NEW es, Ready(cs, S), Goes(cs, ds, S), Result(ds, es, S)
    PROVE  Result(cs, es, S)
<1>1. cs \in RoundState /\ ds \in RoundState /\ es \in RoundState
  BY DEF Goes, Result, Ready, Sound
<1>2. ds.addr = cs.addr /\ ds.Height = cs.Height /\ Onward(cs, ds)
  BY DEF Goes, Onward
<1>3. CASE Onward(ds, es)
  BY <1>1, <1>2, <1>3, OnwardTrans DEF Result
<1>. QED  BY <1>2, <1>3, Zenon DEF Result

(* addPrePrepareBlockPart completes the block. *)
LEMMA CompleteForm ==
    ASSUME NEW cs \in RoundState, NEW b
    PROVE  [cs EXCEPT !.PrePrepareBlock = b]
              = Blocked(cs, cs.LockedRound, cs.LockedBlock, cs.ValidRound, cs.ValidBlock,
                        b, cs.PrePrepareBlockParts)
  BY Zenon DEF Blocked, RoundState

(* The completed block becomes valid. *)
LEMMA ValidForm ==
    ASSUME NEW cs \in RoundState, NEW r, NEW b
    PROVE  [[cs EXCEPT !.PrePrepareBlock = b] EXCEPT !.ValidRound = r, !.ValidBlock = b]
              = Blocked(cs, cs.LockedRound, cs.LockedBlock, r, b, b, cs.PrePrepareBlockParts)
  BY Zenon DEF Blocked, RoundState

(* A block that arrives after its majority becomes valid, and is prepared, *)
(* committed or appended at once if the node was waiting for it.           *)
LEMMA AddPrePrepareBlockPart ==
    ASSUME NEW S, SentOK(S), NEW cs, Ready(cs, S), InRound(cs, S), NEW m \in Message,
           m.kind = "part", m.height = cs.Height => cs.Height <= MaxHeight
    PROVE  Result(cs, addPrePrepareBlockPart(cs, m), S)
<1>0. /\ cs \in RoundState /\ LockOK(cs) /\ Sound(cs, S) /\ FreshOK(cs, S) /\ cs.Step \in Nat
      /\ cs.LockedRound \in Int /\ cs.ValidRound \in Int /\ cs.Round \in Nat /\ cs.Round \in Rounds
  BY StateFacts DEF Ready, Sound
<1>1. CASE \/ m.height # cs.Height \/ m.block # cs.PrePrepareBlockParts
           \/ cs.PrePrepareBlock # None
  BY <1>1, GoesRefl, ResultOfGoes, Zenon DEF addPrePrepareBlockPart
<1>2. CASE /\ m.height = cs.Height /\ m.block = cs.PrePrepareBlockParts
           /\ cs.PrePrepareBlock = None
  <2> DEFINE maj == Maj23(cs, cs.Round, "prepare")
             new == maj = m.block /\ cs.ValidRound < cs.Round
             vr == IF new THEN cs.Round ELSE cs.ValidRound
             vb == IF new THEN m.block ELSE cs.ValidBlock
             vs == Blocked(cs, cs.LockedRound, cs.LockedBlock, vr, vb,
                           m.block, cs.PrePrepareBlockParts)
             ps == enterPrepare(vs, cs.Round)
  <2>1. (IF new THEN [[cs EXCEPT !.PrePrepareBlock = m.block] EXCEPT
                        !.ValidRound = cs.Round, !.ValidBlock = m.block]
         ELSE [cs EXCEPT !.PrePrepareBlock = m.block]) = vs
    BY <1>0, CompleteForm, ValidForm, Zenon
  <2>2. addPrePrepareBlockPart(cs, m)
          = IF cs.Step <= RoundStepPrePrepare /\ isPrePrepareComplete(vs)
            THEN IF maj # NoVote THEN enterCommit(ps, cs.Round) ELSE ps
            ELSE IF cs.Step = RoundStepReply THEN tryFinalizeAppend(vs)
            ELSE vs
    BY <1>2, <2>1, Zenon DEF addPrePrepareBlockPart
  <2> HIDE DEF vs
  <2>3. m.block \in Blocks /\ m.block # None
    BY MessageFacts, NotBlocks, Zenon
  <2>4. vs \in RoundState
    <3>1. vr \in RoundOrNone /\ vb \in Nilable(Blocks) /\ m.block \in Nilable(Blocks)
          /\ cs.LockedRound \in RoundOrNone /\ cs.LockedBlock \in Nilable(Blocks)
          /\ cs.PrePrepareBlockParts \in Nilable(Blocks)
      BY <1>0, <2>3, ZenonT(30) DEF RoundState, RoundOrNone, Nilable
    <3> HIDE DEF vr, vb
    <3>. QED  BY <1>0, <3>1, BlockedType, Zenon DEF vs
  <2>5. /\ Frame(cs, vs) /\ vs.Round = cs.Round /\ vs.Step = cs.Step
        /\ vs.ReplyRound = cs.ReplyRound
        /\ vs.internalMsgQueue = cs.internalMsgQueue /\ vs.ticks = cs.ticks
        /\ vs.LockedRound = cs.LockedRound /\ vs.LockedBlock = cs.LockedBlock
        /\ vs.ValidRound = vr /\ vs.ValidBlock = vb
        /\ vs.PrePrepareBlock = m.block /\ vs.PrePrepareBlockParts = cs.PrePrepareBlockParts
    <3>1. IsBlocked(cs, vs, cs.LockedRound, cs.LockedBlock, vr, vb, m.block, cs.PrePrepareBlockParts)
      BY <1>0, BlockedFacts, Zenon DEF vs
    <3>. QED  BY <3>1, Zenon DEF IsBlocked
  <2>6. \A q, t : Maj23(vs, q, t) = Maj23(cs, q, t)
    BY <2>5, SameMaj23, Zenon DEF Frame
  <2>7. LockKept(cs, vs)
    <3>1. cs.LockedRound <= cs.LockedRound
      BY <1>0, SMTT(30)
    <3>. QED  BY <2>5, <3>1, Zenon DEF LockKept
  <2>8. /\ vb # None => vr \in 0..cs.Round /\ Maj23(cs, vr, "prepare") = vb
        /\ vr >= 0 => vb # None
        /\ cs.ValidBlock # None => vb # None
    <3>1. cs.Round \in 0..cs.Round
      BY <1>0, SMTT(30)
    <3>. QED  BY <1>0, <2>3, <3>1, Zenon DEF LockOK
  <2>9. maj = m.block => vb # None
    <3>1. CASE cs.ValidRound < cs.Round
      BY <2>3, <3>1
    <3>2. CASE ~(cs.ValidRound < cs.Round)
      <4>1. cs.ValidRound >= 0
        BY <1>0, <3>2, SMTT(30)
      <4>. QED  BY <1>0, <2>8, <4>1, Zenon DEF LockOK
    <3>. QED  BY <3>1, <3>2, Zenon
  <2> HIDE DEF vr, vb, new
  <2>10. LockOK(vs)
    BY <1>0, <1>2, <2>5, <2>6, <2>8, ZenonT(30) DEF LockOK
  <2>11. Held(vs)
    BY <2>5, <2>6, <2>9, Zenon DEF Held
  <2>12. Goes(cs, vs, S) /\ InRound(vs, S)
    BY <1>0, <2>4, <2>5, <2>7, <2>10, <2>11, Relock, ZenonT(30)
  <2>13. Ready(vs, S) /\ vs.Height = cs.Height /\ cs.Round <= vs.Round
    BY <1>0, <2>5, <2>12, SMTT(30) DEF Goes, Frame
  <2>14. Goes(vs, ps, S) /\ InRound(ps, S) /\ ps.Round = vs.Round
    BY <1>0, <2>12, <2>13, EnterPrepare, Zenon
  <2> HIDE DEF ps
  <2>15. Goes(ps, enterCommit(ps, cs.Round), S)
    <3>1. Ready(ps, S) /\ cs.Round <= ps.Round
      BY <2>13, <2>14, Zenon DEF Goes
    <3>. QED  BY <1>0, <2>14, <3>1, EnterCommit, Zenon
  <2>16. cs.Step = RoundStepReply => Result(vs, tryFinalizeAppend(vs), S)
    <3> SUFFICES ASSUME cs.Step = RoundStepReply PROVE Result(vs, tryFinalizeAppend(vs), S)
      BY Zenon
    <3>1. vs.ReplyRound \in Rounds /\ vs.Height <= MaxHeight
      BY <1>2, <2>5, <2>10, <2>13, Zenon DEF LockOK
    <3>. QED  BY <2>13, <3>1, TryFinalizeAppend, GoesRefl, ResultOfGoes, Zenon
  <2>17. Goes(cs, ps, S) /\ Goes(cs, enterCommit(ps, cs.Round), S)
    BY <2>12, <2>14, <2>15, GoesTrans, Zenon
  <2>. QED  BY <2>2, <2>12, <2>16, <2>17, ResultOfGoes, ResultAfterGoes, Zenon
<1>. QED  BY <1>1, <1>2, Zenon

-----------------------------------------------------------------------------
(* The votes.                                                              *)

Incoming(m, S) == m \in Message /\ (m \in S \/ m.by \notin Correct)

(* A vote message is what its signer signed. *)
LEMMA VoteIsSigned ==
    ASSUME NEW m \in VoteMessage
    PROVE  m = SignedVote(m.height, m.by, m.round, m.type, m.val)
  BY DEF VoteMessage, SignedVote

WithVotes(cs, vs) == [cs EXCEPT !.Votes = vs]

(* A change of the vote sets leaves the rest. *)
LEMMA WithVotesFacts ==
    ASSUME NEW cs \in RoundState, NEW vs \in HeightVoteSets
    PROVE  LET ds == WithVotes(cs, vs)
           IN  /\ ds.addr = cs.addr /\ ds.Height = cs.Height /\ ds.Votes = vs
               /\ ds.LastCommits = cs.LastCommits /\ ds.LastReplyRound = cs.LastReplyRound
               /\ ds.chain = cs.chain /\ ds.panicked = cs.panicked
               /\ ds.Round = cs.Round /\ ds.Step = cs.Step /\ ds.PrePrepare = cs.PrePrepare
               /\ ds.LockedRound = cs.LockedRound /\ ds.LockedBlock = cs.LockedBlock
               /\ ds.ValidRound = cs.ValidRound /\ ds.ValidBlock = cs.ValidBlock
               /\ ds.internalMsgQueue = cs.internalMsgQueue /\ ds.ticks = cs.ticks
               /\ ds.PrePrepareBlock = cs.PrePrepareBlock
               /\ ds.PrePrepareBlockParts = cs.PrePrepareBlockParts
               /\ ds.ReplyRound = cs.ReplyRound
  BY DEF WithVotes, RoundState

(* A node whose vote sets have grown. *)
LEMMA Grow ==
    ASSUME NEW S, SentOK(S), NEW cs, Ready(cs, S), NEW vs \in HeightVoteSets,
           vs.round = cs.Votes.round, Tracked(vs, cs.Round + 1),
           \A r \in Rounds, t \in VoteTypes :
              /\ Good(vs.sets[r][t])
              /\ Voters(cs.Votes.sets[r][t]) \subseteq Voters(vs.sets[r][t])
              /\ cs.Votes.sets[r][t].maj23 # NoVote
                    => vs.sets[r][t].maj23 = cs.Votes.sets[r][t].maj23
              /\ \A b \in BlockIDs : \A u \in vs.sets[r][t].votesByBlock[b] \cap Correct :
                    SignedVote(cs.Height, u, r, t, b) \in S
    PROVE  LET ds == WithVotes(cs, vs)
           IN  /\ Sound(ds, S) /\ FreshOK(ds, S) /\ Onward(cs, ds)
               /\ FreshVotes(ds, S) = FreshVotes(cs, S)
               /\ Maj23(ds, cs.Round, "prepare") = Maj23(cs, cs.Round, "prepare") => Held(ds)
<1> DEFINE ds == WithVotes(cs, vs)
<1>0. /\ cs \in RoundState /\ Sound(cs, S) /\ FreshOK(cs, S) /\ VotesOK(cs, S) /\ LockOK(cs)
      /\ Held(cs) /\ ~cs.panicked /\ cs.Step \in Nat /\ cs.LockedRound \in Int /\ cs.Round \in Rounds
  BY StateFacts, Zenon DEF Ready, Sound
<1>1. ds \in RoundState
  BY <1>0 DEF WithVotes, RoundState
<1>2. /\ ds.addr = cs.addr /\ ds.Height = cs.Height /\ ds.Votes = vs
      /\ ds.LastCommits = cs.LastCommits
      /\ ds.chain = cs.chain /\ ds.panicked = cs.panicked
      /\ ds.Round = cs.Round /\ ds.Step = cs.Step
      /\ ds.LockedRound = cs.LockedRound /\ ds.LockedBlock = cs.LockedBlock
      /\ ds.ValidRound = cs.ValidRound /\ ds.ValidBlock = cs.ValidBlock
      /\ ds.internalMsgQueue = cs.internalMsgQueue /\ ds.ticks = cs.ticks
      /\ ds.PrePrepareBlock = cs.PrePrepareBlock
      /\ ds.PrePrepareBlockParts = cs.PrePrepareBlockParts
      /\ ds.ReplyRound = cs.ReplyRound
  BY <1>0, WithVotesFacts, Zenon
<1> HIDE DEF ds
<1>3. \A r \in Rounds, t \in VoteTypes :
         /\ Voters(cs.Votes.sets[r][t]) \subseteq Voters(ds.Votes.sets[r][t])
         /\ Maj23(cs, r, t) # NoVote => Maj23(ds, r, t) = Maj23(cs, r, t)
  BY <1>2, Zenon DEF Maj23, getVoteSet
<1>4. Onward(cs, ds)
  <2>1. cs.Step <= cs.Step
    BY <1>0, SMTT(30)
  <2>. QED  BY <1>2, <1>3, <2>1, ZenonT(30) DEF Onward
<1>5. VotesOK(ds, S)
  <2>1. \A r \in Rounds, t \in VoteTypes :
           /\ Good(ds.Votes.sets[r][t])
           /\ \A b \in BlockIDs : \A u \in ds.Votes.sets[r][t].votesByBlock[b] \cap Correct :
                 SignedVote(ds.Height, u, r, t, b) \in S
    BY <1>2, Zenon
  <2>2. /\ Good(ds.LastCommits) /\ ds.Votes.round \in {ds.Round, ds.Round + 1}
        /\ Tracked(ds.Votes, ds.Round + 1)
    BY <1>0, <1>2, ZenonT(30) DEF VotesOK
  <2>. QED  BY <2>1, <2>2, ZenonT(30) DEF VotesOK, Tracked
<1>6. LockKept(cs, ds)
  <2>1. cs.LockedRound <= cs.LockedRound
    BY <1>0
  <2>. QED  BY <1>2, <2>1, ZenonT(30) DEF LockKept
<1>7. LockOK(ds)
  <2>1. ASSUME cs.LockedBlock # None
        PROVE  Maj23(ds, cs.LockedRound, "prepare") = cs.LockedBlock
    <3>1. /\ cs.LockedRound \in 0..cs.Round /\ cs.LockedBlock # NoVote
          /\ Maj23(cs, cs.LockedRound, "prepare") = cs.LockedBlock
      BY <1>0, <2>1, NotBlocks, ZenonT(30) DEF LockOK
    <3>2. cs.LockedRound \in Rounds
      BY <1>0, <3>1, RoundAssumption, SMTT(30) DEF Rounds
    <3>. QED  BY <1>3, <3>1, <3>2 DEF VoteTypes
  <2>2. ASSUME cs.ValidBlock # None
        PROVE  Maj23(ds, cs.ValidRound, "prepare") = cs.ValidBlock
    <3>1. /\ cs.ValidRound \in 0..cs.Round /\ cs.ValidBlock # NoVote
          /\ Maj23(cs, cs.ValidRound, "prepare") = cs.ValidBlock
      BY <1>0, <2>2, StateFacts, NotBlocks, ZenonT(30) DEF LockOK
    <3>2. cs.ValidRound \in Rounds
      BY <1>0, <3>1, RoundAssumption, SMTT(30) DEF Rounds
    <3>. QED  BY <1>3, <3>1, <3>2, Zenon DEF VoteTypes
  <2>. QED  BY <1>0, <1>2, <2>1, <2>2, ZenonT(30) DEF LockOK
<1>8. Maj23(ds, cs.Round, "prepare") = Maj23(cs, cs.Round, "prepare") => Held(ds)
  BY <1>0, <1>2, Zenon DEF Held
<1>9. Sound(ds, S) /\ FreshOK(ds, S) /\ FreshVotes(ds, S) = FreshVotes(cs, S)
  BY <1>0, <1>1, <1>2, <1>4, <1>5, <1>6, <1>7, GoesOn, Zenon
<1>. QED  BY <1>4, <1>8, <1>9, Zenon DEF ds

(* A vote of this height is counted. *)
LEMMA Count ==
    ASSUME NEW S, SentOK(S), NEW cs, Ready(cs, S), NEW p \in Peers, NEW m, Incoming(m, S),
           m.kind = "vote", m.height = cs.Height
    PROVE  LET ds == WithVotes(cs, AddHeightVote(cs.Votes, p, m.round, m.type, m.by, m.val))
           IN  /\ Sound(ds, S) /\ FreshOK(ds, S) /\ Onward(cs, ds)
               /\ FreshVotes(ds, S) = FreshVotes(cs, S) /\ ds.Round = cs.Round
               /\ (\/ ~AddsVote(cs.Votes, p, m.round, m.type, m.by, m.val)
                   \/ m.type # "prepare" \/ m.round # cs.Round) => Held(ds)
<1> DEFINE hvs == cs.Votes
           vs  == AddHeightVote(hvs, p, m.round, m.type, m.by, m.val)
           ds  == WithVotes(cs, vs)
           A(q, s) == AddVote(hvs.sets[q][s], m.by, m.val)
<1>0. /\ cs \in RoundState /\ VotesOK(cs, S) /\ hvs \in HeightVoteSets /\ cs.Round \in Rounds
      /\ cs.Round \in Nat
  BY StateFacts, Zenon DEF Ready, Sound
<1>1. /\ m \in VoteMessage /\ m.round \in Rounds /\ m.type \in VoteTypes /\ m.by \in Validators
      /\ m.val \in BlockIDs /\ (m.by \in Correct => m \in S)
  BY MessageFacts DEF Incoming
<1>2. Tracked(hvs, cs.Round + 1) /\ cs.Round + 1 \in Int
  BY <1>0, SMTT(30) DEF VotesOK, Tracked
<1>3. \A r \in Rounds, t \in VoteTypes : Good(hvs.sets[r][t])
  BY <1>0, Zenon DEF VotesOK
<1>4. /\ vs \in HeightVoteSets /\ vs.round = hvs.round /\ Tracked(vs, cs.Round + 1)
      /\ \A q \in Rounds, s \in VoteTypes :
            \/ vs.sets[q][s] = hvs.sets[q][s]
            \/ /\ q = m.round /\ s = m.type
               /\ m.round \in hvs.rounds \/ Opens(hvs, p, m.round)
               /\ vs.sets[q][s] = A(q, s)
  <2> HIDE DEF hvs
  <2>1. Good(hvs.sets[m.round][m.type])
    BY <1>1, <1>3, Zenon
  <2>2. OneVoteMore(hvs, vs, p, m.round, m.type, m.by, m.val, cs.Round + 1)
    BY <1>0, <1>1, <1>2, <2>1, AddHeightVoteFacts, Zenon
  <2>. QED  BY <2>2, Zenon DEF OneVoteMore
<1> HIDE DEF vs
<1>5. ASSUME NEW q \in Rounds, NEW s \in VoteTypes
      PROVE  LET ns == A(q, s)
                 os == hvs.sets[q][s]
             IN  /\ Good(ns) /\ Voters(os) \subseteq Voters(ns)
                 /\ \A c \in BlockIDs : \A u \in ns.votesByBlock[c] :
                       u \in os.votesByBlock[c] \/ (u = m.by /\ c = m.val)
                 /\ ns.maj23 = os.maj23
                       \/ (os.maj23 = NoVote /\ ns.maj23 = m.val /\ Added(os, m.by, m.val))
  <2>1. Good(hvs.sets[q][s])
    BY <1>3
  <2> DEFINE os == hvs.sets[q][s]
  <2> HIDE DEF hvs, os
  <2>2. Good(AddVote(os, m.by, m.val))
    BY <1>1, <2>1, AddVoteIsGood, Zenon DEF os
  <2>3. /\ \A c \in BlockIDs : \A u \in AddVote(os, m.by, m.val).votesByBlock[c] :
              u \in os.votesByBlock[c] \/ (u = m.by /\ c = m.val)
        /\ AddVote(os, m.by, m.val).maj23 = os.maj23
              \/ (os.maj23 = NoVote /\ AddVote(os, m.by, m.val).maj23 = m.val
                  /\ Added(os, m.by, m.val))
        /\ Voters(os) \subseteq Voters(AddVote(os, m.by, m.val))
    BY <1>1, <2>1, AddVoteFacts, Zenon DEF os
  <2>. QED  BY <2>2, <2>3, Zenon DEF os
<1> HIDE DEF A
<1>6. ASSUME NEW r \in Rounds, NEW t \in VoteTypes
      PROVE  /\ Good(vs.sets[r][t])
             /\ Voters(hvs.sets[r][t]) \subseteq Voters(vs.sets[r][t])
             /\ hvs.sets[r][t].maj23 # NoVote => vs.sets[r][t].maj23 = hvs.sets[r][t].maj23
             /\ \A b \in BlockIDs : \A u \in vs.sets[r][t].votesByBlock[b] \cap Correct :
                   SignedVote(cs.Height, u, r, t, b) \in S
  <2>1. CASE vs.sets[r][t] = hvs.sets[r][t]
    BY <1>0, <1>3, <2>1, Zenon DEF VotesOK
  <2>2. CASE r = m.round /\ t = m.type /\ vs.sets[r][t] = A(r, t)
    <3>1. m.by \in Correct => SignedVote(cs.Height, m.by, r, t, m.val) \in S
      BY <1>1, <2>2, VoteIsSigned, Zenon
    <3>2. \A b \in BlockIDs : \A u \in hvs.sets[r][t].votesByBlock[b] \cap Correct :
             SignedVote(cs.Height, u, r, t, b) \in S
      BY <1>0, ZenonT(30) DEF VotesOK
    <3>3. /\ Good(A(r, t)) /\ Voters(hvs.sets[r][t]) \subseteq Voters(A(r, t))
          /\ hvs.sets[r][t].maj23 # NoVote => A(r, t).maj23 = hvs.sets[r][t].maj23
          /\ \A c \in BlockIDs : \A u \in A(r, t).votesByBlock[c] :
                u \in hvs.sets[r][t].votesByBlock[c] \/ (u = m.by /\ c = m.val)
      BY <1>5, Zenon
    <3>4. \A b \in BlockIDs : \A u \in A(r, t).votesByBlock[b] \cap Correct :
             SignedVote(cs.Height, u, r, t, b) \in S
      BY <3>1, <3>2, <3>3
    <3>. QED  BY <2>2, <3>3, <3>4, ZenonT(30)
  <2>. QED  BY <1>4, <2>1, <2>2, Zenon
<1>7. /\ Sound(ds, S) /\ FreshOK(ds, S) /\ Onward(cs, ds)
      /\ FreshVotes(ds, S) = FreshVotes(cs, S)
      /\ Maj23(ds, cs.Round, "prepare") = Maj23(cs, cs.Round, "prepare") => Held(ds)
  BY <1>4, <1>6, Grow, ZenonT(30)
<1>8. ds.Votes = vs /\ ds.Round = cs.Round
  BY <1>0, <1>4, WithVotesFacts, Zenon
<1> HIDE DEF ds
<1>9. ASSUME \/ ~AddsVote(hvs, p, m.round, m.type, m.by, m.val)
             \/ m.type # "prepare" \/ m.round # cs.Round
      PROVE  Maj23(ds, cs.Round, "prepare") = Maj23(cs, cs.Round, "prepare")
  <2>1. vs.sets[cs.Round]["prepare"].maj23 = hvs.sets[cs.Round]["prepare"].maj23
    BY <1>0, <1>4, <1>5, <1>9, Zenon DEF AddsVote, VoteTypes
  <2>. QED  BY <1>8, <2>1 DEF Maj23, getVoteSet
<1>. QED  BY <1>7, <1>8, <1>9, Zenon DEF ds, vs

(* The updates of PrepareAdded. *)
LEMMA FreeForm ==
    ASSUME NEW cs \in RoundState
    PROVE  Unlocked(cs) = Blocked(cs, -1, None, cs.ValidRound, cs.ValidBlock,
                                  cs.PrePrepareBlock, cs.PrePrepareBlockParts)
  BY Zenon DEF Blocked, RoundState, Unlocked

(* Nothing changes. *)
LEMMA SameForm ==
    ASSUME NEW cs \in RoundState
    PROVE  cs = Blocked(cs, cs.LockedRound, cs.LockedBlock, cs.ValidRound, cs.ValidBlock,
                        cs.PrePrepareBlock, cs.PrePrepareBlockParts)
  BY Zenon DEF Blocked, RoundState

(* Giving up a lock leaves the other blocks. *)
LEMMA UnlockedFacts ==
    ASSUME NEW cs \in RoundState
    PROVE  /\ Unlocked(cs).ValidRound = cs.ValidRound /\ Unlocked(cs).ValidBlock = cs.ValidBlock
           /\ Unlocked(cs).PrePrepareBlock = cs.PrePrepareBlock
  BY Zenon DEF Unlocked, RoundState

(* What PrepareAdded makes of the lock and of the valid block before it    *)
(* moves on.                                                               *)
LEMMA PrepareCounted ==
    ASSUME NEW S, SentOK(S), NEW cs, Sound(cs, S), FreshOK(cs, S), NEW r \in Rounds,
           r # cs.Round => Held(cs)
    PROVE  LET maj  == Maj23(cs, r, "prepare")
               free == IF /\ maj # NoVote
                          /\ cs.LockedBlock \notin {None, maj}
                          /\ cs.LockedRound < r /\ r <= cs.Round
                       THEN Unlocked(cs) ELSE cs
               have == cs.PrePrepareBlock = maj
               now  == IF maj \in Blocks /\ cs.ValidRound < r /\ r = cs.Round
                       THEN [free EXCEPT !.ValidRound = IF have THEN r ELSE @,
                                         !.ValidBlock = IF have THEN maj ELSE @,
                                         !.PrePrepareBlock = IF have THEN @ ELSE None,
                                         !.PrePrepareBlockParts = maj]
                       ELSE free
           IN  /\ Goes(cs, now, S) /\ FreshVotes(now, S) = FreshVotes(cs, S)
               /\ InRound(cs, S) => InRound(now, S)
               /\ now.Round = cs.Round
<1> DEFINE maj  == Maj23(cs, r, "prepare")
           unl  == /\ maj # NoVote
                   /\ cs.LockedBlock \notin {None, maj}
                   /\ cs.LockedRound < r /\ r <= cs.Round
           val  == maj \in Blocks /\ cs.ValidRound < r /\ r = cs.Round
           free == IF unl THEN Unlocked(cs) ELSE cs
           have == cs.PrePrepareBlock = maj
           now  == IF val
                   THEN [free EXCEPT !.ValidRound = IF have THEN r ELSE @,
                                     !.ValidBlock = IF have THEN maj ELSE @,
                                     !.PrePrepareBlock = IF have THEN @ ELSE None,
                                     !.PrePrepareBlockParts = maj]
                   ELSE free
           lr == IF unl THEN -1 ELSE cs.LockedRound
           lb == IF unl THEN None ELSE cs.LockedBlock
           vr == IF val /\ have THEN r ELSE cs.ValidRound
           vb == IF val /\ have THEN maj ELSE cs.ValidBlock
           b  == IF val /\ ~have THEN None ELSE cs.PrePrepareBlock
           h  == IF val THEN maj ELSE cs.PrePrepareBlockParts
<1>0. /\ cs \in RoundState /\ LockOK(cs) /\ cs.Step \in Nat /\ cs.Round \in Nat /\ r \in Nat
      /\ cs.LockedRound \in Int /\ cs.ValidRound \in Int
  BY StateFacts, RoundsAreInts, Zenon DEF Sound
<1>a. /\ cs.LockedRound \in RoundOrNone /\ cs.LockedBlock \in Nilable(Blocks)
      /\ cs.ValidRound \in RoundOrNone /\ cs.ValidBlock \in Nilable(Blocks)
      /\ cs.PrePrepareBlock \in Nilable(Blocks) /\ cs.PrePrepareBlockParts \in Nilable(Blocks)
  BY <1>0, Zenon DEF RoundState
<1>b. /\ None \in Nilable(Blocks) /\ -1 \in RoundOrNone /\ r \in RoundOrNone
      /\ val => maj \in Nilable(Blocks)
  BY DEF Nilable, RoundOrNone
<1>1. now = Blocked(cs, lr, lb, vr, vb, b, h)
  <2> HIDE DEF maj, unl, have
  <2>1. CASE val /\ unl
    <3>1. now = [Unlocked(cs) EXCEPT !.ValidRound = vr, !.ValidBlock = vb,
                                     !.PrePrepareBlock = b, !.PrePrepareBlockParts = h]
      BY <1>0, <2>1, UnlockedFacts, Zenon
    <3> HIDE DEF now
    <3>2. lr = -1 /\ lb = None
      BY <2>1
    <3> HIDE DEF vr, vb, b, h, lr, lb
    <3>3. [Unlocked(cs) EXCEPT !.ValidRound = vr, !.ValidBlock = vb,
                            !.PrePrepareBlock = b, !.PrePrepareBlockParts = h]
             = Blocked(cs, -1, None, vr, vb, b, h)
      BY <1>0 DEF Blocked, RoundState, Unlocked
    <3>. QED  BY ONLY <3>1, <3>2, <3>3
  <2>2. CASE val /\ ~unl
    <3>1. now = [cs EXCEPT !.ValidRound = vr, !.ValidBlock = vb,
                           !.PrePrepareBlock = b, !.PrePrepareBlockParts = h]
      BY <1>0, <2>2, Zenon
    <3> HIDE DEF now
    <3>2. lr = cs.LockedRound /\ lb = cs.LockedBlock
      BY <2>2
    <3> HIDE DEF vr, vb, b, h, lr, lb
    <3>3. [cs EXCEPT !.ValidRound = vr, !.ValidBlock = vb,
                            !.PrePrepareBlock = b, !.PrePrepareBlockParts = h]
             = Blocked(cs, cs.LockedRound, cs.LockedBlock, vr, vb, b, h)
      BY <1>0, Zenon DEF Blocked, RoundState
    <3>. QED  BY ONLY <3>1, <3>2, <3>3
  <2>3. CASE ~val
    <3> HIDE DEF val
    <3>. QED  BY <1>0, <2>3, FreeForm, SameForm, Zenon
  <2>. QED  BY <2>1, <2>2, <2>3
<1>2. now \in RoundState
  <2>1. /\ lr \in RoundOrNone /\ lb \in Nilable(Blocks) /\ vr \in RoundOrNone
        /\ vb \in Nilable(Blocks) /\ b \in Nilable(Blocks) /\ h \in Nilable(Blocks)
    <3> HIDE DEF maj, unl, val, have
    <3>. QED  BY <1>a, <1>b, Zenon
  <2> HIDE DEF lr, lb, vr, vb, b, h, now
  <2>. QED  BY <1>0, <1>1, <2>1, BlockedType, Zenon
<1>3. /\ Frame(cs, now) /\ now.Round = cs.Round /\ now.Step = cs.Step
      /\ now.ReplyRound = cs.ReplyRound
      /\ now.internalMsgQueue = cs.internalMsgQueue /\ now.ticks = cs.ticks
      /\ now.LockedRound = lr /\ now.LockedBlock = lb
      /\ now.ValidRound = vr /\ now.ValidBlock = vb
      /\ now.PrePrepareBlock = b /\ now.PrePrepareBlockParts = h
  <2> HIDE DEF lr, lb, vr, vb, b, h, now
  <2>1. IsBlocked(cs, now, lr, lb, vr, vb, b, h)
    BY <1>0, <1>1, BlockedFacts, Zenon
  <2>. QED  BY <2>1, Zenon DEF IsBlocked
<1> HIDE DEF now
<1>4. \A q, t : Maj23(now, q, t) = Maj23(cs, q, t)
  BY <1>3, SameMaj23, ZenonT(30) DEF Frame
<1>5. LockKept(cs, now)
  <2>1. CASE unl
    BY <1>3, <1>4, <2>1, ZenonT(30) DEF LockKept
  <2>2. CASE ~unl
    <3>1. cs.LockedRound <= cs.LockedRound
      BY <1>0
    <3> HIDE DEF unl
    <3>. QED  BY <1>3, <2>2, <3>1, Zenon DEF LockKept
  <2>. QED  BY <2>1, <2>2
<1>6. /\ vb # None => vr \in 0..cs.Round /\ Maj23(cs, vr, "prepare") = vb
      /\ vr >= 0 => vb # None
      /\ cs.ValidBlock # None => vb # None
      /\ b # None => h = b
  <2>1. CASE val /\ have
    <3>1. r \in 0..cs.Round
      BY <1>0, <2>1, SMTT(30)
    <3>2. maj # None /\ cs.PrePrepareBlock # None
      BY <2>1, NotBlocks, Zenon
    <3>3. vr = r /\ vb = maj /\ b = maj /\ h = maj
      BY <2>1, Zenon
    <3> HIDE DEF vr, vb, b, h
    <3>. QED  BY <3>1, <3>2, <3>3, Zenon
  <2>2. CASE ~(val /\ have)
    <3>1. vr = cs.ValidRound /\ vb = cs.ValidBlock
          /\ (b = None \/ (b = cs.PrePrepareBlock /\ h = cs.PrePrepareBlockParts))
      BY <2>2, Zenon
    <3> HIDE DEF vr, vb, b, h
    <3>. QED  BY <1>0, <3>1, Zenon DEF LockOK
  <2>. QED  BY <2>1, <2>2, Zenon
<1>7. Held(now)
  <2>1. CASE r # cs.Round
    <3>1. Held(cs) /\ b = cs.PrePrepareBlock /\ vb = cs.ValidBlock
      BY <2>1, Zenon
    <3> HIDE DEF b, vb
    <3>. QED  BY <1>3, <1>4, <3>1, ZenonT(30) DEF Held
  <2>2. CASE r = cs.Round
    <3>1. ASSUME b # None, b = maj PROVE vb # None
      <4>1. cs.PrePrepareBlock = b /\ maj \in Blocks
        BY <1>a, <3>1, Zenon DEF Nilable
      <4>2. CASE cs.ValidRound < r
        BY <2>2, <4>1, <4>2, <3>1, NotBlocks, Zenon
      <4>3. CASE ~(cs.ValidRound < r)
        <5>1. cs.ValidRound >= 0
          BY <1>0, <4>3
        <5>. QED  BY <1>0, <1>6, <5>1, Zenon DEF LockOK
      <4>. QED  BY <4>2, <4>3, Zenon
    <3>2. Maj23(now, now.Round, "prepare") = maj
      BY <1>3, <1>4, <2>2, Zenon
    <3> HIDE DEF maj, b, vb
    <3>. QED  BY <1>3, <3>1, <3>2, Zenon DEF Held
  <2>. QED  BY <2>1, <2>2, Zenon
<1>8. LockOK(now)
  <2>1. lb # None => lb = cs.LockedBlock /\ lr = cs.LockedRound
    OBVIOUS
  <2> HIDE DEF lb, lr, vr, vb, b, h
  <2>. QED  BY <1>0, <1>3, <1>4, <1>6, <2>1, ZenonT(30) DEF LockOK
<1>9. /\ Goes(cs, now, S) /\ FreshVotes(now, S) = FreshVotes(cs, S)
      /\ InRound(cs, S) => InRound(now, S)
  BY <1>2, <1>3, <1>5, <1>7, <1>8, Relock, Zenon
<1>. QED  BY <1>3, <1>9, Zenon DEF now

(* addVote, once a prepare has been counted. *)
LEMMA AddedPrepare ==
    ASSUME NEW S, SentOK(S), NEW cs, Sound(cs, S), FreshOK(cs, S), InRound(cs, S),
           NEW r \in Rounds, r # cs.Round => Held(cs)
    PROVE  Goes(cs, PrepareAdded(cs, r), S)
<1> DEFINE maj  == Maj23(cs, r, "prepare")
           any  == HasTwoThirdsAny(getVoteSet(cs.Votes, r, "prepare"))
           free == IF /\ maj # NoVote
                      /\ cs.LockedBlock \notin {None, maj}
                      /\ cs.LockedRound < r /\ r <= cs.Round
                   THEN Unlocked(cs) ELSE cs
           have == cs.PrePrepareBlock = maj
           now  == IF maj \in Blocks /\ cs.ValidRound < r /\ r = cs.Round
                   THEN [free EXCEPT !.ValidRound = IF have THEN r ELSE @,
                                     !.ValidBlock = IF have THEN maj ELSE @,
                                     !.PrePrepareBlock = IF have THEN @ ELSE None,
                                     !.PrePrepareBlockParts = maj]
                   ELSE free
<1>0. cs \in RoundState /\ cs.Round \in Nat /\ r \in Nat /\ cs.Round \in Rounds
  BY StateFacts, RoundsAreInts, Zenon DEF Sound
<1>1. Goes(cs, now, S) /\ InRound(now, S) /\ now.Round = cs.Round
  BY PrepareCounted, Zenon
<1>2. PrepareAdded(cs, r)
        = IF cs.Round < r THEN IF any THEN enterNewRound(now, r) ELSE now
          ELSE IF cs.Round = r /\ RoundStepPrepare <= cs.Step
          THEN IF maj # NoVote /\ (isPrePrepareComplete(now) \/ maj = Nil)
               THEN enterCommit(now, r)
               ELSE IF any THEN enterPrepareWait(now, r) ELSE now
          ELSE IF /\ now.PrePrepare # None
                  /\ now.PrePrepare.polRound = r
                  /\ isPrePrepareComplete(now)
          THEN enterPrepare(now, now.Round)
          ELSE now
  BY Zenon DEF PrepareAdded
<1> HIDE DEF now, any, maj
<1>3. Ready(now, S) /\ now \in RoundState
  BY <1>1, Zenon DEF Goes, Ready, Sound
<1>4. ASSUME NEW es, Goes(now, es, S) PROVE Goes(cs, es, S)
  <2>1. es \in RoundState
    BY <1>4, Zenon DEF Goes, Ready, Sound
  <2>. QED  BY <1>0, <1>1, <1>3, <1>4, <2>1, OnwardTrans, Zenon DEF Goes
<1>5. cs.Round < r => Goes(now, enterNewRound(now, r), S)
  <2>1. cs.Round < r => r # 0
    BY <1>0, SMTT(30)
  <2>. QED  BY <1>3, <2>1, EnterNewRound, Zenon
<1>6. ASSUME cs.Round = r
      PROVE  Goes(now, enterCommit(now, r), S) /\ Goes(now, enterPrepareWait(now, r), S)
  <2>1. r <= now.Round
    BY <1>0, <1>1, <1>6, SMTT(30)
  <2>. QED  BY <1>1, <1>3, <2>1, EnterCommit, EnterPrepareWait, Zenon
<1>7. Goes(now, enterPrepare(now, now.Round), S)
  <2>1. now.Round <= now.Round /\ now.Round \in Rounds
    BY <1>0, <1>1, SMTT(30)
  <2>. QED  BY <1>1, <1>3, <2>1, EnterPrepare, Zenon
<1>. QED  BY <1>1, <1>2, <1>4, <1>5, <1>6, <1>7, Zenon

(* addVote, once a commit has been counted. *)
LEMMA AddedCommit ==
    ASSUME NEW S, SentOK(S), NEW cs, Ready(cs, S), FreshVotes(cs, S) = {},
           cs.Height <= MaxHeight, NEW r \in Rounds
    PROVE  Result(cs, CommitAdded(cs, r), S)
<1> DEFINE commits   == getVoteSet(cs.Votes, r, "commit")
           ns        == enterNewRound(cs, r)
           committed == enterCommit(ns, r)
           replied   == enterReply(committed, r)
<1>0. cs \in RoundState /\ VotesOK(cs, S) /\ commits = cs.Votes.sets[r]["commit"]
  BY Zenon DEF Ready, Sound, getVoteSet
<1>1. Good(commits)
  BY <1>0, Zenon DEF VotesOK, VoteTypes
<1>2. CommitAdded(cs, r)
        = IF commits.maj23 = Nil THEN enterCommitWait(committed, r)
          ELSE IF commits.maj23 # NoVote
          THEN IF SkipTimeoutReply /\ HasAll(commits) THEN enterNewRound(replied, 0) ELSE replied
          ELSE IF cs.Round <= r /\ HasTwoThirdsAny(commits)
          THEN enterCommitWait(ns, r)
          ELSE cs
  BY Zenon DEF CommitAdded
<1>3. InRound(cs, S)
  BY Zenon DEF InRound
<1>4. Goes(cs, ns, S) /\ r <= ns.Round /\ InRound(ns, S)
  BY <1>3, EnterNewRound, Zenon
<1> HIDE DEF ns
<1>5. Goes(ns, committed, S) /\ InRound(committed, S) /\ committed.Round = ns.Round
  <2>1. Ready(ns, S)
    BY <1>4 DEF Goes
  <2>. QED  BY <1>4, <2>1, EnterCommit, Zenon
<1> HIDE DEF committed
<1>6. /\ Goes(cs, committed, S) /\ Ready(ns, S) /\ Ready(committed, S)
      /\ r <= committed.Round /\ committed.Height = cs.Height
      /\ ns.Votes.sets = cs.Votes.sets /\ committed.Votes.sets = cs.Votes.sets
  <2>1. Goes(cs, committed, S)
    BY <1>4, <1>5, GoesTrans, Zenon
  <2>. QED  BY <1>4, <1>5, <2>1, Zenon DEF Goes, Onward
<1>7. ASSUME HasTwoThirdsAny(commits)
      PROVE  Goes(committed, enterCommitWait(committed, r), S) /\ Goes(ns, enterCommitWait(ns, r), S)
  BY <1>0, <1>4, <1>6, <1>7, EnterCommitWait, Zenon
<1>8. commits.maj23 # NoVote => HasTwoThirdsAny(commits)
  BY <1>1, MajorityIsAny, Zenon
<1>9. ASSUME commits.maj23 \notin {Nil, NoVote}
      PROVE  \/ Goes(committed, replied, S) /\ InRound(replied, S)
             \/ NextHeight(committed, replied, S)
  <2>1. commits.maj23 \in Blocks
    <3>1. commits \in VoteSets
      BY <1>1, Zenon DEF Good
    <3>. QED  BY <1>9, <3>1, Zenon DEF VoteSets, Blocks
  <2>2. Maj23(committed, r, "commit") \in Blocks
    BY <1>0, <1>6, <2>1, Zenon DEF Maj23, getVoteSet
  <2>. QED  BY <1>5, <1>6, <2>2, EnterReply, Zenon
<1> HIDE DEF replied
<1>10. ASSUME commits.maj23 \notin {Nil, NoVote}
       PROVE  Result(cs, replied, S) /\ Result(cs, enterNewRound(replied, 0), S)
  <2>1. Result(committed, replied, S)
    BY <1>9, <1>10, ResultOfGoes, Zenon
  <2>2. Ready(replied, S) /\ (InRound(replied, S) \/ replied.PrePrepare = None)
    BY <1>9, <1>10, Zenon DEF Goes, NextHeight
  <2>3. 0 \in Rounds
    BY RoundAssumption, SMTT(30) DEF Rounds
  <2>4. Goes(replied, enterNewRound(replied, 0), S)
    BY <2>2, <2>3, EnterNewRound, Zenon
  <2>5. Result(committed, enterNewRound(replied, 0), S)
    <3>1. committed \in RoundState /\ replied \in RoundState
          /\ enterNewRound(replied, 0) \in RoundState
      BY <1>6, <2>2, <2>4, Zenon DEF Ready, Sound, Goes
    <3>2. CASE Onward(committed, replied)
      BY <2>4, <3>1, <3>2, OnwardTrans, Zenon DEF Goes, Result
    <3>. QED  BY <2>1, <2>4, <3>2, ZenonT(30) DEF Goes, Result, Onward
  <2>. QED  BY <1>6, <2>1, <2>5, ResultAfterGoes, Zenon
<1>11. HasTwoThirdsAny(commits) => /\ Goes(cs, enterCommitWait(committed, r), S)
                                   /\ Goes(cs, enterCommitWait(ns, r), S)
  BY <1>4, <1>6, <1>7, GoesTrans, Zenon
<1> HIDE DEF commits
<1>12. HasTwoThirdsAny(commits) => /\ Result(cs, enterCommitWait(committed, r), S)
                                   /\ Result(cs, enterCommitWait(ns, r), S)
  BY <1>11, ResultOfGoes, Zenon
<1>13. Result(cs, cs, S)
  BY GoesRefl, ResultOfGoes
<1>. QED  BY <1>2, <1>8, <1>10, <1>12, <1>13, NotBlocks, Zenon
=============================================================================
