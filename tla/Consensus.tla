----------------------------- MODULE Consensus -----------------------------
(***************************************************************************)
(* The consensus state machine of consensus/consensus_state.go, run by     *)
(* every correct validator.                                                *)
(*                                                                         *)
(* receiveRoutine is the only writer of a node's RoundState, and each      *)
(* message, timeout or notification it takes is handled to the end before  *)
(* the next.  So a handler is an operator from RoundState to RoundState,   *)
(* composed as the code composes its calls, and a step of the              *)
(* specification runs one handler of one node.                             *)
(*                                                                         *)
(* Between nodes there is gossip: a message its signer has handled itself  *)
(* may reach any node at any time, any number of times, or never.  The     *)
(* validators outside Correct may have signed anything.                    *)
(***************************************************************************)
EXTENDS HeightVoteSet

CONSTANTS Correct,            \* the validators that run the code
          ValidBlocks,        \* the blocks ValidateBlock accepts
          None,               \* a nil pointer
          Self,               \* the empty peer ID of a node's own messages
          MaxHeight,          \* bound: the last height nodes take part in
          Primary,            \* GetPrimary: the primary of a height and round
          NewBlock,           \* the block createPrePrepareBlock makes in a round
          ProofHeights,       \* heights where needProofBlock holds
          Forged,             \* the messages faulty validators may sign
          Claims,             \* the majorities peers may claim
          WaitForTxs, EmptyBlocksInterval, SkipTimeoutReply   \* config

Heights == 1..(MaxHeight + 1)

ASSUME ConsensusAssumption ==
    /\ Correct \subseteq Validators
    /\ ValidBlocks \subseteq Blocks
    /\ None \notin BlockIDs
    /\ Self \in Peers
    /\ MaxHeight \in Nat \ {0}
    /\ Primary \in [Heights -> [Rounds -> Validators]]
    /\ NewBlock \in [Rounds -> ValidBlocks]
    /\ 1 \in ProofHeights
    /\ Claims \subseteq Rounds \X VoteTypes \X BlockIDs
    /\ {WaitForTxs, EmptyBlocksInterval, SkipTimeoutReply} \subseteq BOOLEAN

RoundStepNewHeight   == 1
RoundStepNewRound    == 2
RoundStepPrePrepare  == 3
RoundStepPrepare     == 4
RoundStepPrepareWait == 5
RoundStepCommit      == 6
RoundStepCommitWait  == 7
RoundStepReply       == 8

PrePrepareMessage ==
    [kind : {"pre_prepare"}, height : Heights, round : Rounds,
     polRound : Rounds \cup {-1}, block : Blocks, by : Validators]

(* A block travels as one part. *)
BlockPartMessage ==
    [kind : {"part"}, height : Heights, block : Blocks, by : Validators]

VoteMessage ==
    [kind : {"vote"}, height : Heights, round : Rounds, type : VoteTypes,
     val : BlockIDs, by : Validators]

Message == PrePrepareMessage \cup BlockPartMessage \cup VoteMessage

ASSUME ForgedAssumption == Forged \subseteq {m \in Message : m.by \notin Correct}

(* A block that a quorum votes for has passed ValidateBlock: either every  *)
(* quorum has a correct member or every block is valid.  enterCommit and   *)
(* finalizeAppend panic otherwise.                                         *)
ASSUME ValidAssumption == \/ \A Q \in Quorums : Q \cap Correct # {}
                          \/ ValidBlocks = Blocks

(* The steps scheduleTimeout is called with. *)
TimeoutSteps ==
    {RoundStepNewHeight, RoundStepNewRound, RoundStepPrePrepare,
     RoundStepPrepareWait, RoundStepCommitWait}

Timeout == Rounds \X TimeoutSteps

Nilable(T) == T \cup {None}

RoundOrNone == Rounds \cup {-1}

RoundState ==
    [addr : Correct,
     Height : Heights,
     Round : Rounds,
     Step : RoundStepNewHeight..RoundStepReply,
     PrePrepare : Nilable(PrePrepareMessage),
     PrePrepareBlock : Nilable(Blocks),
     PrePrepareBlockParts : Nilable(Blocks),         \* its header
     LockedRound : RoundOrNone,
     LockedBlock : Nilable(Blocks),
     ValidRound : RoundOrNone,
     ValidBlock : Nilable(Blocks),
     Votes : HeightVoteSets,
     ReplyRound : RoundOrNone,
     LastCommits : VoteSets,
     LastReplyRound : RoundOrNone,                   \* LastCommits.round
     TriggeredTimeoutCommit : BOOLEAN,
     internalMsgQueue : Seq(Message),
     ticked : Timeout,                               \* the ticker's last timeout
     ticks : SUBSET Timeout,                         \* accepted, not handled or stale
     chain : Seq(Blocks),                            \* blocks appended
     panicked : BOOLEAN]

(* NewState, and OnStart up to receiveRoutine. *)
NewState(v) ==
    [addr |-> v, Height |-> 1, Round |-> 0, Step |-> RoundStepNewHeight,
     PrePrepare |-> None, PrePrepareBlock |-> None, PrePrepareBlockParts |-> None,
     LockedRound |-> -1, LockedBlock |-> None, ValidRound |-> -1, ValidBlock |-> None,
     Votes |-> NewHeightVoteSet, ReplyRound |-> -1,
     LastCommits |-> NewVoteSet, LastReplyRound |-> -1,
     TriggeredTimeoutCommit |-> FALSE, internalMsgQueue |-> <<>>,
     ticked |-> <<0, RoundStepNewHeight>>, ticks |-> {<<0, RoundStepNewHeight>>},
     chain |-> <<>>, panicked |-> FALSE]

-----------------------------------------------------------------------------
(* What the handlers are made of. *)

Panic(cs) == [cs EXCEPT !.panicked = TRUE]

(***************************************************************************)
(* scheduleTimeout and the ticker: a timeout is accepted if it is later    *)
(* than the last accepted one.  An accepted timeout fires at any time and  *)
(* is handled after any delay, unless the next one replaces it first, so   *)
(* it is kept until it is handled and it may never be.                     *)
(***************************************************************************)
scheduleTimeout(cs, r, s) ==
    IF cs.ticked[1] < r \/ (cs.ticked[1] = r /\ cs.ticked[2] < s)
    THEN [cs EXCEPT !.ticked = <<r, s>>, !.ticks = @ \cup {<<r, s>>}]
    ELSE cs

sendInternalMessage(cs, m) == [cs EXCEPT !.internalMsgQueue = Append(@, m)]

signAddVote(cs, t, x) ==
    sendInternalMessage(cs, [kind |-> "vote", height |-> cs.Height, round |-> cs.Round,
                             type |-> t, val |-> x, by |-> cs.addr])

Maj23(cs, r, t) == getVoteSet(cs.Votes, r, t).maj23

isPrimary(cs) == Primary[cs.Height][cs.Round] = cs.addr

isPrePrepareComplete(cs) ==
    /\ cs.PrePrepare # None
    /\ cs.PrePrepareBlock # None
    /\ \/ cs.PrePrepare.polRound < 0
       \/ HasTwoThirdsMajority(getVoteSet(cs.Votes, cs.PrePrepare.polRound, "prepare"))

(* The guard most handlers begin with. *)
Past(cs, r, s) == r < cs.Round \/ (cs.Round = r /\ s <= cs.Step)

Stepped(cs, r, s) == [cs EXCEPT !.Round = r, !.Step = s]

Unlocked(cs) == [cs EXCEPT !.LockedRound = -1, !.LockedBlock = None]

-----------------------------------------------------------------------------
(* The handlers.  Every caller passes the node's own height. *)

createPrePrepareBlock(cs) ==
    IF cs.Height = 1 \/ HasTwoThirdsMajority(cs.LastCommits)
    THEN NewBlock[cs.Round] ELSE None

decidePrePrepare(cs, r) ==
    LET b == IF cs.ValidBlock # None THEN cs.ValidBlock ELSE createPrePrepareBlock(cs)
        proposal == [kind |-> "pre_prepare", height |-> cs.Height, round |-> r,
                     polRound |-> cs.ValidRound, block |-> b, by |-> cs.addr]
        part == [kind |-> "part", height |-> cs.Height, block |-> b, by |-> cs.addr]
    IN  IF b = None THEN cs
        ELSE sendInternalMessage(sendInternalMessage(cs, proposal), part)

(* Mutant of doPrepare: the lock is ignored. *)
doPrepareUnlocked(cs) ==
    signAddVote(cs, "prepare",
                IF cs.PrePrepareBlock \in ValidBlocks THEN cs.PrePrepareBlock ELSE Nil)

doPrepare(cs) ==
    signAddVote(cs, "prepare",
                IF cs.LockedBlock # None THEN cs.LockedBlock
                ELSE IF cs.PrePrepareBlock \in ValidBlocks THEN cs.PrePrepareBlock
                ELSE Nil)

(* Mutant of enterPrepare: the step is not looked at. *)
enterPrepareAgain(cs, r) ==
    IF r < cs.Round THEN cs ELSE Stepped(doPrepare(cs), r, RoundStepPrepare)

enterPrepare(cs, r) ==
    IF Past(cs, r, RoundStepPrepare) THEN cs
    ELSE Stepped(doPrepare(cs), r, RoundStepPrepare)

enterPrePrepare(cs, r) ==
    LET timed    == scheduleTimeout(cs, r, RoundStepPrePrepare)
        proposed == IF isPrimary(cs) THEN decidePrePrepare(timed, r) ELSE timed
        stepped  == Stepped(proposed, r, RoundStepPrePrepare)
    IN  IF Past(cs, r, RoundStepPrePrepare) THEN cs
        ELSE IF isPrePrepareComplete(stepped) THEN enterPrepare(stepped, r)
        ELSE stepped

enterNewRound(cs, r) ==
    LET begun == [Stepped(cs, r, RoundStepNewRound) EXCEPT
                    !.PrePrepare = IF r = 0 THEN @ ELSE None,
                    !.PrePrepareBlock = IF r = 0 THEN @ ELSE None,
                    !.PrePrepareBlockParts = IF r = 0 THEN @ ELSE None,
                    !.Votes = SetRound(@, r + 1),
                    !.TriggeredTimeoutCommit = FALSE]
    IN  IF r < cs.Round \/ (cs.Round = r /\ cs.Step # RoundStepNewHeight) THEN cs
        ELSE IF SetRoundPanics(cs.Votes, r + 1) THEN Panic(cs)
        ELSE IF WaitForTxs /\ r = 0 /\ cs.Height \notin ProofHeights
        THEN IF EmptyBlocksInterval THEN scheduleTimeout(begun, r, RoundStepNewRound) ELSE begun
        ELSE enterPrePrepare(begun, r)

(* Mutant of enterPrepareWait: the step is not looked at. *)
enterPrepareWaitAgain(cs, r) ==
    IF r < cs.Round THEN cs
    ELSE Stepped(scheduleTimeout(cs, r, RoundStepPrepareWait), r, RoundStepPrepareWait)

enterPrepareWait(cs, r) ==
    IF Past(cs, r, RoundStepPrepareWait) THEN cs
    ELSE Stepped(scheduleTimeout(cs, r, RoundStepPrepareWait), r, RoundStepPrepareWait)

(* Mutant of CommitAndLock: the lock is committed to without a majority. *)
CommitAndLockAnyway(cs, r) ==
    LET maj == Maj23(cs, r, "prepare")
    IN  IF maj \in Blocks /\ cs.PrePrepareBlock = maj
        THEN signAddVote([cs EXCEPT !.LockedRound = r, !.LockedBlock = maj], "commit", maj)
        ELSE signAddVote(cs, "commit", IF cs.LockedBlock # None THEN cs.LockedBlock ELSE Nil)

(* The commit vote, and what it does to the lock.  A polka for a block the *)
(* node does not have releases the lock and makes it expect that block.    *)
CommitAndLock(cs, r) ==
    LET maj == Maj23(cs, r, "prepare")
    IN  IF maj = NoVote THEN signAddVote(cs, "commit", Nil)
        ELSE IF ~POLFrom(cs.Votes, r) THEN Panic(cs)
        ELSE IF maj = Nil THEN signAddVote(Unlocked(cs), "commit", Nil)
        ELSE IF cs.LockedBlock = maj
        THEN signAddVote([cs EXCEPT !.LockedRound = r], "commit", maj)
        ELSE IF cs.PrePrepareBlock = maj
        THEN IF maj \notin ValidBlocks THEN Panic(cs)
             ELSE signAddVote([cs EXCEPT !.LockedRound = r, !.LockedBlock = maj], "commit", maj)
        ELSE signAddVote([Unlocked(cs) EXCEPT
                            !.PrePrepareBlock = IF cs.PrePrepareBlockParts = maj THEN @ ELSE None,
                            !.PrePrepareBlockParts = maj], "commit", Nil)

enterCommit(cs, r) ==
    IF Past(cs, r, RoundStepCommit) THEN cs
    ELSE Stepped(CommitAndLock(cs, r), r, RoundStepCommit)

enterCommitWait(cs, r) ==
    IF r < cs.Round \/ (cs.Round = r /\ cs.TriggeredTimeoutCommit) THEN cs
    ELSE IF ~HasTwoThirdsAny(getVoteSet(cs.Votes, r, "commit")) THEN Panic(cs)
    ELSE [scheduleTimeout(cs, r, RoundStepCommitWait) EXCEPT !.TriggeredTimeoutCommit = TRUE]

(* Mutant of updateToState: the votes of the height are kept. *)
updateToStateKeepVotes(cs) ==
    [cs EXCEPT !.Height = @ + 1, !.Round = 0, !.Step = RoundStepNewHeight,
               !.PrePrepare = None, !.PrePrepareBlock = None, !.PrePrepareBlockParts = None,
               !.LockedRound = -1, !.LockedBlock = None,
               !.ValidRound = -1, !.ValidBlock = None,
               !.LastCommits = getVoteSet(cs.Votes, cs.ReplyRound, "commit"),
               !.LastReplyRound = cs.ReplyRound,
               !.ReplyRound = -1, !.TriggeredTimeoutCommit = FALSE,
               !.ticked = <<0, RoundStepNewHeight>>,
               !.ticks = {<<0, RoundStepNewHeight>>}]

(* updateToState after a block, and scheduleRound0. *)
updateToState(cs) ==
    [cs EXCEPT !.Height = @ + 1, !.Round = 0, !.Step = RoundStepNewHeight,
               !.PrePrepare = None, !.PrePrepareBlock = None, !.PrePrepareBlockParts = None,
               !.LockedRound = -1, !.LockedBlock = None,
               !.ValidRound = -1, !.ValidBlock = None,
               !.Votes = NewHeightVoteSet,
               !.LastCommits = getVoteSet(cs.Votes, cs.ReplyRound, "commit"),
               !.LastReplyRound = cs.ReplyRound,
               !.ReplyRound = -1, !.TriggeredTimeoutCommit = FALSE,
               !.ticked = <<0, RoundStepNewHeight>>,
               !.ticks = {<<0, RoundStepNewHeight>>}]

finalizeAppend(cs) ==
    LET maj == Maj23(cs, cs.ReplyRound, "commit")
    IN  IF cs.PrePrepareBlockParts # maj \/ maj \notin ValidBlocks THEN Panic(cs)
        ELSE updateToState([cs EXCEPT !.chain = Append(@, maj)])

tryFinalizeAppend(cs) ==
    LET maj == Maj23(cs, cs.ReplyRound, "commit")
    IN  IF maj \in Blocks /\ cs.PrePrepareBlock = maj THEN finalizeAppend(cs) ELSE cs

enterReply(cs, r) ==
    LET maj   == Maj23(cs, r, "commit")
        have  == maj \in {cs.LockedBlock, cs.PrePrepareBlock}
        known == [cs EXCEPT
                    !.PrePrepareBlock =
                        IF have THEN maj ELSE IF cs.PrePrepareBlockParts = maj THEN @ ELSE None,
                    !.PrePrepareBlockParts =
                        IF maj = cs.PrePrepareBlock /\ maj # cs.LockedBlock THEN @ ELSE maj]
    IN  IF RoundStepReply <= cs.Step THEN cs
        ELSE tryFinalizeAppend([known EXCEPT !.Step = RoundStepReply, !.ReplyRound = r])

-----------------------------------------------------------------------------
(* The messages and events receiveRoutine takes. *)

setPrePrepare(cs, m) ==
    IF \/ cs.PrePrepare # None
       \/ m.height # cs.Height \/ m.round # cs.Round
       \/ m.polRound >= m.round
       \/ m.by # Primary[cs.Height][cs.Round]
    THEN cs
    ELSE [cs EXCEPT !.PrePrepare = m,
                    !.PrePrepareBlockParts = IF @ = None THEN m.block ELSE @]

addPrePrepareBlockPart(cs, m) ==
    LET maj      == Maj23(cs, cs.Round, "prepare")
        complete == [cs EXCEPT !.PrePrepareBlock = m.block]
        valid    == IF maj = m.block /\ cs.ValidRound < cs.Round
                    THEN [complete EXCEPT !.ValidRound = cs.Round, !.ValidBlock = m.block]
                    ELSE complete
        prepared == enterPrepare(valid, cs.Round)
    IN  IF \/ m.height # cs.Height
           \/ m.block # cs.PrePrepareBlockParts
           \/ cs.PrePrepareBlock # None
        THEN cs
        ELSE IF cs.Step <= RoundStepPrePrepare /\ isPrePrepareComplete(valid)
        THEN IF maj # NoVote THEN enterCommit(prepared, cs.Round) ELSE prepared
        ELSE IF cs.Step = RoundStepReply THEN tryFinalizeAppend(valid)
        ELSE valid

(* Mutant of PrepareAdded: ValidRound follows a majority for a block the   *)
(* node does not have.                                                     *)
PrepareAddedUnknown(cs, r) ==
    LET maj == Maj23(cs, r, "prepare")
        now == IF maj \in Blocks /\ cs.ValidRound < r /\ r = cs.Round
               THEN [cs EXCEPT !.ValidRound = r,
                               !.ValidBlock = IF cs.PrePrepareBlock = maj THEN maj ELSE @,
                               !.PrePrepareBlock = IF @ = maj THEN @ ELSE None,
                               !.PrePrepareBlockParts = maj]
               ELSE cs
    IN  IF cs.Round < r THEN enterNewRound(now, r)
        ELSE IF cs.Round = r /\ RoundStepPrepare <= cs.Step THEN enterCommit(now, r)
        ELSE now

(* addVote, once a prepare of round r has been added. *)
PrepareAdded(cs, r) ==
    LET maj  == Maj23(cs, r, "prepare")
        any  == HasTwoThirdsAny(getVoteSet(cs.Votes, r, "prepare"))
        free == IF /\ maj # NoVote
                   /\ cs.LockedBlock \notin {None, maj}
                   /\ cs.LockedRound < r /\ r <= cs.Round
                THEN Unlocked(cs) ELSE cs
        have == cs.PrePrepareBlock = maj
        now  == IF maj \in Blocks /\ cs.ValidRound < r /\ r = cs.Round
                THEN [free EXCEPT !.ValidRound = IF have THEN r ELSE @,
                                  !.ValidBlock = IF have THEN maj ELSE @,
                                  !.PrePrepareBlock = IF have THEN @ ELSE None,
                                  !.PrePrepareBlockParts = maj]
                ELSE free
    IN  IF cs.Round < r THEN IF any THEN enterNewRound(now, r) ELSE now
        ELSE IF cs.Round = r /\ RoundStepPrepare <= cs.Step
        THEN IF maj # NoVote /\ (isPrePrepareComplete(now) \/ maj = Nil)
             THEN enterCommit(now, r)
             ELSE IF any THEN enterPrepareWait(now, r) ELSE now
        ELSE IF /\ now.PrePrepare # None
                /\ now.PrePrepare.polRound = r
                /\ isPrePrepareComplete(now)
        THEN enterPrepare(now, now.Round)
        ELSE now

(* Mutant of CommitAdded: commit_wait is entered on any commit. *)
CommitAddedAny(cs, r) ==
    LET maj == Maj23(cs, r, "commit")
    IN  IF maj \in Blocks THEN enterReply(enterCommit(enterNewRound(cs, r), r), r)
        ELSE IF cs.Round <= r THEN enterCommitWait(enterNewRound(cs, r), r)
        ELSE cs

(* addVote, once a commit of round r has been added. *)
CommitAdded(cs, r) ==
    LET commits   == getVoteSet(cs.Votes, r, "commit")
        committed == enterCommit(enterNewRound(cs, r), r)
        replied   == enterReply(committed, r)
    IN  IF commits.maj23 = Nil THEN enterCommitWait(committed, r)
        ELSE IF commits.maj23 # NoVote
        THEN IF SkipTimeoutReply /\ HasAll(commits) THEN enterNewRound(replied, 0) ELSE replied
        ELSE IF cs.Round <= r /\ HasTwoThirdsAny(commits)
        THEN enterCommitWait(enterNewRound(cs, r), r)
        ELSE cs

(* A commit of the last height is kept while the next has not begun. *)
addLastCommit(cs, m) ==
    LET late == [cs EXCEPT !.LastCommits = AddVote(@, m.by, m.val)]
    IN  IF cs.Step # RoundStepNewHeight \/ m.round # cs.LastReplyRound THEN cs
        ELSE IF /\ Added(cs.LastCommits, m.by, m.val)
                /\ SkipTimeoutReply /\ HasAll(late.LastCommits)
        THEN enterNewRound(late, 0)
        ELSE late

addVote(cs, p, m) ==
    LET counted == [cs EXCEPT !.Votes = AddHeightVote(@, p, m.round, m.type, m.by, m.val)]
    IN  IF m.height + 1 = cs.Height /\ m.type = "commit" THEN addLastCommit(cs, m)
        ELSE IF m.height # cs.Height THEN cs
        ELSE IF ~AddsVote(cs.Votes, p, m.round, m.type, m.by, m.val) THEN counted
        ELSE IF m.type = "prepare" THEN PrepareAdded(counted, m.round)
        ELSE CommitAdded(counted, m.round)

handleMsg(cs, p, m) ==
    CASE m.kind = "pre_prepare" -> setPrePrepare(cs, m)
      [] m.kind = "part"        -> addPrePrepareBlockPart(cs, m)
      [] m.kind = "vote"        -> addVote(cs, p, m)

Stale(cs, r, s) == r < cs.Round \/ (r = cs.Round /\ s < cs.Step)

handleTimeout(cs, r, s) ==
    IF Stale(cs, r, s) THEN cs
    ELSE CASE s = RoundStepNewHeight   -> enterNewRound(cs, 0)
           [] s = RoundStepNewRound    -> enterPrePrepare(cs, 0)
           [] s = RoundStepPrePrepare  -> enterPrepare(cs, r)
           [] s = RoundStepPrepareWait -> enterCommit(cs, r)
           [] s = RoundStepCommitWait  -> enterNewRound(enterCommit(cs, r), r + 1)

handleTxsAvailable(cs) ==
    IF cs.Round # 0 THEN cs
    ELSE IF cs.Step = RoundStepNewHeight
    THEN IF cs.Height \in ProofHeights THEN cs ELSE scheduleTimeout(cs, 0, RoundStepNewRound)
    ELSE IF cs.Step = RoundStepNewRound THEN enterPrePrepare(cs, 0)
    ELSE cs

-----------------------------------------------------------------------------
(* The nodes and the messages between them. *)

VARIABLES node,     \* the state of each correct validator
          sent      \* the messages correct validators have signed

vars == <<node, sent>>

Init == /\ node = [v \in Correct |-> NewState(v)]
        /\ sent = {}

(* What gossip can carry: messages their signer has handled itself (a vote *)
(* or a part is offered to peers from the RoundState it was added to), and *)
(* whatever the faulty validators may sign.                                *)
Gossiped == {m \in sent : m \notin Range(node[m.by].internalMsgQueue)}

Running(v) == ~node[v].panicked

Active(v) == Running(v) /\ node[v].Height <= MaxHeight

(* Round and Step only grow within a height, so that a timeout             *)
(* handleTimeout would ignore now can be forgotten.                        *)
Becomes(v, cs) ==
    /\ node' = [node EXCEPT ![v] = [cs EXCEPT !.ticks = {t \in @ : ~Stale(cs, t[1], t[2])}]]
    /\ sent' = sent \cup Range(cs.internalMsgQueue)

(* Bound: messages of the height after MaxHeight are not handled. *)
ReceiveInternal(v) ==
    LET q == node[v].internalMsgQueue
    IN  /\ Running(v)
        /\ q # <<>>
        /\ Head(q).height <= MaxHeight
        /\ Becomes(v, handleMsg([node[v] EXCEPT !.internalMsgQueue = Tail(q)], Self, Head(q)))

ReceiveFromPeer(v, p, m) ==
    /\ Active(v)
    /\ m.by # v
    /\ Becomes(v, handleMsg(node[v], p, m))

(* Bound: a round after MaxRound is not entered. *)
ReceiveTimeout(v, r, s) ==
    /\ Active(v)
    /\ <<r, s>> \in node[v].ticks
    /\ s = RoundStepCommitWait => r < MaxRound
    /\ Becomes(v, handleTimeout([node[v] EXCEPT !.ticks = @ \ {<<r, s>>}], r, s))

(* The mempool notifies only when the node waits for transactions. *)
ReceiveTxsAvailable(v) ==
    /\ Active(v)
    /\ WaitForTxs
    /\ Becomes(v, handleTxsAvailable(node[v]))

(* VoteSetMaj23Message: the reactor records the claim of a peer. *)
ReceiveMaj23(v, p, r, t, b) ==
    /\ Active(v)
    /\ Becomes(v, [node[v] EXCEPT !.Votes = SetHeightPeerMaj23(@, p, r, t, b)])

Next ==
    \E v \in Correct :
       \/ ReceiveInternal(v)
       \/ \E p \in Peers \ {Self}, m \in Gossiped \cup Forged : ReceiveFromPeer(v, p, m)
       \/ \E r \in Rounds, s \in TimeoutSteps : ReceiveTimeout(v, r, s)
       \/ ReceiveTxsAvailable(v)
       \/ \E p \in Peers \ {Self}, c \in Claims : ReceiveMaj23(v, p, c[1], c[2], c[3])

Spec == Init /\ [][Next]_vars

-----------------------------------------------------------------------------

TypeOK == /\ node \in [Correct -> RoundState]
          /\ sent \subseteq Message

(* No panic of the state machine is reachable: a maj23 of prepares in the  *)
(* round of the commit step is what POLInfo returns, commit_wait is only   *)
(* entered with +2/3 commits, the block finalizeAppend appends is the one  *)
(* whose parts it holds, and SetRound never goes back.                     *)
NoPanic == \A v \in Correct : ~node[v].panicked

SameSlot(m, n) ==
    /\ m.kind = n.kind /\ m.kind # "part"
    /\ m.by = n.by /\ m.height = n.height /\ m.round = n.round
    /\ m.kind = "vote" => m.type = n.type

(* A validator signs one proposal per round and one vote per round and     *)
(* type, whichever timeouts, late messages and majorities of other rounds  *)
(* drive its handlers.                                                     *)
SignsOnce == \A m, n \in sent : SameSlot(m, n) => m = n

(* The signed messages of v for the height it is at. *)
Current(v) == {m \in sent : m.by = v /\ m.height = node[v].Height}

IsPrepare(m) == m.kind = "vote" /\ m.type = "prepare"

CommitsBlock(m) == m.kind = "vote" /\ m.type = "commit" /\ m.val # Nil

(* A majority up to round q, later than the commit m, for another value. *)
Overtaken(cs, m, q) ==
    \E s \in Rounds : /\ m.round < s /\ s <= q
                      /\ Maj23(cs, s, "prepare") \notin {NoVote, m.val}

(* The lock rule seen by one node: after a commit for a block it prepares  *)
(* another value only if its own vote sets show a later majority for       *)
(* something else.                                                         *)
PreparesRespectLock ==
    \A v \in Correct : \A m, n \in Current(v) :
       CommitsBlock(m) /\ IsPrepare(n) /\ n.val # m.val /\ m.round < n.round
          => Overtaken(node[v], m, n.round)

(* What a node commits to, is locked on, keeps as valid and proposes again *)
(* was prepared by a majority in the round it says, a lock always comes    *)
(* with a valid block to propose, and the block a node holds is the one of *)
(* its part set.                                                           *)
LocksArePolkas ==
    \A v \in Correct :
       LET cs == node[v]
       IN  /\ cs.LockedBlock # None =>
                 /\ Maj23(cs, cs.LockedRound, "prepare") = cs.LockedBlock
                 /\ cs.ValidBlock # None
           /\ cs.ValidBlock # None => Maj23(cs, cs.ValidRound, "prepare") = cs.ValidBlock
           /\ cs.PrePrepareBlock # None => cs.PrePrepareBlockParts = cs.PrePrepareBlock
           /\ \A m \in Current(v) :
                 /\ CommitsBlock(m) => Maj23(cs, m.round, "prepare") = m.val
                 /\ m.kind = "pre_prepare" /\ m.polRound >= 0
                       => Maj23(cs, m.polRound, "prepare") = m.block

(* A node keeps vote sets of the rounds up to the one after its own, and   *)
(* of at most two more for each peer, whatever rounds their votes name.    *)
TrackedAreBounded ==
    \A v \in Correct :
       LET hvs == node[v].Votes
       IN  /\ \A r \in hvs.rounds : r <= node[v].Round + 1
                                     \/ \E p \in Peers : r \in Range(hvs.peerCatchupRounds[p])
           /\ \A p \in Peers : Len(hvs.peerCatchupRounds[p]) <= 2

(* No two nodes append different blocks at a height. *)
ChainsAgree ==
    \A v, w \in Correct :
       \A h \in DOMAIN node[v].chain \cap DOMAIN node[w].chain :
          node[v].chain[h] = node[w].chain[h]

(* Within a height a node never goes back to an earlier round, nor to an   *)
(* earlier step of its round.                                              *)
MovesForward ==
    [][\A v \in Correct :
         node'[v].Height = node[v].Height =>
            \/ node[v].Round < node'[v].Round
            \/ node[v].Round = node'[v].Round /\ node[v].Step <= node'[v].Step]_vars

(* Within a height a validator that was counted in a vote set stays        *)
(* counted: the votes that came ahead of their round are still there when  *)
(* the node enters it, because SetRound skips the rounds that exist.       *)
VotesAreKept ==
    [][\A v \in Correct :
         node'[v].Height = node[v].Height =>
            \A r \in Rounds, t \in VoteTypes :
               Voters(node[v].Votes.sets[r][t]) \subseteq Voters(node'[v].Votes.sets[r][t])]_vars

VotesSigned == {m \in sent : m.kind = "vote"}

Voting == INSTANCE Voting WITH votes <- VotesSigned

(* The votes the correct validators sign obey the rules of Voting: a       *)
(* handler signs in one round only, prepares against the lock only after a *)
(* later polka, and commits to a block only on a polka of that round.      *)
ImplementsVoting == Voting!Init /\ [][UNCHANGED VotesSigned \/ Voting!Next]_vars
-----------------------------------------------------------------------------
(* The inductive strengthening of these properties.  Each part is about one*)
(* node and the set S of the messages signed so far, to which the node adds*)
(* those its queue holds.                                                  *)

Mine(cs, S) == {m \in S \cup Range(cs.internalMsgQueue) : m.by = cs.addr}

Own(cs, S) == {m \in Mine(cs, S) : m.height = cs.Height}

SignedVote(h, u, r, t, x) ==
    [kind |-> "vote", height |-> h, round |-> r, type |-> t, val |-> x, by |-> u]

(* The correct members of some quorum have signed. *)
QuorumIn(S, h, r, t, x) ==
    \E Q \in Quorums : \A u \in Q \cap Correct : SignedVote(h, u, r, t, x) \in S

SentOK(S) ==
    /\ S \subseteq Message
    /\ \A m \in S : m.by \in Correct /\ (m.kind = "vote" => m.val \in ValidBlocks \cup {Nil})

(* Every vote set is good, and what correct validators have in it was      *)
(* signed by them.                                                         *)
VotesOK(cs, S) ==
    /\ \A r \in Rounds, t \in VoteTypes :
          /\ Good(cs.Votes.sets[r][t])
          /\ \A b \in BlockIDs : \A u \in cs.Votes.sets[r][t].votesByBlock[b] \cap Correct :
                SignedVote(cs.Height, u, r, t, b) \in S
    /\ Good(cs.LastCommits)
    /\ cs.Votes.round \in {cs.Round, cs.Round + 1}
    /\ \A r \in cs.Votes.rounds :
          r <= cs.Round + 1 \/ \E p \in Peers : r \in Range(cs.Votes.peerCatchupRounds[p])
    /\ \A p \in Peers : Len(cs.Votes.peerCatchupRounds[p]) <= 2

LockOK(cs) ==
    /\ cs.LockedBlock # None =>
          /\ cs.LockedBlock \in ValidBlocks /\ cs.LockedRound \in 0..cs.Round
          /\ Maj23(cs, cs.LockedRound, "prepare") = cs.LockedBlock
          /\ cs.ValidBlock # None
    /\ cs.ValidBlock # None =>
          cs.ValidRound \in 0..cs.Round /\ Maj23(cs, cs.ValidRound, "prepare") = cs.ValidBlock
    /\ cs.ValidRound >= 0 => cs.ValidBlock # None
    /\ cs.PrePrepareBlock # None => cs.PrePrepareBlockParts = cs.PrePrepareBlock
    /\ cs.Step = RoundStepReply => cs.ReplyRound \in Rounds
    /\ \A t \in cs.ticks : t[1] <= cs.Round

(* A block that the node has with its majority is kept as valid. *)
Held(cs) ==
    /\ cs.Step < RoundStepReply
    /\ cs.PrePrepareBlock # None /\ cs.PrePrepareBlock = Maj23(cs, cs.Round, "prepare")
    => cs.ValidBlock # None

(* The step in which a message is signed, at the latest. *)
StepOf(m) ==
    IF m.kind = "pre_prepare" THEN RoundStepPrePrepare
    ELSE IF m.type = "prepare" THEN RoundStepPrepare ELSE RoundStepCommit

(* A node signs nothing it is not past, one thing in each place, and votes *)
(* for valid blocks.                                                       *)
SignedOK(cs, S) ==
    /\ \A m \in Range(cs.internalMsgQueue) : m \in Message /\ m.by = cs.addr
    /\ \A m \in Mine(cs, S) :
          /\ m.height <= cs.Height
          /\ m.kind = "vote" => m.val \in ValidBlocks \cup {Nil}
    /\ \A m \in Own(cs, S) : m.kind # "part" =>
          m.round < cs.Round \/ (m.round = cs.Round /\ StepOf(m) <= cs.Step)
    /\ \A m, n \in Mine(cs, S) : SameSlot(m, n) => m = n

(* The lock rule: a node is locked on the block of its last commit, unless *)
(* a later majority has overtaken it.                                      *)
PolkasOK(cs, S) ==
    /\ \A m \in Own(cs, S) : CommitsBlock(m) =>
          /\ Maj23(cs, m.round, "prepare") = m.val
          /\ \/ cs.LockedBlock = m.val /\ m.round <= cs.LockedRound
             \/ Overtaken(cs, m, cs.Round)
          /\ \A n \in Own(cs, S) :
                IsPrepare(n) /\ n.val # m.val /\ m.round < n.round => Overtaken(cs, m, n.round)
    /\ \A m \in Own(cs, S) : m.kind = "pre_prepare" /\ m.polRound >= 0 =>
          Maj23(cs, m.polRound, "prepare") = m.block

(* A block was appended on the commits of a quorum. *)
ChainOK(cs, S) ==
    /\ Len(cs.chain) = cs.Height - 1
    /\ \A h \in DOMAIN cs.chain : \E r \in Rounds : QuorumIn(S, h, r, "commit", cs.chain[h])

Sound(cs, S) ==
    /\ cs \in RoundState /\ ~cs.panicked
    /\ VotesOK(cs, S) /\ LockOK(cs) /\ SignedOK(cs, S) /\ PolkasOK(cs, S) /\ ChainOK(cs, S)

IInv ==
    /\ node \in [Correct -> RoundState]
    /\ SentOK(sent)
    /\ \A v \in Correct :
          /\ node[v].addr = v /\ Range(node[v].internalMsgQueue) \subseteq sent
          /\ Sound(node[v], sent) /\ Held(node[v])
=============================================================================
