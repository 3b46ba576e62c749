----------------------------- MODULE PeerState -----------------------------
(***************************************************************************)
(* consensus/reactor.go: PeerState, what a node believes of a peer.  The   *)
(* PeerRoundState is a record and the methods are operators on it; each    *)
(* method runs under the mutex of the PeerState.                           *)
(*                                                                         *)
(* A bit array of votes is the set of the validators whose bit is set, in  *)
(* a sequence: <<>> is the nil pointer.  CatchupCommit and Commits may be  *)
(* the same object, which the field aliased records.                       *)
(***************************************************************************)
EXTENDS Integers, Sequences

CONSTANT NoHeader      \* the zero PartSetHeader

NilBits == <<>>
NewBits == <<{}>>

(* The steps of round_state.go in their order. *)
NewHeightStep == 1
PrePrepareStep == 3
PrepareWaitStep == 5
CommitWaitStep == 7
ReplyStep == 8

(* NewPeerState. *)
NewPeerState ==
    [height |-> 0, round |-> -1, step |-> 0, proposal |-> FALSE,
     polRound |-> -1, pol |-> NilBits, prepares |-> NilBits, commits |-> NilBits,
     lastRound |-> -1, last |-> NilBits,
     catchRound |-> -1, catch |-> NilBits, aliased |-> FALSE,
     header |-> NoHeader, parts |-> NilBits]

(* getVoteBitArray: the field that holds the votes of a height, round and  *)
(* type, none if the peer has no use for them.                             *)
getVoteBitArray(prs, h, r, t) ==
    IF prs.height = h
    THEN CASE prs.round = r      -> IF t = "prepare" THEN "prepares" ELSE "commits"
           [] prs.round # r /\ prs.catchRound = r -> IF t = "prepare" THEN "none" ELSE "catch"
           [] prs.round # r /\ prs.catchRound # r /\ prs.polRound = r ->
                                    IF t = "prepare" THEN "pol" ELSE "none"
           [] OTHER -> "none"
    ELSE IF prs.height = h + 1 /\ prs.lastRound = r /\ t = "commit" THEN "last" ELSE "none"

(* The bits of a field, written through the pointer. *)
WriteBits(prs, field, bits) ==
    IF prs.aliased /\ field \in {"commits", "catch"}
    THEN [prs EXCEPT !.commits = <<bits>>, !.catch = <<bits>>]
    ELSE [prs EXCEPT ![field] = <<bits>>]

HasBits(prs, field) == field # "none" /\ prs[field] # NilBits

(* setHasVote, for SetHasVote and ApplyHasVoteMessage. *)
setHasVote(prs, h, r, t, v) ==
    LET field == getVoteBitArray(prs, h, r, t) IN
    IF HasBits(prs, field) THEN WriteBits(prs, field, prs[field][1] \cup {v}) ELSE prs

ensureVoteBitArrays(prs, h) ==
    LET New(f) == IF prs[f] = NilBits THEN NewBits ELSE prs[f] IN
    CASE prs.height = h     -> [prs EXCEPT !.prepares = New("prepares"), !.pol = New("pol"),
                                           !.commits = New("commits"), !.catch = New("catch")]
      [] prs.height = h + 1 -> [prs EXCEPT !.last = New("last")]
      [] OTHER              -> prs

(* ensureCatchupCommitRound: the peer's own round shares its bits. *)
ensureCatchupCommitRound(prs, h, r) ==
    IF prs.height # h \/ prs.catchRound = r THEN prs
    ELSE IF r = prs.round
    THEN [prs EXCEPT !.catchRound = r, !.catch = prs.commits,
                     !.aliased = prs.commits # NilBits]
    ELSE [prs EXCEPT !.catchRound = r, !.catch = NewBits, !.aliased = FALSE]

(* PickVoteToSend: the peer state as it leaves it, and the votes it may    *)
(* choose from.  votes is what a VoteSetReader tells: height, round, type, *)
(* the bits, and whether it is a reply.                                    *)
Ensured(prs, votes) ==
    ensureVoteBitArrays(IF votes.isReply
                        THEN ensureCatchupCommitRound(prs, votes.height, votes.round)
                        ELSE prs, votes.height)

PickVoteToSend(prs, votes) ==
    LET field == getVoteBitArray(prs, votes.height, votes.round, votes.type) IN
    IF HasBits(prs, field) THEN votes.bits \ prs[field][1] ELSE {}

CompareHRS(h1, r1, s1, h2, r2, s2) ==
    \/ h1 > h2
    \/ h1 = h2 /\ r1 > r2
    \/ h1 = h2 /\ r1 = r2 /\ s1 > s2

(* Mutant of ApplyNewRoundStepMessage: the bits of the round before stay. *)
ApplyKeepsBits(prs, m) ==
    IF ~CompareHRS(m.height, m.round, m.step, prs.height, prs.round, prs.step) THEN prs
    ELSE [prs EXCEPT !.height = m.height, !.round = m.round, !.step = m.step]

(* ApplyNewRoundStepMessage.  The commits are set to nil before they are   *)
(* shifted to the last commit.                                             *)
ApplyNewRoundStepMessage(prs, m) ==
    LET moved == prs.height # m.height \/ prs.round # m.round
        up    == prs.height # m.height
        caught == ~up /\ moved /\ m.round = prs.catchRound
        reset == IF moved
                 THEN [prs EXCEPT !.proposal = FALSE, !.header = NoHeader, !.parts = NilBits,
                                  !.polRound = -1, !.pol = NilBits,
                                  !.prepares = NilBits, !.commits = NilBits,
                                  !.aliased = FALSE]
                 ELSE prs
        mine  == IF caught
                 THEN [reset EXCEPT !.commits = prs.catch, !.aliased = prs.catch # NilBits]
                 ELSE reset
        shift == prs.height + 1 = m.height /\ prs.round = m.lastRound
    IN  IF ~CompareHRS(m.height, m.round, m.step, prs.height, prs.round, prs.step) THEN prs
        ELSE [mine EXCEPT
                !.height = m.height, !.round = m.round, !.step = m.step,
                !.lastRound = IF up THEN m.lastRound ELSE @,
                !.last = IF up THEN (IF shift THEN mine.commits ELSE NilBits) ELSE @,
                !.catchRound = IF up THEN -1 ELSE @,
                !.catch = IF up THEN NilBits ELSE @]

(* SetHasProposal: a valid block the peer told us of is kept. *)
SetHasProposal(prs, m) ==
    IF prs.height # m.height \/ prs.round # m.round \/ prs.proposal THEN prs
    ELSE IF prs.parts # NilBits THEN [prs EXCEPT !.proposal = TRUE]
    ELSE [prs EXCEPT !.proposal = TRUE, !.header = m.header, !.parts = NewBits,
                     !.polRound = m.polRound, !.pol = NilBits]

ApplyNewValidBlockMessage(prs, m) ==
    IF prs.height # m.height \/ (prs.round # m.round /\ ~m.isCommit) THEN prs
    ELSE [prs EXCEPT !.header = m.header, !.parts = <<m.parts>>]

ApplyProposalPOLMessage(prs, m) ==
    IF prs.height # m.height \/ prs.polRound # m.round THEN prs
    ELSE [prs EXCEPT !.pol = <<m.bits>>]

(* Mutant of ApplyVoteSetBitsMessage: bits are only added. *)
ApplyVoteSetBitsAdds(prs, m, ours) ==
    LET field == getVoteBitArray(prs, m.height, m.round, m.type) IN
    IF HasBits(prs, field) THEN WriteBits(prs, field, prs[field][1] \cup m.bits) ELSE prs

(* ApplyVoteSetBitsMessage: of the votes we have for the block, the peer   *)
(* has those it says; without ours (<<>>) its word is taken for all.       *)
ApplyVoteSetBitsMessage(prs, m, ours) ==
    LET field == getVoteBitArray(prs, m.height, m.round, m.type) IN
    IF ~HasBits(prs, field) THEN prs
    ELSE WriteBits(prs, field, IF ours = NilBits THEN m.bits
                               ELSE (prs[field][1] \ ours[1]) \cup m.bits)
=============================================================================
