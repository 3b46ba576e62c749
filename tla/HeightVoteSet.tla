---------------------------- MODULE HeightVoteSet ----------------------------
(***************************************************************************)
(* consensus/height_vote_set.go: the prepare and commit votes of every     *)
(* round of one height.  The map roundVoteSets is the set rounds of its    *)
(* keys and, for the rounds that votes may carry, its values sets.         *)
(***************************************************************************)
EXTENDS VoteSet, Sequences, Functions

CONSTANTS MaxRound      \* bound: the last round votes are cast in

ASSUME RoundAssumption == MaxRound \in Nat

Rounds == 0..MaxRound

VoteTypes == {"prepare", "commit"}

HeightVoteSets ==
    [round  : 0..(MaxRound + 1),                 \* max tracked round
     rounds : SUBSET (-1..(MaxRound + 1)),
     sets   : [Rounds -> [VoteTypes -> VoteSets]],
     peerCatchupRounds : [Peers -> Seq(Rounds)]]

(* Reset. *)
NewHeightVoteSet ==
    [round  |-> 0,
     rounds |-> {0},
     sets   |-> [r \in Rounds |-> [t \in VoteTypes |-> NewVoteSet]],
     peerCatchupRounds |-> [p \in Peers |-> <<>>]]

(* SetRound creates the rounds from round - 1 on, so that -1 is among them *)
(* after the first call.                                                   *)
SetRoundPanics(hvs, r) == hvs.round # 0 /\ r < hvs.round - 1

(* Mutant of SetRound: rounds that exist are created anew. *)
SetRoundAnew(hvs, r) ==
    [hvs EXCEPT !.round = r, !.rounds = @ \cup ((hvs.round - 1)..r),
                !.sets = [q \in Rounds |-> IF q \in hvs.round..r
                                           THEN [t \in VoteTypes |-> NewVoteSet] ELSE @[q]]]

SetRound(hvs, r) ==
    [hvs EXCEPT !.round = r, !.rounds = @ \cup ((hvs.round - 1)..r)]

getVoteSet(hvs, r, t) == hvs.sets[r][t]

(* A round that is not tracked is opened for a peer that has opened fewer  *)
(* than two; the node's own votes come from the empty peer ID, a member of *)
(* Peers like the others.                                                  *)
Opens(hvs, p, r) ==
    r \notin hvs.rounds /\ Len(hvs.peerCatchupRounds[p]) < 2

AddsVote(hvs, p, r, t, v, b) ==
    /\ r \in hvs.rounds \/ Opens(hvs, p, r)
    /\ Added(hvs.sets[r][t], v, b)

AddHeightVote(hvs, p, r, t, v, b) ==
    IF r \notin hvs.rounds /\ ~Opens(hvs, p, r) THEN hvs
    ELSE [hvs EXCEPT
            !.sets[r][t] = AddVote(@, v, b),
            !.rounds = @ \cup {r},
            !.peerCatchupRounds[p] = IF r \in hvs.rounds THEN @ ELSE Append(@, r)]

(* POLInfo looks from hvs.round down for prepares with a majority: the     *)
(* round it finds is r or a later one.                                     *)
POLFrom(hvs, r) ==
    \E q \in Rounds : /\ r <= q /\ q <= hvs.round
                       /\ HasTwoThirdsMajority(hvs.sets[q]["prepare"])

SetHeightPeerMaj23(hvs, p, r, t, b) ==
    IF r \notin hvs.rounds THEN hvs
    ELSE [hvs EXCEPT !.sets[r][t] = SetPeerMaj23(@, p, b)]
=============================================================================
