------------------------------- MODULE Voting -------------------------------
(***************************************************************************)
(* What the consensus promises, stated on votes alone.                     *)
(*                                                                         *)
(* The only state is the set of prepare and commit votes that the correct  *)
(* validators have signed.  A faulty validator may have signed anything,   *)
(* so its votes are never recorded: a quorum counts as complete as soon as *)
(* its correct members have voted.  Each action is the rule a correct      *)
(* validator obeys when it signs in consensus/consensus_state.go; module   *)
(* Consensus, which models the code handler by handler, implements this    *)
(* specification.                                                          *)
(***************************************************************************)
EXTENDS VotingPower

CONSTANTS Correct,      \* the validators that run the code
          Heights,      \* the heights that are voted on
          MaxRound      \* the last round of a height

Rounds == 0..MaxRound

ASSUME VotingAssumption ==
    /\ Correct \subseteq Validators
    /\ MaxRound \in Nat
    /\ \A Q1, Q2 \in Quorums : Q1 \cap Q2 \cap Correct # {}

VARIABLE votes          \* the votes signed by correct validators

Vote == [kind : {"vote"}, height : Heights, type : {"prepare", "commit"}, round : Rounds,
         val : BlockIDs, by : Correct]

PrepareVote(h, v, r, x) ==
    [kind |-> "vote", height |-> h, type |-> "prepare", round |-> r, val |-> x, by |-> v]

CommitVote(h, v, r, x) ==
    [kind |-> "vote", height |-> h, type |-> "commit", round |-> r, val |-> x, by |-> v]

(***************************************************************************)
(* A proof of lock: +2/3 of the power has signed prepare(h, r, x).         *)
(***************************************************************************)
Polka(h, r, x) ==
    \E Q \in Quorums : \A v \in Q \cap Correct : PrepareVote(h, v, r, x) \in votes

Init == votes = {}

(***************************************************************************)
(* v has signed nothing at h in round r or later, apart from votes of the  *)
(* types in T in round r itself.                                           *)
(***************************************************************************)
Reached(h, v, r, T) ==
    \A m \in votes :
       m.by = v /\ m.height = h => m.round < r \/ (m.round = r /\ m.type \in T)

(***************************************************************************)
(* A polka of h after round r and up to round q for another value than x.  *)
(***************************************************************************)
PolkaAgainst(h, r, q, x) ==
    \E s \in Rounds, y \in BlockIDs : r < s /\ s <= q /\ y # x /\ Polka(h, s, y)

(***************************************************************************)
(* The lock rule: v may prepare x in round r although it has committed to  *)
(* another block before, only if a later polka has released that lock.     *)
(***************************************************************************)
Released(h, v, r, x) ==
    \A m \in votes :
       (/\ m.by = v /\ m.height = h /\ m.type = "commit"
        /\ m.val \in Blocks \ {x} /\ m.round < r)
          => PolkaAgainst(h, m.round, r, m.val)

(* Mutant of Prepare: the lock is ignored. *)
PrepareUnlocked(h, v, r, x) ==
    /\ Reached(h, v, r, {})
    /\ votes' = votes \cup {PrepareVote(h, v, r, x)}

(* doPrepare: sign prepare(h, r, x). *)
Prepare(h, v, r, x) ==
    /\ Reached(h, v, r, {})
    /\ Released(h, v, r, x)
    /\ votes' = votes \cup {PrepareVote(h, v, r, x)}

(* enterCommit: sign commit(h, r, x), with a polka for x unless x is nil. *)
Commit(h, v, r, x) ==
    /\ Reached(h, v, r, {"prepare"})
    /\ x \in Blocks => Polka(h, r, x)
    /\ votes' = votes \cup {CommitVote(h, v, r, x)}

(* enterPrepare and enterCommit run by one handler. *)
PrepareAndCommit(h, v, r, x, y) ==
    /\ Reached(h, v, r, {})
    /\ Released(h, v, r, x)
    /\ y \in Blocks => Polka(h, r, y)
    /\ votes' = votes \cup {PrepareVote(h, v, r, x), CommitVote(h, v, r, y)}

Next ==
    \E h \in Heights, v \in Correct, r \in Rounds, x \in BlockIDs :
       \/ Prepare(h, v, r, x)
       \/ Commit(h, v, r, x)
       \/ \E y \in BlockIDs : PrepareAndCommit(h, v, r, x, y)

Spec == Init /\ [][Next]_votes

-----------------------------------------------------------------------------

(* Votes are well formed. *)
TypeOK == votes \subseteq Vote

Decided(h, x) ==
    \E r \in Rounds, Q \in Quorums :
       \A v \in Q \cap Correct : CommitVote(h, v, r, x) \in votes

(* No two blocks are both committed at a height (enterReply acts on a      *)
(* maj23 of commit votes, whatever round it is of).                        *)
Agreement ==
    \A h \in Heights : \A x, y \in Blocks : Decided(h, x) /\ Decided(h, y) => x = y

(* The inductive strengthening of Agreement. *)

(* A correct validator signs at most one vote of a type in a round. *)
VotesOnce ==
    \A m, n \in votes :
       m.by = n.by /\ m.height = n.height /\ m.type = n.type /\ m.round = n.round => m = n

(* A commit for a block rests on a polka of the same round. *)
CommitsHavePolka ==
    \A m \in votes :
       m.type = "commit" /\ m.val \in Blocks => Polka(m.height, m.round, m.val)

(* Whoever prepares against a block it committed to saw a later polka. *)
PreparesReleased ==
    \A m, n \in votes :
       (/\ m.by = n.by /\ m.height = n.height /\ m.type = "commit" /\ n.type = "prepare"
        /\ m.round < n.round /\ m.val \in Blocks /\ n.val # m.val)
          => PolkaAgainst(m.height, m.round, n.round, m.val)

(* v has committed x in round r, or may still do so. *)
MayCommit(h, v, r, x) ==
    \/ CommitVote(h, v, r, x) \in votes
    \/ Reached(h, v, r, {"prepare"})

(* Once a polka for y exists in round s, no other block can be decided in  *)
(* an earlier round.                                                       *)
PolkaExcludes ==
    \A h \in Heights : \A r, s \in Rounds, x \in Blocks, y \in BlockIDs :
       r < s /\ x # y /\ Polka(h, s, y)
          => \A Q \in Quorums : \E v \in Q \cap Correct : ~MayCommit(h, v, r, x)

IInv == TypeOK /\ VotesOnce /\ CommitsHavePolka /\ PreparesReleased /\ PolkaExcludes
=============================================================================
