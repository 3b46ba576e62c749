----------------------------- MODULE VotingPower -----------------------------
(***************************************************************************)
(* Who votes and for what, the voting power of sets of validators, and the *)
(* thresholds the code compares it with (types/validator_set.go,           *)
(* types/vote.go).                                                         *)
(*                                                                         *)
(* The code uses float64 with a total of 10.0.  Here power is an integer   *)
(* number of units, Unit of which make a third of the float 1.0, so the    *)
(* total is 30 * Unit and both thresholds, 2/3 of the total and 2/3 of the *)
(* total plus 1.0, are exact.  Float rounding is left out.                 *)
(***************************************************************************)
EXTENDS Integers

CONSTANTS Validators,   \* the validator set
          BlockIDs,     \* what a vote may be for, Nil included
          Nil,          \* the zero BlockID
          Unit,         \* power units in a third of 1.0
          PowerOf       \* the summed voting power of each set of validators

ASSUME NilAssumption == Nil \in BlockIDs

Blocks == BlockIDs \ {Nil}

TotalVotingPower == 30 * Unit

(* vote.go:499  quorum := TotalVotingPower * 2 / 3 + 1 *)
QuorumPower == 23 * Unit

(* vote.go:619 and VerifyReply: power needed is more than 2 / 3 *)
TwoThirds == 20 * Unit

(***************************************************************************)
(* Power is a sum over the members of a set, and NewValidatorSet divides   *)
(* the total among the validators.                                         *)
(***************************************************************************)
ASSUME PowerAssumption ==
    /\ Unit \in Nat \ {0}
    /\ PowerOf \in [SUBSET Validators -> Nat]
    /\ \A S, T \in SUBSET Validators :
          S \cap T = {} => PowerOf[S \cup T] = PowerOf[S] + PowerOf[T]
    /\ PowerOf[Validators] <= TotalVotingPower

Quorums == {Q \in SUBSET Validators : PowerOf[Q] >= QuorumPower}
=============================================================================
