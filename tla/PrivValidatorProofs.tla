------------------------- MODULE PrivValidatorProofs -------------------------
(***************************************************************************)
(* No double signing, for every set of heights, rounds, values and         *)
(* timestamps and any number of crashes.  The argument is FileCovers: the  *)
(* state file is written before the signature is returned, so after a      *)
(* restart CheckHRS compares with something that is not behind any         *)
(* signature the node has ever released.                                   *)
(***************************************************************************)
EXTENDS PrivValidator, TLAPS

(* Before is a strict order on the fields CheckHRS compares. *)
Numbered == [height : Nat, round : Nat, step : Nat, val : Values \cup {NoValue}, time : Times \cup {0}]

(* Signatures are numbered by height, round and step. *)
LEMMA SignaturesNumbered == Signature \cup {Empty} \subseteq Numbered
  <1>1. Steps \subseteq Nat
    BY DEF Steps, PrePrepareStep, PrepareStep, CommitStep
  <1>2. Empty \in Numbered
    BY DEF Empty, Numbered
  <1>3. ASSUME NEW m \in Signature PROVE m \in Numbered
    BY <1>1, PrivValidatorAssumption DEF Signature, Numbered
  <1> QED BY <1>2, <1>3

(* CheckHRS never places a signature before or at itself, and refusing     *)
(* regressions is transitive.                                              *)
LEMMA BeforeIsStrict ==
  ASSUME NEW a \in Numbered, NEW b \in Numbered, NEW c \in Numbered
  PROVE  /\ Before(a, b) => ~SameHRS(a, b) /\ ~Before(b, a)
         /\ Before(a, b) /\ Before(b, c) => Before(a, c)
  <1>1. /\ a.height \in Nat /\ a.round \in Nat /\ a.step \in Nat
        /\ b.height \in Nat /\ b.round \in Nat /\ b.step \in Nat
        /\ c.height \in Nat /\ c.round \in Nat /\ c.step \in Nat
    BY DEF Numbered
  <1> QED BY <1>1 DEF Before, SameHRS

(* The signer's inductive invariant. *)
THEOREM SignerInvariant == Spec => []IInv
  <1>1. Init => IInv
    BY DEF Init, IInv, TypeOK, FileCovers, PhaseInv, NoDoubleSign
  <1>2. IInv /\ [Next]_vars => IInv'
    <2> SUFFICES ASSUME IInv, [Next]_vars PROVE IInv'
      OBVIOUS
    <2> USE DEF IInv
    <2>1. ASSUME NEW m \in Signature, SignNew(m) PROVE IInv'
      BY <2>1 DEF SignNew, TypeOK, FileCovers, PhaseInv, NoDoubleSign
    <2>2. ASSUME NEW m \in Signature, SignAgain(m) PROVE IInv'
      <3>1. lss # Empty
        BY <2>2, PrivValidatorAssumption DEF SignAgain, SameHRS, Empty, Signature
      <3> QED BY <2>2, <3>1 DEF SignAgain, TypeOK, FileCovers, PhaseInv, NoDoubleSign
    <2>3. CASE Save
      <3>1. lss \in Numbered /\ file \in Numbered /\ released \subseteq Numbered
        BY SignaturesNumbered DEF TypeOK
      <3>2. Before(file, lss) /\ file' = lss /\ phase' = "return" /\ pending = lss
        BY <2>3 DEF Save, PhaseInv
      <3>3. FileCovers'
        BY <2>3, <3>1, <3>2, BeforeIsStrict DEF Save, FileCovers
      <3>4. lss # Empty
        BY <3>1, <3>2, PrivValidatorAssumption DEF Before, Empty, Numbered
      <3> QED BY <2>3, <3>2, <3>3, <3>4 DEF Save, TypeOK, PhaseInv, NoDoubleSign
    <2>4. CASE Return
      <3>1. file \in Numbered /\ released \subseteq Numbered
        BY SignaturesNumbered DEF TypeOK
      <3>2. pending = file /\ file # Empty /\ released' = released \cup {file} /\ file' = file
        BY <2>4 DEF Return, PhaseInv
      <3>3. file \in Signature
        BY <3>2 DEF TypeOK
      <3>4. FileCovers'
        BY <3>2 DEF FileCovers
      <3>5. \A m \in released : SameHRS(m, file) => m = file
        BY <3>1, BeforeIsStrict DEF FileCovers
      <3>6. \A m \in released : SameHRS(file, m) => m = file
        BY <3>5 DEF SameHRS
      <3>7. NoDoubleSign'
        BY <3>2, <3>5, <3>6 DEF NoDoubleSign
      <3> QED BY <2>4, <3>2, <3>3, <3>4, <3>7 DEF Return, TypeOK, PhaseInv
    <2>5. CASE Crash
      BY <2>5 DEF Crash, TypeOK, FileCovers, PhaseInv, NoDoubleSign
    <2>6. CASE Restart
      BY <2>6 DEF Restart, TypeOK, FileCovers, PhaseInv, NoDoubleSign
    <2>7. CASE UNCHANGED vars
      BY <2>7 DEF vars, TypeOK, FileCovers, PhaseInv, NoDoubleSign
    <2> QED BY <2>1, <2>2, <2>3, <2>4, <2>5, <2>6, <2>7 DEF Next
  <1> QED BY <1>1, <1>2, PTL DEF Spec

(* A validator never signs two different things for one height, round and  *)
(* step, whatever crashes, restarts and repeated requests happen.          *)
THEOREM SignerNeverDoubleSigns == Spec => []NoDoubleSign
  <1>1. IInv => NoDoubleSign
    BY DEF IInv
  <1> QED BY <1>1, SignerInvariant, PTL

(* What the signer returns for the first time comes after everything it    *)
(* returned before, restarts included.                                     *)
THEOREM SignerSignsInOrder == Spec => SignsInOrder
  <1>1. IInv /\ [Next]_vars =>
          [\A m \in released' \ released : \A n \in released : Before(n, m)]_vars
    <2> SUFFICES ASSUME IInv, Next,
                        NEW m \in released' \ released, NEW n \in released
                 PROVE  Before(n, m)
      BY DEF IInv
    <2>1. Return
      BY DEF Next, SignNew, SignAgain, Save, Crash, Restart
    <2>2. m = file
      BY <2>1 DEF Return, IInv, PhaseInv
    <2> QED BY <2>2 DEF IInv, FileCovers
  <1> QED BY <1>1, SignerInvariant, PTL DEF Spec, SignsInOrder
=============================================================================
