--------------------------- MODULE PrivValidator ---------------------------
(***************************************************************************)
(* FilePV of types/priv_validator.go: the signer that must never sign two  *)
(* different things for one height, round and step, although the process   *)
(* may crash at any point and start again from its state file.             *)
(*                                                                         *)
(* Signatures are deterministic, so a signature is the record of what was  *)
(* signed.  LastSignState lives in memory (lss) and in the state file      *)
(* (file), which WriteFileAtomic replaces in one step.                     *)
(*                                                                         *)
(* Its callers, State.signVote and decidePrePrepare, build a message, hand *)
(* a protobuf copy of it to the signer and take over the copy's signature, *)
(* but not its timestamp.                                                  *)
(***************************************************************************)
EXTENDS Integers

CONSTANTS Heights, Rounds,      \* of votes and proposals
          Values,               \* what is signed, apart from its timestamp
          Times,                \* timestamps
          NoValue               \* SignBytes is nil

PrePrepareStep == 1
PrepareStep    == 2
CommitStep     == 3

Steps == {PrePrepareStep, PrepareStep, CommitStep}

ASSUME PrivValidatorAssumption ==
    /\ Heights \subseteq Nat \ {0}
    /\ Rounds \subseteq Nat
    /\ NoValue \notin Values

Signature == [height : Heights, round : Rounds, step : Steps, val : Values, time : Times]

Empty == [height |-> 0, round |-> 0, step |-> 0, val |-> NoValue, time |-> 0]

VARIABLES file,         \* LastSignState on disk
          lss,          \* LastSignState in memory
          phase,        \* where the signing goroutine is
          asked,        \* the message its caller wants signed
          pending,      \* the signature it is about to return
          released      \* the signatures the node has returned, ever

vars == <<file, lss, phase, asked, pending, released>>

Before(a, b) ==
    \/ a.height < b.height
    \/ a.height = b.height /\ a.round < b.round
    \/ a.height = b.height /\ a.round = b.round /\ a.step < b.step

SameHRS(a, b) == a.height = b.height /\ a.round = b.round /\ a.step = b.step

Init == /\ file = Empty /\ lss = Empty
        /\ phase = "idle" /\ asked = Empty /\ pending = Empty
        /\ released = {}

(***************************************************************************)
(* signVote and signProposal up to saveSigned.  CheckHRS refuses a         *)
(* regression, and for the height, round and step of the last signature    *)
(* that signature is returned again, with its own timestamp, unless the    *)
(* value conflicts.                                                        *)
(***************************************************************************)
SignNewAnyRound(m) ==   \* mutant: only the height and the step may not regress
    /\ phase = "idle"
    /\ ~SameHRS(lss, m)
    /\ lss.height <= m.height /\ (lss.height = m.height => lss.step <= m.step)
    /\ lss' = m /\ asked' = m /\ pending' = m /\ phase' = "save"
    /\ UNCHANGED <<file, released>>

SignNew(m) ==
    /\ phase = "idle"
    /\ Before(lss, m)
    /\ lss' = m /\ asked' = m /\ pending' = m /\ phase' = "save"
    /\ UNCHANGED <<file, released>>

SignAgain(m) ==
    /\ phase = "idle"
    /\ SameHRS(lss, m) /\ lss.val = m.val
    /\ asked' = m /\ pending' = lss /\ phase' = "return"
    /\ UNCHANGED <<file, lss, released>>

(* LastSignState.Save *)
Save == /\ phase = "save"
        /\ file' = lss /\ phase' = "return"
        /\ UNCHANGED <<lss, asked, pending, released>>

Return == /\ phase = "return"
          /\ released' = released \cup {pending}
          /\ phase' = "idle" /\ asked' = Empty /\ pending' = Empty
          /\ UNCHANGED <<file, lss>>

(* The process dies and loses its memory. *)
Crash == /\ phase # "down"
         /\ phase' = "down" /\ lss' = Empty /\ asked' = Empty /\ pending' = Empty
         /\ UNCHANGED <<file, released>>

RestartEmpty ==         \* mutant: LoadFilePVEmptyState where LoadFilePV is meant
    /\ phase = "down"
    /\ lss' = Empty /\ phase' = "idle"
    /\ UNCHANGED <<file, asked, pending, released>>

(* LoadFilePV *)
Restart == /\ phase = "down"
           /\ lss' = file /\ phase' = "idle"
           /\ UNCHANGED <<file, asked, pending, released>>

Next == \/ \E m \in Signature : SignNew(m) \/ SignAgain(m)
        \/ Save \/ Return \/ Crash \/ Restart

Spec == Init /\ [][Next]_vars

-----------------------------------------------------------------------------

TypeOK == /\ file \in Signature \cup {Empty}
          /\ lss \in Signature \cup {Empty}
          /\ asked \in Signature \cup {Empty}
          /\ pending \in Signature \cup {Empty}
          /\ phase \in {"idle", "save", "return", "down"}
          /\ released \subseteq Signature

(* Whatever crashes and retries happen, no two different things are signed *)
(* for one height, round and step, not even with another timestamp.        *)
NoDoubleSign == \A m, n \in released : SameHRS(m, n) => m = n

(* A signature that is new leaves the signer only after all those for      *)
(* earlier heights, rounds and steps: it never goes back, also not after   *)
(* a restart.                                                              *)
SignsInOrder == [][\A m \in released' \ released : \A n \in released : Before(n, m)]_vars

(* priv_validator.go:189 says that a signature is not lost if the process  *)
(* crashes between signing and consensus: a signature that is returned     *)
(* for the first time, maybe after a restart, fits the caller's message.   *)
SignatureFits == phase = "return" /\ pending \notin released => asked = pending

(* The inductive invariant: the state file is never behind a signature     *)
(* that was returned.                                                      *)
FileCovers == \A m \in released : Before(m, file) \/ m = file

PhaseInv == /\ phase = "idle" => lss = file
            /\ phase = "save" => lss = pending /\ Before(file, lss)
            /\ phase = "return" => lss = file /\ pending = file /\ file # Empty

IInv == TypeOK /\ FileCovers /\ PhaseInv /\ NoDoubleSign
=============================================================================
