------------------------------- MODULE Trust -------------------------------
(***************************************************************************)
(* Trust evaluation and the change of validators it leads to, at one node: *)
(* the reactor (crtrust/reactor.go, peer.go, msg.go), whose Receive runs   *)
(* in the receive routine of every peer with no lock; the application      *)
(* (abci/example/kvstore/kvstore.go), whose updateValUpdateRoutine and     *)
(* EndBlock share ValUpdates with no lock; and updateState                 *)
(* (state/execution.go), which changes the validators of a later height.   *)
(*                                                                         *)
(* A power of 10/k is written k (0 for 10/0, which is +Inf); a NORMAL      *)
(* validator has power 0.  Trust values are left out: globalTrust starts   *)
(* from the values of the evaluation before, its sums depend on the order  *)
(* of map iteration, and the sort is not stable, so the order of the       *)
(* nodes by trust is any order.                                            *)
(***************************************************************************)
EXTENDS Integers, Sequences, FiniteSets, FiniteSetsExt

CONSTANTS Self, Peers,      \* this node and the others; all are validators
          MaxHeight,        \* bound: blocks executed
          MaxNotices,       \* bound: evaluations asked for
          MaxConnections,   \* bound: times a peer connects
          None

Nodes == Peers \cup {Self}

VARIABLES height,      \* the block the node is about to execute
          noticed,     \* Reactor.height
          entries,     \* per id, its entries in recommendations
          collect,     \* the ids collected
          byzantines,
          whistling,   \* NoticeCalcGlobalTrust sleeps after its Notice
          asked,       \* Notices sent by anyone so far
          notices,     \* per peer, the heights of its Notices in flight
          evals,       \* per peer, its LocalEvaluations in flight
          sending,     \* per peer, what its receive routine sends on ValUpdateChan
          valUpdates,  \* the application's ValUpdates
          endBlock,    \* where EndBlock is
          response,    \* the updates EndBlock returns
          validators,  \* State.NextValidators: [type, power] per validator
          evaluated,   \* history: evaluations finished
          used,        \* history: the evaluations whose updates were returned
          steady,      \* history: every evaluation ranked all nodes and again
                       \* put the byzantines lowest
          panicked

trustVars == <<height, noticed, entries, collect, byzantines, whistling, asked,
               notices, evals, sending, valUpdates, endBlock, response,
               validators, evaluated, used, steady, panicked>>

Ranked == {n \in Nodes : entries[n] > 0}          \* the keys of globalT
Recommendations == MapThenSumSet(LAMBDA n : entries[n], Nodes)

Init ==
    /\ height = 1 /\ noticed = 0 /\ collect = {} /\ byzantines = {}
    /\ entries = [n \in Nodes |-> IF n = Self THEN 1 ELSE 0]
    /\ whistling = FALSE /\ asked = 0
    /\ notices = [p \in Peers |-> {}] /\ evals = [p \in Peers |-> 0]
    /\ sending = [p \in Peers |-> None] /\ valUpdates = None
    /\ endBlock = "idle" /\ response = None
    /\ validators = [n \in Nodes |-> [type |-> "candidate", power |-> Cardinality(Nodes)]]
    /\ evaluated = 0 /\ used = <<>> /\ steady = TRUE /\ panicked = FALSE

(* InitPeer: every connection is a new entry of recommendations, and       *)
(* nothing is removed when the peer goes.                                  *)
InitPeer(p) ==
    /\ entries[p] < MaxConnections
    /\ entries' = [entries EXCEPT ![p] = @ + 1]
    /\ UNCHANGED <<height, noticed, collect, byzantines, whistling, asked, notices,
                   evals, sending, valUpdates, endBlock, response, validators,
                   evaluated, used, steady, panicked>>

(* Every connected peer answers a Notice with its evaluation. *)
Answers == [p \in Peers |-> evals[p] + IF entries[p] > 0 THEN 1 ELSE 0]

(* NoticeCalcGlobalTrust, up to the sleep: the consensus goroutine asks    *)
(* for an evaluation when the primary timed out.                           *)
Whistle ==
    /\ ~whistling /\ asked < MaxNotices /\ endBlock = "idle"
    /\ whistling' = TRUE /\ noticed' = height /\ asked' = asked + 1
    /\ evals' = Answers
    /\ UNCHANGED <<height, entries, collect, byzantines, notices, sending, valUpdates,
                   endBlock, response, validators, evaluated, used, steady, panicked>>

(* BroadcastTrustMessages after the sleep: no check whether all is there. *)
BroadcastTrustMessages ==
    /\ whistling
    /\ whistling' = FALSE /\ collect' = collect \cup {Self}
    /\ UNCHANGED <<height, noticed, entries, byzantines, asked, notices, evals,
                   sending, valUpdates, endBlock, response, validators, evaluated,
                   used, steady, panicked>>

(* A peer at this height or the next one asks; it and the others answer. *)
PeerWhistles(p, h) ==
    /\ asked < MaxNotices /\ entries[p] > 0 /\ h <= MaxHeight
    /\ h \notin notices[p]
    /\ asked' = asked + 1
    /\ notices' = [notices EXCEPT ![p] = @ \cup {h}]
    /\ evals' = Answers
    /\ UNCHANGED <<height, noticed, entries, collect, byzantines, whistling, sending,
                   valUpdates, endBlock, response, validators, evaluated, used,
                   steady, panicked>>

(* Receive, WhistleChannel; a receive routine that sends takes no message. *)
ReceiveNotice(p, h) ==
    /\ h \in notices[p] /\ sending[p] = None
    /\ notices' = [notices EXCEPT ![p] = @ \ {h}]
    /\ collect' = collect \cup {Self}
    /\ noticed' = h
    /\ UNCHANGED <<height, entries, byzantines, whistling, asked, evals, sending,
                   valUpdates, endBlock, response, validators, evaluated, used,
                   steady, panicked>>

(* modify: the lowest nodes that become NORMAL, one more than there are    *)
(* byzantines.                                                             *)
Lowest(ranked) == kSubset(Cardinality(byzantines) + 1, ranked)

(* Mutant of constructUpdateValidators: the shares are counted before      *)
(* modify adds to the byzantines.                                          *)
constructEarly(ranked, normal) ==
    [height |-> noticed, of |-> evaluated + 1, ids |-> ranked, normal |-> normal,
     power |-> Cardinality(ranked) - Cardinality(byzantines)]

(* constructUpdateValidators: 10 is shared by as many as are not           *)
(* byzantines; whoever is not NORMAL now becomes a candidate.              *)
constructUpdateValidators(ranked, normal) ==
    [height |-> noticed, of |-> evaluated + 1, ids |-> ranked, normal |-> normal,
     power |-> Cardinality(ranked) - Cardinality(byzantines \cup normal)]

(* Receive, LocalEvaluationChannel: the last evaluation starts the         *)
(* computation, and the routine then waits on ValUpdateChan.  modify       *)
(* indexes past the nodes once all of them are byzantines.                 *)
Evaluate(p) ==
    LET ranked == Ranked IN
    /\ collect' = {}
    /\ IF Cardinality(byzantines) + 1 > Cardinality(ranked)
       THEN panicked' = TRUE /\ UNCHANGED <<byzantines, sending, evaluated, steady>>
       ELSE \E normal \in Lowest(ranked) :
              /\ byzantines' = byzantines \cup normal
              /\ sending' = [sending EXCEPT ![p] =
                                constructUpdateValidators(ranked, normal)]
              /\ evaluated' = evaluated + 1
              /\ steady' = (steady /\ ranked = Nodes /\ byzantines \subseteq normal)
              /\ UNCHANGED panicked

ReceiveEvaluation(p) ==
    /\ evals[p] > 0 /\ sending[p] = None
    /\ evals' = [evals EXCEPT ![p] = @ - 1]
    /\ IF Cardinality(collect \cup {p}) = Recommendations
       THEN Evaluate(p)
       ELSE /\ collect' = collect \cup {p}
            /\ UNCHANGED <<byzantines, sending, evaluated, steady, panicked>>
    /\ UNCHANGED <<height, noticed, entries, whistling, asked, notices, valUpdates,
                   endBlock, response, validators, used>>

(* updateValUpdateRoutine: whatever the application held is overwritten. *)
updateValUpdateRoutine(p) ==
    /\ sending[p] # None
    /\ valUpdates' = sending[p]
    /\ sending' = [sending EXCEPT ![p] = None]
    /\ UNCHANGED <<height, noticed, entries, collect, byzantines, whistling, asked,
                   notices, evals, endBlock, response, validators, evaluated, used,
                   steady, panicked>>

(* EndBlock reads, copies and clears ValUpdates in separate steps. *)
EndBlock ==
    /\ endBlock = "idle" /\ ~whistling /\ height <= MaxHeight
    /\ response' = None
    /\ endBlock' = CASE valUpdates = None -> "done"
                     [] valUpdates # None /\ valUpdates.height = height -> "matched"
                     [] OTHER -> "clear"
    /\ UNCHANGED <<height, noticed, entries, collect, byzantines, whistling, asked,
                   notices, evals, sending, valUpdates, validators, evaluated, used,
                   steady, panicked>>

copyValidatorUpdates ==
    /\ endBlock = "matched"
    /\ response' = valUpdates /\ used' = Append(used, valUpdates.of)
    /\ endBlock' = "clear"
    /\ UNCHANGED <<height, noticed, entries, collect, byzantines, whistling, asked,
                   notices, evals, sending, valUpdates, validators, evaluated,
                   steady, panicked>>

(* Mutant of EndBlockClears: updates that were returned stay. *)
EndBlockKeeps ==
    /\ endBlock = "clear" /\ endBlock' = "done"
    /\ valUpdates' = IF response = None THEN None ELSE valUpdates
    /\ UNCHANGED <<height, noticed, entries, collect, byzantines, whistling, asked,
                   notices, evals, sending, response, validators, evaluated, used,
                   steady, panicked>>

EndBlockClears ==
    /\ endBlock = "clear" /\ endBlock' = "done"
    /\ valUpdates' = None
    /\ UNCHANGED <<height, noticed, entries, collect, byzantines, whistling, asked,
                   notices, evals, sending, response, validators, evaluated, used,
                   steady, panicked>>

(* applyUpdates: a validator the updates name is replaced, the others stay. *)
applyUpdates(vals, u) ==
    [n \in DOMAIN vals |->
        CASE n \in u.normal          -> [type |-> "normal", power |-> 0]
          [] n \in u.ids \ u.normal  -> [type |-> "candidate", power |-> u.power]
          [] OTHER                   -> vals[n]]

(* updateState: the change is for the validators of a later height.  The   *)
(* primary it then picks is one of the candidates; that changes no power.  *)
updateState ==
    /\ endBlock = "done" /\ endBlock' = "idle"
    /\ validators' = IF response = None THEN validators
                     ELSE applyUpdates(validators, response)
    /\ height' = height + 1 /\ response' = None
    /\ UNCHANGED <<noticed, entries, collect, byzantines, whistling, asked, notices,
                   evals, sending, valUpdates, evaluated, used, steady, panicked>>

Next ==
    /\ ~panicked
    /\ \/ \E p \in Peers :
            \/ InitPeer(p) \/ ReceiveEvaluation(p) \/ updateValUpdateRoutine(p)
            \/ \E h \in height..height + 1 : PeerWhistles(p, h)
            \/ \E h \in 1..MaxHeight : ReceiveNotice(p, h)
       \/ Whistle \/ BroadcastTrustMessages
       \/ EndBlock \/ copyValidatorUpdates \/ EndBlockClears \/ updateState

Spec == Init /\ [][Next]_trustVars

----------------------------------------------------------------------------
Candidates == {n \in Nodes : validators[n].type = "candidate"}

(* The powers 10/k of the candidates sum to 10, in units of 10/60. *)
PowersSumToTotal ==
    /\ \A n \in Candidates : validators[n].power > 0
    /\ MapThenSumSet(LAMBDA n : 60 \div validators[n].power, Candidates) = 60

(* As long as every evaluation ranked all nodes and found the earlier      *)
(* byzantines lowest again, and one node is left that is not one of them,  *)
(* the voting powers of whatever updates were applied, at whatever height  *)
(* and with whichever of them lost, sum to TotalVotingPower, which is what *)
(* every quorum of VoteSet is counted against.                             *)
SteadyKeepsTotal ==
    steady /\ Cardinality(byzantines) < Cardinality(Nodes) => PowersSumToTotal

(* The updates of one evaluation are returned by EndBlock at most once,    *)
(* although the routine may replace ValUpdates between its steps.          *)
UpdatesAreUsedOnce ==
    \A i, j \in DOMAIN used : i # j => used[i] # used[j]
=============================================================================
