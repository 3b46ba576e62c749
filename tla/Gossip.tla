------------------------------- MODULE Gossip -------------------------------
(***************************************************************************)
(* The gossip of votes between a node and one peer (consensus/reactor.go): *)
(* gossipVotesRoutine and queryMaj23Routine, which read the node's round   *)
(* state with no lock, and Receive at both ends.  The vote sets are those  *)
(* of module VoteSet.  Messages are delivered in any order: Broadcast      *)
(* starts a goroutine for each, and the channels of a connection have      *)
(* priorities.  TrySend may drop its message (queryMaj23 then has not     *)
(* happened), and Send may fail.                                           *)
(*                                                                         *)
(* The consensus state machines of the two are left out but for what they  *)
(* tell each other: positions only grow, and a height is left with a       *)
(* majority of its commits.                                                *)
(***************************************************************************)
EXTENDS VoteSet, FiniteSetsExt, Sequences

CONSTANTS Instances,    \* bounds: the heights, rounds and steps that are passed,
                        \* the votes we have when the peer connects, get later,
                        \* and those it gets from others (has, gets, other),
                        \* whether the peer has proposals, and how often
                        \* Send may fail or TrySend drop its message
          MaxHeight, MaxRound,  \* the largest of the instances
          MaxFlight,    \* bound: messages on the way to us
          Us            \* this node, the only peer of the peer

PS == INSTANCE PeerState WITH NoHeader <- NoVote

VARIABLES inst,         \* the instance
          ours, theirs, \* vote sets by height, round and type
          us, them,     \* positions: height, round, step, lastRound
          decided,      \* per height, the round we committed in, -1 before
          prs,          \* our PeerState of the peer
          look,         \* gossipVotesRoutine: pc and what it read
          toPeer, toUs, \* messages in flight
          fails,        \* messages that were not queued so far
          given         \* history: the votes sent to the peer or had by it

gossipVars == <<inst, ours, theirs, us, them, decided, prs, look, toPeer, toUs, fails, given>>

Heights == 1..MaxHeight
Keys == Heights \X (0..MaxRound) \X {"prepare", "commit"}
KeyOf(m) == <<m.height, m.round, m.type>>
Slot(m) == <<m.height, m.round, m.type, m.v>>

Idle == [pc |-> "idle"]

(* makeRoundStepMessage. *)
makeRoundStepMessage(pos) ==
    [is |-> "step", height |-> pos.height, round |-> pos.round, step |-> pos.step,
     lastRound |-> pos.lastRound]

Start == [height |-> 1, round |-> 0, step |-> PS!NewHeightStep, lastRound |-> -1]

(* A vote set with the votes of has, none of which conflict. *)
Filled(k, has) ==
    LET members == {v \in Validators : \E m \in has : KeyOf(m) = k /\ m.v = v}
        Of(v) == (CHOOSE m \in has : KeyOf(m) = k /\ m.v = v).b
        Add(vs, v) == AddVote(vs, v, Of(v))
    IN  FoldSet(LAMBDA v, vs : Add(vs, v), NewVoteSet, members)

(* AddPeer: both have sent their round step. *)
Init ==
    /\ inst \in Instances
    /\ ours = [k \in Keys |-> Filled(k, inst.has)] /\ theirs = [k \in Keys |-> NewVoteSet]
    /\ us = Start /\ them = Start
    /\ decided = [h \in Heights |-> -1]
    /\ prs = PS!NewPeerState /\ look = Idle
    /\ toPeer = {} /\ fails = 0 /\ toUs = {makeRoundStepMessage(Start)} /\ given = {}

(* addVote at a node at pos: a commit of the height before counts only     *)
(* while the node is at step NewHeight.                                    *)
Takes(pos, m) ==
    \/ m.height = pos.height
    \/ /\ m.height + 1 = pos.height /\ m.type = "commit"
       /\ m.round = pos.lastRound /\ pos.step = PS!NewHeightStep

(* We get a vote from elsewhere, or cast it. *)
OurVote(m) ==
    /\ Takes(us, m) /\ Added(ours[KeyOf(m)], m.v, m.b)
    /\ ours' = [ours EXCEPT ![KeyOf(m)] = AddVote(@, m.v, m.b)]
    /\ UNCHANGED <<inst, theirs, us, them, decided, prs, look, toPeer, toUs, fails, given>>

(* broadcastHasVoteMessage, for a vote the peer added. *)
broadcastHasVoteMessage(m) ==
    [is |-> "hasVote", height |-> m.height, round |-> m.round, type |-> m.type, v |-> m.v]

PeerAdds(m) ==
    IF Takes(them, m) /\ Added(theirs[KeyOf(m)], m.v, m.b)
    THEN /\ theirs' = [theirs EXCEPT ![KeyOf(m)] = AddVote(@, m.v, m.b)]
         /\ toUs' = toUs \cup {broadcastHasVoteMessage(m)}
    ELSE UNCHANGED <<theirs, toUs>>

PeerVote(m) ==
    /\ Cardinality(toUs) < MaxFlight
    /\ Takes(them, m) /\ Added(theirs[KeyOf(m)], m.v, m.b)
    /\ PeerAdds(m) /\ given' = given \cup {Slot(m)}
    /\ UNCHANGED <<inst, ours, us, them, decided, prs, look, toPeer, fails>>

(* A position moves to a later step or round, or with a majority of        *)
(* commits for a block to the next height.                                 *)
Decides(sets, pos, r) ==
    sets[<<pos.height, r, "commit">>].maj23 \notin {NoVote, Nil}

Moves(pos, sets, steps) ==
    {[pos EXCEPT !.step = s] :
        s \in {s \in steps : /\ s > pos.step
                             /\ s = PS!ReplyStep => \E r \in 0..inst.rounds :
                                                      Decides(sets, pos, r)}}
    \cup {[pos EXCEPT !.round = r, !.step = PS!PrePrepareStep] :
            r \in {r \in 0..inst.rounds : r > pos.round}}
    \cup {[height |-> pos.height + 1, round |-> 0, step |-> PS!NewHeightStep,
           lastRound |-> r] :
            r \in {r \in 0..MaxRound : pos.height < inst.heights /\ Decides(sets, pos, r)}}

OurMove ==
    \E new \in Moves(us, ours, {}) :
       /\ us' = new
       /\ decided' = IF new.height = us.height THEN decided
                     ELSE [decided EXCEPT ![us.height] = new.lastRound]
       /\ UNCHANGED <<inst, ours, theirs, them, prs, look, toPeer, toUs, fails, given>>

PeerMove ==
    /\ Cardinality(toUs) < MaxFlight
    /\ \E new \in Moves(them, theirs, inst.steps) :
       /\ them' = new
       /\ toUs' = toUs \cup {makeRoundStepMessage(new)}
       /\ UNCHANGED <<inst, ours, theirs, us, decided, prs, look, toPeer, fails, given>>

(* The peer has a proposal of its round, with a POL of an earlier one, and *)
(* sends it with the votes it has of that round (gossipDataRoutine).       *)
PeerProposes(pol) ==
    /\ inst.proposes /\ Cardinality(toUs) < MaxFlight
    /\ pol \in -1..(them.round - 1) /\ them.step # PS!NewHeightStep
    /\ toUs' = toUs
         \cup {[is |-> "proposal", height |-> them.height, round |-> them.round,
                polRound |-> pol, header |-> Nil]}
         \cup {[is |-> "pol", height |-> them.height, round |-> p,
                bits |-> theirs[<<them.height, p, "prepare">>].votesBitArray] :
                 p \in {pol} \ {-1}}
    /\ UNCHANGED <<inst, ours, theirs, us, them, decided, prs, look, toPeer, fails, given>>

(* broadcastNewValidBlockMessage at the peer. *)
PeerHasValidBlock ==
    /\ inst.proposes /\ Cardinality(toUs) < MaxFlight
    /\ them.step # PS!NewHeightStep
    /\ toUs' = toUs \cup {[is |-> "validBlock", height |-> them.height,
                           round |-> them.round, header |-> Nil, parts |-> {},
                           isCommit |-> them.step = PS!ReplyStep]}
    /\ UNCHANGED <<inst, ours, theirs, us, them, decided, prs, look, toPeer, fails, given>>

----------------------------------------------------------------------------
(* gossipVotesRoutine takes a copy of the round state, with no lock, and   *)
(* one of the peer state.                                                  *)
Read ==
    /\ look.pc = "idle"
    /\ look' = [pc |-> "pick", us |-> us,
                prs |-> [f \in {"height", "round", "step", "polRound"} |-> prs[f]]]
    /\ UNCHANGED <<inst, ours, theirs, us, them, decided, prs, toPeer, toUs, fails, given>>

(* What PickVoteToSend asks of a vote set. *)
Reader(h, r, t) ==
    [height |-> h, round |-> r, type |-> t, bits |-> ours[<<h, r, t>>].votesBitArray,
     isReply |-> t = "commit" /\ ours[<<h, r, t>>].maj23 # NoVote]

ReplyReader(h, r) ==
    [height |-> h, round |-> r, type |-> "commit", isReply |-> TRUE,
     bits |-> {v \in Validators : MakeReply(ours[<<h, r, "commit">>])[v] # "absent"}]

If(cond, seq) == IF cond THEN seq ELSE <<>>

LastCommits(pos) ==
    If(pos.lastRound # -1, <<Reader(pos.height - 1, pos.lastRound, "commit")>>)

(* gossipVotesForHeight: the vote sets tried, in their order. *)
gossipVotesForHeight(votes, p) ==
    LET known == p.round # -1 /\ p.round <= votes.round
        Pol   == <<Reader(votes.height, p.polRound, "prepare")>>
        Prepares == <<Reader(votes.height, p.round, "prepare")>>
        Commits  == <<Reader(votes.height, p.round, "commit")>>
    IN  If(p.step = PS!NewHeightStep, LastCommits(votes))
        \o If(p.step <= PS!PrePrepareStep /\ known /\ p.polRound # -1, Pol)
        \o If(p.step <= PS!PrepareWaitStep /\ known, Prepares)
        \o If(p.step <= PS!CommitWaitStep /\ known, Commits)
        \o If(known, Prepares)
        \o If(p.polRound # -1, Pol)

(* The body of the loop: votes for the peer's height, and catchup. *)
Tries(height, votes, p) ==
    If(height = p.height, gossipVotesForHeight(votes, p))
    \o If(p.height # 0 /\ height = p.height + 1, LastCommits(votes))
    \o If(/\ p.height # 0 /\ height >= p.height + 2
          /\ decided[p.height] # -1, <<ReplyReader(p.height, decided[p.height])>>)

(* The peer state after the first n tries. *)
After(tries) ==
    LET f[n \in 0..Len(tries)] ==
          IF n = 0 THEN prs
          ELSE CHOOSE e \in {PS!Ensured(p, tries[n]) : p \in {f[n - 1]}} : TRUE
    IN  f

(* The vote of v that the reader gives: GetByIndex. *)
VoteOf(reader, v) ==
    [is |-> "vote", height |-> reader.height, round |-> reader.round,
     type |-> reader.type, v |-> v, b |-> ours[KeyOf(reader)].votes[v]]

(* PickSendVote for the first vote set with a vote the peer lacks; the     *)
(* mark follows once the message is queued.  The copy of the round state   *)
(* may be torn: the height of before the node moved, the rest of after.    *)
PickSendVote(votes) ==
    LET tries == Tries(look.us.height, votes, look.prs)
        after == After(tries)
        Picks(n) == PS!PickVoteToSend(after[n], tries[n])
        found == {n \in DOMAIN tries : Picks(n) # {}}
        first == CHOOSE n \in found : \A m \in found : n <= m
    IN
    /\ IF found = {}
       THEN /\ prs' = after[Len(tries)] /\ look' = Idle
            /\ UNCHANGED <<toPeer, fails, given>>
       ELSE /\ prs' = after[first]
            /\ \/ \E v \in Picks(first) :
                    LET m == VoteOf(tries[first], v) IN
                    /\ toPeer' = toPeer \cup {m} /\ given' = given \cup {Slot(m)}
                    /\ look' = [pc |-> "mark", vote |-> m] /\ UNCHANGED fails
               \/ /\ fails < inst.fails /\ fails' = fails + 1
                  /\ look' = Idle /\ UNCHANGED <<toPeer, given>>
    /\ UNCHANGED <<inst, ours, theirs, us, them, decided, toUs>>

gossipVotes ==
    /\ look.pc = "pick"
    /\ \E votes \in {look.us, us} : PickSendVote(votes)

SetHasVote ==
    /\ look.pc = "mark" /\ look' = Idle
    /\ prs' = PS!setHasVote(prs, look.vote.height, look.vote.round, look.vote.type,
                            look.vote.v)
    /\ UNCHANGED <<inst, ours, theirs, us, them, decided, toPeer, toUs, fails, given>>

(* queryMaj23Routine: the majorities we may ask the peer about. *)
Maj23Message(h, r, t, b) ==
    [is |-> "maj23", height |-> h, round |-> r, type |-> t, b |-> b]

Queries ==
    {Maj23Message(k[1], k[2], k[3], ours[k].maj23) :
       k \in {k \in Keys :
                /\ ours[k].maj23 # NoVote /\ k[1] = prs.height
                /\ \/ us.height = prs.height
                      /\ (k[2] = prs.round \/ (k[2] = prs.polRound /\ k[3] = "prepare"))
                   \/ /\ us.height > prs.height /\ prs.catchRound # -1
                      /\ k[2] = decided[prs.height] /\ k[3] = "commit"}}

queryMaj23 ==
    \E m \in Queries :
       /\ m \notin toPeer /\ toPeer' = toPeer \cup {m}
       /\ UNCHANGED <<inst, ours, theirs, us, them, decided, prs, look, toUs, fails, given>>

----------------------------------------------------------------------------
(* Receive at the peer. *)
PeerReceivesVote(m) ==
    /\ m \in toPeer /\ m.is = "vote" /\ Cardinality(toUs) < MaxFlight
    /\ toPeer' = toPeer \ {m} /\ PeerAdds(m)
    /\ UNCHANGED <<inst, ours, us, them, decided, prs, look, fails, given>>

(* VoteSetMaj23Message: the claim, and the answer for its block unless     *)
(* the queue is full.                                                      *)
PeerReceivesMaj23(m) ==
    /\ m \in toPeer /\ m.is = "maj23" /\ Cardinality(toUs) < MaxFlight
    /\ toPeer' = toPeer \ {m}
    /\ IF m.height # them.height THEN UNCHANGED <<theirs, toUs, fails>>
       ELSE LET set == SetPeerMaj23(theirs[KeyOf(m)], Us, m.b) IN
            /\ theirs' = [theirs EXCEPT ![KeyOf(m)] = set]
            /\ \/ toUs' = toUs \cup {[is |-> "bits", height |-> m.height,
                                      round |-> m.round, type |-> m.type, b |-> m.b,
                                      bits |-> set.votesByBlock[m.b]]}
                  /\ UNCHANGED fails
               \/ fails < inst.fails /\ fails' = fails + 1 /\ UNCHANGED toUs
    /\ UNCHANGED <<inst, ours, us, them, decided, prs, look, given>>

(* Receive at this node; ours is nil when the heights differ. *)
OurBits(m) ==
    IF us.height = m.height THEN <<ours[KeyOf(m)].votesByBlock[m.b]>> ELSE PS!NilBits

Applied(m) ==
    CASE m.is = "step"     -> PS!ApplyNewRoundStepMessage(prs, m)
      [] m.is = "hasVote"  -> IF prs.height # m.height THEN prs
                              ELSE PS!setHasVote(prs, m.height, m.round, m.type, m.v)
      [] m.is = "proposal" -> PS!SetHasProposal(prs, m)
      [] m.is = "validBlock" -> PS!ApplyNewValidBlockMessage(prs, m)
      [] m.is = "pol"      -> PS!ApplyProposalPOLMessage(prs, m)
      [] m.is = "bits"     -> PS!ApplyVoteSetBitsMessage(prs, m, OurBits(m))

Receive(m) ==
    /\ m \in toUs
    /\ toUs' = toUs \ {m}
    /\ prs' = Applied(m)
    /\ UNCHANGED <<inst, ours, theirs, us, them, decided, look, toPeer, fails, given>>

Next ==
    \/ (\E m \in inst.gets : OurVote(m)) \/ (\E m \in inst.other : PeerVote(m))
    \/ OurMove \/ PeerMove
    \/ (\E pol \in -1..MaxRound : PeerProposes(pol)) \/ PeerHasValidBlock
    \/ Read \/ gossipVotes \/ SetHasVote \/ queryMaj23
    \/ \E m \in toPeer : PeerReceivesVote(m) \/ PeerReceivesMaj23(m)
    \/ \E m \in toUs : Receive(m)

Spec == Init /\ [][Next]_gossipVars

(* gossipVotes is enabled whenever look.pc is "pick", and no other action   *)
(* leaves it.                                                              *)
AfterPick ==
    {Idle} \cup
    {[pc |-> "mark", vote |-> [is |-> "vote", height |-> k[1], round |-> k[2],
                               type |-> k[3], v |-> v, b |-> b]] :
       k \in Keys, v \in Validators, b \in BlockIDs}

LeavesPick == look.pc = "pick" /\ look' \in AfterPick

(* The routines and both ends of the connection keep running; fairness is  *)
(* strong where the bound MaxFlight holds an action up now and then.       *)
Fairness ==
    /\ WF_gossipVars(Read) /\ WF_look(LeavesPick) /\ WF_gossipVars(SetHasVote)
    /\ WF_gossipVars(queryMaj23)
    /\ SF_gossipVars(\E m \in toPeer : PeerReceivesVote(m))
    /\ SF_gossipVars(\E m \in toPeer : PeerReceivesMaj23(m))
    /\ \A kind \in {"step", "hasVote", "proposal", "validBlock", "pol", "bits"} :
          WF_gossipVars(\E m \in toUs : m.is = kind /\ Receive(m))

FairSpec == Spec /\ Fairness
----------------------------------------------------------------------------
(* A bit that is set in any of the bit arrays kept for the peer stands for *)
(* a vote that was sent to the peer or that the peer has had, of the       *)
(* height, round and type the array is kept for.  So a vote the peer needs *)
(* is never held back as known because of a round change, an alias of two  *)
(* arrays, or a message that came late.                                    *)
MarkedIsGiven ==
    \A k \in Keys :
       LET field == PS!getVoteBitArray(prs, k[1], k[2], k[3]) IN
       PS!HasBits(prs, field) =>
          \A v \in prs[field][1] : <<k[1], k[2], k[3], v>> \in given

(* Once we have left a height, a peer that is still there gets a majority  *)
(* of its commits, even if a validator cast two votes and the peer got the *)
(* other one first: the claim of a majority makes it take a conflicting    *)
(* vote, and its answer makes us send the vote although we have seen that  *)
(* it has one of that validator.                                           *)
CommitsReach ==
    us.height > 1 ~> \E r \in 0..MaxRound : Decides(theirs, [height |-> 1], r)
=============================================================================
