----------------------------- MODULE BlockSync -----------------------------
(***************************************************************************)
(* Block sync: the block pool (blockchain/pool.go) with one requester      *)
(* goroutine per height it fetches, and the reactor                        *)
(* (blockchain/reactor.go) with its poolRoutine, which verifies and        *)
(* applies blocks two at a time, and the goroutine that handles errors.    *)
(*                                                                         *)
(* A block is [good, reply]: whether it is the chain's block, and whether  *)
(* the commit it carries is one for the chain's block below it.  A peer    *)
(* that is not faulty sends the chain's blocks.  A request is lost only    *)
(* with its connection; the channel it passes through is left out.         *)
(* Durations are left out: a running timer fires at any time, except for a *)
(* stable peer, which stays connected and answers in time.                 *)
(***************************************************************************)
EXTENDS Integers, Sequences, FiniteSets, FiniteSetsExt

CONSTANTS Peers, Faulty, Stable,
          Start,           \* the first height the store does not have
          Reports,           \* the base and height each peer reports
          None,
          MaxRequesters,   \* maxTotalRequesters
          MaxPending,      \* maxPendingRequests
          MaxPendingPerPeer,   \* maxPendingRequestsPerPeer
          MaxErrors,       \* capacity of errorsCh
          MaxReconnects,   \* bound: connections of a peer that is not stable after its first
          MaxLate          \* bound: the connections after whose end messages are still handled

VARIABLES height,      \* the pool's height
          req,         \* requesters: height -> [pc, picked, lost, peerID, block, redo]
          peers,       \* the pool's peers: None or [numPending, timer, didTimeout]
          maxPeerHeight, numPending,
          errors,      \* errorsCh
          running,     \* the pool runs; FALSE once consensus has taken over
          conn,        \* the switch is connected to the peer
          reconnects,
          status,      \* a StatusResponse of the peer is on its way
          net,         \* requests a peer has not answered
          peek,        \* poolRoutine between PeekTwoBlocks and its end
          store        \* the blocks applied, in order

vars == <<height, req, peers, maxPeerHeight, numPending, errors, running, conn,
          reconnects, status, net, peek, store>>

pool == <<height, req, peers, maxPeerHeight, numPending>>
world == <<conn, reconnects, status, net>>

Blocks == {b \in [good : BOOLEAN, reply : BOOLEAN] : b.good \/ b.reply}
TrueBlock == [good |-> TRUE, reply |-> TRUE]
NewRequester ==
    [pc |-> "pick", picked |-> None, lost |-> FALSE, peerID |-> None, block |-> None, redo |-> None]
Idle == [pc |-> "idle"]

Init ==
    /\ height = Start /\ req = [h \in {} |-> NewRequester]
    /\ peers = [p \in Peers |-> None] /\ maxPeerHeight = 0 /\ numPending = 0
    /\ errors = <<>> /\ running = TRUE
    /\ conn = [p \in Peers |-> TRUE] /\ reconnects = [p \in Peers |-> 0]
    /\ status = [p \in Peers |-> TRUE] /\ net = {}
    /\ peek = Idle /\ store = <<>>

(****************************** the block pool *****************************)
InPool == {p \in Peers : peers[p] # None}

(* Mutant of redo: a requester that has its block is left alone. *)
redoUnlessDone(r, p) ==
    IF r.peerID = p /\ r.redo = None /\ r.block = None THEN [r EXCEPT !.redo = p] ELSE r

(* redo: one request to start over fits in the channel. *)
redo(r, p) == IF r.peerID = p /\ r.redo = None THEN [r EXCEPT !.redo = p] ELSE r

updateMaxPeerHeight(left) == Max({Reports[p].height : p \in left} \cup {0})

(* removePeer, for a set of peers: every requester assigned to one starts over.
   That a requester has picked one and not noted it yet is recorded in lost. *)
Without(r, ps) ==
    IF r.peerID \in ps THEN redo(r, r.peerID) ELSE [r EXCEPT !.lost = @ \/ r.picked \in ps]

RemovePeers(ps) ==
    LET left == InPool \ ps IN
    /\ req' = [h \in DOMAIN req |-> Without(req[h], ps)]
    /\ peers' = [p \in Peers |-> IF p \in left THEN peers[p] ELSE None]
    /\ maxPeerHeight' = IF \E p \in InPool \cap ps : Reports[p].height = maxPeerHeight
                        THEN updateMaxPeerHeight(left) ELSE maxPeerHeight

TimedOut == {p \in InPool : peers[p].didTimeout}

AtLimit == numPending >= MaxPending \/ Cardinality(DOMAIN req) >= MaxRequesters

(* makeRequestersRoutine at a limit: removeTimedoutPeers. *)
removeTimedoutPeers ==
    /\ AtLimit /\ TimedOut # {}
    /\ RemovePeers(TimedOut)
    /\ UNCHANGED <<height, numPending, errors, running, peek, store, world>>

(* Mutant of makeNextRequester: from the highest height any peer has. *)
makeLastRequester ==
    /\ ~AtLimit /\ maxPeerHeight > 0 /\ maxPeerHeight \notin DOMAIN req
    /\ req' = [h \in DOMAIN req \cup {maxPeerHeight} |->
                  IF h \in DOMAIN req THEN req[h] ELSE NewRequester]
    /\ numPending' = numPending + 1
    /\ UNCHANGED <<height, peers, maxPeerHeight, errors, running, peek, store, world>>

(* makeRequestersRoutine below its limits. *)
makeNextRequester ==
    LET next == height + Cardinality(DOMAIN req) IN
    /\ ~AtLimit
    /\ next <= maxPeerHeight
    /\ req' = [h \in DOMAIN req \cup {next} |-> IF h = next THEN NewRequester ELSE req[h]]
    /\ numPending' = numPending + 1
    /\ UNCHANGED <<height, peers, maxPeerHeight, errors, running, peek, store, world>>

SetPeerRange(p) ==
    /\ status[p] /\ (conn[p] \/ reconnects[p] < MaxLate)
    /\ status' = [status EXCEPT ![p] = FALSE]
    /\ peers' = [peers EXCEPT ![p] =
           IF @ # None THEN @ ELSE [numPending |-> 0, timer |-> FALSE, didTimeout |-> FALSE]]
    /\ maxPeerHeight' = Max({maxPeerHeight, Reports[p].height})
    /\ UNCHANGED <<height, req, numPending, errors, running, conn, reconnects, net,
                   peek, store>>

incrPending(x) == [x EXCEPT !.numPending = @ + 1, !.timer = @ \/ x.numPending = 0]
decrPending(x) == [x EXCEPT !.numPending = @ - 1, !.timer = x.numPending # 1]

Available(p, h) ==
    /\ p \in InPool /\ ~peers[p].didTimeout
    /\ peers[p].numPending < MaxPendingPerPeer
    /\ h >= Reports[p].base /\ h <= Reports[p].height

(* pickIncrAvailablePeer: the peers of the map in any order; those that timed
   out and come before the one that is picked are removed. *)
Pick(h) ==
    /\ req[h].pc = "pick"
    /\ \/ \E p \in Peers, gone \in SUBSET TimedOut :
             /\ Available(p, h)
             /\ LET left == InPool \ gone IN
                /\ req' = [k \in DOMAIN req |->
                      IF k = h THEN [req[h] EXCEPT !.pc = "assign", !.picked = p]
                      ELSE Without(req[k], gone)]
                /\ peers' = [x \in Peers |-> IF x = p THEN incrPending(peers[p])
                                             ELSE IF x \in left THEN peers[x] ELSE None]
                /\ maxPeerHeight' = IF \E x \in gone : Reports[x].height = maxPeerHeight
                                    THEN updateMaxPeerHeight(left) ELSE maxPeerHeight
       \/ /\ TimedOut # {} /\ \A p \in Peers : ~Available(p, h)
          /\ RemovePeers(TimedOut)
    /\ UNCHANGED <<height, numPending, errors, running, peek, store, world>>

(* The requester notes the peer it picked, after the pool's lock is released,
   and sends the request, which goes out if the peer is still connected. *)
Assign(h) ==
    LET p == req[h].picked IN
    /\ req[h].pc = "assign"
    /\ req' = [req EXCEPT ![h].pc = "wait", ![h].picked = None, ![h].lost = FALSE,
                            ![h].peerID = p]
    /\ net' = IF conn[p] THEN net \cup {<<p, h>>} ELSE net
    /\ UNCHANGED <<height, peers, maxPeerHeight, numPending, errors, running, conn,
                   reconnects, status, peek, store>>

(* <-redoCh, and reset if it is about the peer the requester waits for. *)
Redo(h) ==
    LET r == req[h]
        mine == r.redo = r.peerID IN
    /\ r.pc = "wait" /\ r.redo # None
    /\ req' = [req EXCEPT ![h] = IF mine THEN NewRequester ELSE [r EXCEPT !.redo = None]]
    /\ numPending' = IF mine /\ r.block # None THEN numPending + 1 ELSE numPending
    /\ UNCHANGED <<height, peers, maxPeerHeight, errors, running, peek, store, world>>

setBlock(r, p) == r.block = None /\ r.peerID = p

(* sendError waits while the channel is full. *)
sendError(p) == Len(errors) < MaxErrors /\ errors' = Append(errors, p)

(* AddBlock, for the answer of a peer to a request it was sent. *)
AddBlock(p, h, b) ==
    /\ <<p, h>> \in net /\ (conn[p] \/ reconnects[p] < MaxLate)
    /\ p \in Faulty \/ b = TrueBlock
    /\ net' = net \ {<<p, h>>}
    /\ IF h \notin DOMAIN req THEN UNCHANGED <<pool, errors>>
       ELSE IF setBlock(req[h], p)
       THEN /\ req' = [req EXCEPT ![h].block = b]
            /\ numPending' = numPending - 1
            /\ peers' = [peers EXCEPT ![p] = IF @ = None THEN None ELSE decrPending(@)]
            /\ UNCHANGED <<height, maxPeerHeight, errors>>
       ELSE sendError(p) /\ UNCHANGED pool
    /\ UNCHANGED <<running, conn, reconnects, status, peek, store>>

(* NoBlockResponse is only logged. *)
NoBlock(p, h) ==
    /\ <<p, h>> \in net /\ p \notin Stable
    /\ net' = net \ {<<p, h>>}
    /\ UNCHANGED <<pool, errors, running, conn, reconnects, status, peek, store>>

(* The timer of a peer that is owed an answer; a stable peer gives it in time,
   so its timer fires only when it was left running with nothing to wait for. *)
onTimeout(p) ==
    /\ p \in InPool /\ peers[p].timer
    /\ p \notin Stable \/ (/\ \A x \in net : x[1] # p
                           /\ \A h \in DOMAIN req : req[h].picked # p)
    /\ peers' = [peers EXCEPT ![p].didTimeout = TRUE, ![p].timer = FALSE]
    /\ sendError(p)
    /\ UNCHANGED <<height, req, maxPeerHeight, numPending, running, peek, store, world>>

(***************************** the reactor *********************************)
(* Switch.StopPeerForError, with the reactor's RemovePeer. *)
StopPeers(ps) ==
    /\ conn' = [p \in Peers |-> conn[p] /\ p \notin ps]
    /\ RemovePeers(ps)

(* <-errorsCh; a peer that is gone is not stopped again. *)
HandleError ==
    LET p == Head(errors) IN
    /\ errors # <<>>
    /\ errors' = Tail(errors)
    /\ IF conn[p] THEN StopPeers({p})
       ELSE UNCHANGED <<conn, req, peers, maxPeerHeight>>
    /\ UNCHANGED <<height, numPending, running, reconnects, status, net, peek, store>>

(* The connection fails; what the peer had sent may still be handled. *)
Disconnect(p) ==
    /\ conn[p] /\ p \notin Stable
    /\ StopPeers({p})
    /\ UNCHANGED <<height, numPending, errors, running, reconnects, status, net, peek, store>>

(* The peer connects again and sends its status (AddPeer on its side); what it
   sent before on the old connection and was not handled by now is lost. *)
Reconnect(p) ==
    /\ ~conn[p] /\ (p \in Stable \/ reconnects[p] < MaxReconnects)
    /\ conn' = [conn EXCEPT ![p] = TRUE]
    /\ reconnects' = [reconnects EXCEPT ![p] = Min({@ + 1, Max({MaxReconnects, MaxLate})})]
    /\ status' = [status EXCEPT ![p] = TRUE]
    /\ net' = {x \in net : x[1] # p}
    /\ UNCHANGED <<pool, errors, running, peek, store>>

(* statusUpdateTicker: every peer is asked for its status, and sends it;
   from a peer the pool has, this changes nothing. *)
BroadcastStatusRequest ==
    /\ status' = [p \in Peers |-> status[p] \/ (conn[p] /\ p \notin InPool)]
    /\ status' # status
    /\ UNCHANGED <<pool, errors, running, conn, reconnects, net, peek, store>>

(* trySync: PeekTwoBlocks, and VerifyReply of the first with the commit that
   the second carries.  What was peeked is kept outside the pool's lock. *)
Peek ==
    /\ peek = Idle
    /\ {height, height + 1} \subseteq DOMAIN req
    /\ req[height].block # None /\ req[height + 1].block # None
    /\ peek' = [pc |-> IF req[height].block.good /\ req[height + 1].block.reply
                       THEN "pop" ELSE "first",
                first |-> req[height].block]
    /\ UNCHANGED <<pool, errors, running, world, store>>

(* Mutant of Pop: the block is read from the requester again. *)
PopCurrent ==
    /\ peek.pc = "pop" /\ height \in DOMAIN req /\ req[height].block # None
    /\ req' = [h \in DOMAIN req \ {height} |-> req[h]]
    /\ height' = height + 1
    /\ store' = Append(store, req[height].block)
    /\ peek' = Idle
    /\ UNCHANGED <<peers, maxPeerHeight, numPending, errors, running, world>>

(* PopRequest, SaveBlock and ApplyBlock. *)
Pop ==
    /\ peek.pc = "pop" /\ height \in DOMAIN req
    /\ req' = [h \in DOMAIN req \ {height} |-> req[h]]
    /\ height' = height + 1
    /\ store' = Append(store, peek.first)
    /\ peek' = Idle
    /\ UNCHANGED <<peers, maxPeerHeight, numPending, errors, running, world>>

(* RedoRequest: the peer the requester has now is removed, and stopped. *)
RedoRequest(h, pc, next) ==
    LET p == req[h].peerID IN
    /\ peek.pc = pc
    /\ peek' = next
    /\ IF p = None THEN UNCHANGED <<conn, req, peers, maxPeerHeight>> ELSE StopPeers({p})
    /\ UNCHANGED <<height, numPending, errors, running, reconnects, status, net, store>>

IsCaughtUp ==
    /\ InPool # {} /\ height > 0
    /\ maxPeerHeight = 0 \/ height >= maxPeerHeight - 1

(* switchToConsensusTicker: the pool stops and consensus goes on from the state. *)
SwitchToConsensus ==
    /\ peek = Idle /\ IsCaughtUp
    /\ running' = FALSE
    /\ UNCHANGED <<pool, errors, world, peek, store>>

Requester(h) == h \in DOMAIN req /\ (Pick(h) \/ Assign(h) \/ Redo(h))
PoolRoutine ==
    \/ Peek \/ Pop
    \/ RedoRequest(height, "first", [peek EXCEPT !.pc = "second"])
    \/ RedoRequest(height + 1, "second", Idle)
    \/ SwitchToConsensus
Heights == Start..Max({Reports[p].height : p \in Peers})

(* What the stopped pool and its requesters still do has no effect. *)
Next ==
    /\ running
    /\ \/ removeTimedoutPeers \/ makeNextRequester \/ HandleError \/ PoolRoutine
       \/ BroadcastStatusRequest
       \/ \E h \in Heights : Requester(h)
       \/ \E p \in Peers :
             \/ SetPeerRange(p) \/ onTimeout(p)
             \/ Disconnect(p) \/ Reconnect(p)
             \/ \E h \in Heights : NoBlock(p, h) \/ (\E b \in Blocks : AddBlock(p, h, b))

Fairness ==
    /\ WF_vars(running /\ removeTimedoutPeers)
    /\ WF_vars(running /\ makeNextRequester)
    /\ WF_vars(running /\ HandleError)
    /\ WF_vars(running /\ PoolRoutine)
    /\ WF_vars(running /\ BroadcastStatusRequest)
    /\ \A h \in Heights : WF_vars(running /\ Requester(h))
    /\ \A p \in Peers : /\ WF_vars(running /\ SetPeerRange(p))
                        /\ WF_vars(running /\ onTimeout(p))
    /\ \A p \in Stable :
          /\ WF_vars(running /\ Reconnect(p))
          /\ \A h \in Heights : WF_vars(running /\ AddBlock(p, h, TrueBlock))

Spec == Init /\ [][Next]_vars /\ Fairness

(******************************* Properties ********************************)
TypeOK ==
    /\ height \in Nat /\ numPending \in Nat /\ maxPeerHeight \in Nat
    /\ \A h \in DOMAIN req : /\ req[h].pc \in {"pick", "assign", "wait"}
                             /\ {req[h].peerID, req[h].redo, req[h].picked} \subseteq Peers \cup {None}
                             /\ req[h].block \in Blocks \cup {None}
    /\ \A p \in InPool : peers[p].numPending \in Int

(* Only blocks of the chain are applied, each once and in order, whatever the
   faulty peers send and however requests are started over between the check
   of a block and its application: what is stored is what was verified. *)
OnlyChainApplied ==
    /\ \A i \in DOMAIN store : store[i].good
    /\ height = Start + Len(store)

(* The requesters are those of a run of heights that begins at the pool's:
   makeNextRequester counts them to find the next height, and PopRequest
   panics if the first is missing. *)
RequestersAreContiguous ==
    DOMAIN req = height..(height + Cardinality(DOMAIN req) - 1)

(* A requester that waits for nothing sure to come: its peer was not asked or
   need not answer, no timer of that peer runs in the pool, and nobody has told
   the requester to start over. *)
Stranded(h) ==
    LET r == req[h] IN
    /\ r.pc = "wait" /\ r.block = None /\ r.redo = None
    /\ r.peerID \notin Stable \/ ~conn[r.peerID] \/ <<r.peerID, h>> \notin net
    /\ peers[r.peerID] = None \/ (~peers[r.peerID].timer /\ ~peers[r.peerID].didTimeout)

(* With one stable peer block sync ends: the node switches to consensus,
   whatever other peers do and however often requests are started over,
   unless a requester is stranded.  Peers are removed only finitely often
   between the moment a requester picks one and the moment it notes it. *)
SyncEnds ==
    <>[][\A h \in DOMAIN req : req[h].lost => ~Assign(h)]_vars
        => <>(~running \/ \E h \in DOMAIN req : Stranded(h))
=============================================================================
