------------------------------- MODULE Switch -------------------------------
(***************************************************************************)
(* The peers of one node: gossip/switch.go with the connection filter of   *)
(* gossip/transport.go, the PeerSet of gossip/peer.go and the started and  *)
(* stopped flags of libs/service.                                          *)
(*                                                                         *)
(* A connection is a number.  It is filtered, upgraded and wrapped into a  *)
(* Peer, which addPeer hands to the reactors, starts and puts into the     *)
(* set of peers; from Start on its own routines may meet an error and call *)
(* StopPeerForError, whatever addPeer has still to do.  Every node has one *)
(* address, so a connection's IP is the node it leads to.                  *)
(***************************************************************************)
EXTENDS Integers, Sequences, FiniteSets

CONSTANTS
    Nodes,          \* the other nodes
    Persistent,     \* those of config.P2P.PersistentPeers
    MaxConns,       \* connections made in a behaviour
    MaxInbound,     \* config.P2P.MaxNumInboundPeers
    MaxAttempts,    \* reconnectAttempts + reconnectBackOffAttempts
    NoNode          \* the node of a connection not yet made

VARIABLES
    conn,           \* what has become of each connection
    conns,          \* Transport.conns: the connections the filter sees
    list, lookup,   \* PeerSet
    dialing,        \* Switch.dialing: who is dialling a node
    dialers,        \* routines of dialPeersAsync that have not dialled yet
    reconnecting,   \* Switch.reconnecting: the attempts a node has left
    accepting,      \* the connection acceptRoutine is busy with, or None
    stoppers,       \* calls of stopAndRemovePeer under way
    isRunning       \* BaseService.IsRunning of the Switch

switchVars == <<conn, conns, list, lookup, dialing, dialers, reconnecting,
                accepting, stoppers, isRunning>>

Conns == 1..MaxConns
None == 0
NoItem == [peer |-> None, index |-> 0]

(* A connection.  stage: where it is on its way through filterConn, upgrade*)
(* and addPeer: "unused", "filtered", "upgrading", "inited", "started",    *)
(* "peer" or "dropped".  service: the two flags of Peer's BaseService,     *)
(* "new", "running" or "stopped".  errored: MultiConn's flag of that name. *)
(* blamed: a reactor has refused a message of it.  up: the bytes flow.     *)
Unused == [node |-> NoNode, outbound |-> FALSE, stage |-> "unused", up |-> TRUE,
           service |-> "new", errored |-> FALSE, blamed |-> FALSE]

Init ==
    /\ conn = [c \in Conns |-> Unused]
    /\ conns = {} /\ list = <<>> /\ lookup = [n \in Nodes |-> NoItem]
    /\ dialing = [n \in Nodes |-> "no"] /\ dialers = Persistent
    /\ reconnecting = [n \in Nodes |-> 0]
    /\ accepting = None /\ stoppers = {} /\ isRunning = TRUE

----------------------------------------------------------------------------
(* PeerSet *)

Peers == {list[i] : i \in 1..Len(list)}

HasID(n) == lookup[n] # NoItem

(* Add: the peer goes to the end of the list. *)
Add(c) ==
    /\ list' = Append(list, c)
    /\ lookup' = [lookup EXCEPT ![conn[c].node] = [peer |-> c, index |-> Len(list) + 1]]

(* Remove: whichever peer the set has under the node's ID goes, and the    *)
(* last peer of the list takes its place.                                  *)
Remove(c) ==
    LET n == conn[c].node
        item == lookup[n]
        short == SubSeq(list, 1, Len(list) - 1)
        last == list[Len(list)]
    IN IF item = NoItem
       THEN UNCHANGED <<list, lookup>>
       ELSE IF item.index = Len(list)
       THEN list' = short /\ lookup' = [lookup EXCEPT ![n] = NoItem]
       ELSE /\ list' = [short EXCEPT ![item.index] = last]
            /\ lookup' = [lookup EXCEPT ![conn[last].node].index = item.index,
                                        ![n] = NoItem]

----------------------------------------------------------------------------
(* Making a connection *)

(* A connection number not used yet; numbers are taken in order. *)
Fresh(c) == c = 1 + Cardinality({d \in Conns : conn[d].stage # "unused"})

(* ConnDuplicateIPFilter, in filterConn: no connection to that address.    *)
(* The connection is put into the set only later, by Set.                  *)
Passes(n) == \A d \in conns : conn[d].node # n

(* acceptPeers: a node connects; a connection that does not pass leaves    *)
(* nothing behind.                                                         *)
acceptPeers(n, c) ==
    /\ c \in Conns /\ Fresh(c) /\ Passes(n)
    /\ conn' = [conn EXCEPT ![c] = [Unused EXCEPT !.node = n, !.stage = "filtered"]]
    /\ UNCHANGED <<conns, list, lookup, dialing, dialers, reconnecting, accepting,
                   stoppers, isRunning>>

IsDialingOrExistingAddress(n) == dialing[n] # "no" \/ HasID(n)

(* The attempts left when a dial of the given caller fails: reconnectToPeer*)
(* has used one up; otherwise addOutboundPeer starts reconnectToPeer for a *)
(* persistent node, unless it is already at work.                          *)
AfterFailure(n, by) ==
    [reconnecting EXCEPT ![n] = IF by = "reconnect" THEN @ - 1
                                ELSE IF @ = 0 /\ n \in Persistent THEN MaxAttempts ELSE @]

(* A routine of dialPeersAsync, or the next attempt of reconnectToPeer,    *)
(* calls DialPeerWithAddress: it gives up if the node is being dialled or  *)
(* is known, and otherwise dials it.                                       *)
DialPeerWithAddress(n, by, c) ==
    /\ IF by = "async" THEN n \in dialers
       ELSE reconnecting[n] > 0 /\ dialing[n] # "reconnect"
    /\ dialers' = IF by = "async" THEN dialers \ {n} ELSE dialers
    /\ IF IsDialingOrExistingAddress(n) \/ (by = "reconnect" /\ ~isRunning)
       THEN /\ reconnecting' = IF by = "reconnect" THEN [reconnecting EXCEPT ![n] = 0]
                               ELSE reconnecting
            /\ UNCHANGED <<conn, dialing>>
       ELSE \/ reconnecting' = AfterFailure(n, by) /\ UNCHANGED <<conn, dialing>>
            \/ /\ c \in Conns /\ Fresh(c) /\ Passes(n)
               /\ conn' = [conn EXCEPT ![c] = [Unused EXCEPT !.node = n, !.outbound = TRUE,
                                                             !.stage = "filtered"]]
               /\ dialing' = [dialing EXCEPT ![n] = by]
               /\ UNCHANGED reconnecting
    /\ UNCHANGED <<conns, list, lookup, accepting, stoppers, isRunning>>

(* The end of filterConn. *)
Set(c) ==
    /\ conn[c].stage = "filtered"
    /\ conns' = conns \cup {c}
    /\ conn' = [conn EXCEPT ![c].stage = "upgrading"]
    /\ UNCHANGED <<list, lookup, dialing, dialers, reconnecting, accepting, stoppers,
                   isRunning>>

(* The caller of DialPeerWithAddress gets its answer: reconnectToPeer ends *)
(* on success and goes on to its next attempt after a failure.             *)
Dialled(c, ok) ==
    LET n == conn[c].node
    IN IF ~conn[c].outbound
       THEN UNCHANGED <<dialing, reconnecting>>
       ELSE /\ dialing' = [dialing EXCEPT ![n] = "no"]
            /\ reconnecting' = IF dialing[n] # "reconnect" THEN reconnecting
                               ELSE [reconnecting EXCEPT ![n] = IF ok THEN 0 ELSE @ - 1]

(* upgrade fails: the connection is closed and leaves the set. *)
UpgradeFails(c) ==
    /\ conn[c].stage = "upgrading"
    /\ conn' = [conn EXCEPT ![c].stage = "dropped", ![c].up = FALSE]
    /\ conns' = conns \ {c}
    /\ IF conn[c].outbound
       THEN /\ dialing' = [dialing EXCEPT ![conn[c].node] = "no"]
            /\ reconnecting' = AfterFailure(conn[c].node, dialing[conn[c].node])
       ELSE UNCHANGED <<dialing, reconnecting>>
    /\ UNCHANGED <<list, lookup, dialers, accepting, stoppers, isRunning>>

Inbound == {c \in Peers : ~conn[c].outbound}

(* acceptRoutine's limit, from NumPeers. *)
TooMany == Cardinality(Inbound) >= MaxInbound

Release(c) == accepting' = IF conn[c].outbound THEN accepting ELSE None

(* upgrade succeeds, and addPeer begins.  Dial wraps its connection itself;*)
(* Accept hands an inbound one to acceptRoutine once that is free, which   *)
(* drops it if the node has enough inbound peers.  addPeer calls the       *)
(* reactors' InitPeer; a switch that has stopped takes no peer, and leaves *)
(* the connection open.                                                    *)
wrapPeer(c) ==
    /\ conn[c].stage = "upgrading"
    /\ conn[c].outbound \/ accepting = None
    /\ IF ~conn[c].outbound /\ TooMany
       THEN /\ conn' = [conn EXCEPT ![c].stage = "dropped", ![c].up = FALSE]
            /\ conns' = conns \ {c}
            /\ UNCHANGED <<dialing, reconnecting, accepting>>
       ELSE IF isRunning
       THEN /\ conn' = [conn EXCEPT ![c].stage = "inited"]
            /\ accepting' = IF conn[c].outbound THEN accepting ELSE c
            /\ UNCHANGED <<conns, dialing, reconnecting>>
       ELSE /\ conn' = [conn EXCEPT ![c].stage = "dropped"]
            /\ Dialled(c, TRUE)
            /\ UNCHANGED <<conns, accepting>>
    /\ UNCHANGED <<list, lookup, dialers, stoppers, isRunning>>

(* Peer.Start: the connection's routines run from here on. *)
Start(c) ==
    /\ conn[c].stage = "inited"
    /\ conn' = [conn EXCEPT ![c].stage = "started", ![c].service = "running"]
    /\ UNCHANGED <<conns, list, lookup, dialing, dialers, reconnecting, accepting,
                   stoppers, isRunning>>

(* The rest of addPeer: PeerSet.Add and the reactors' AddPeer.  The set    *)
(* refuses a second peer of a node; the caller then closes the connection  *)
(* and stops the peer.                                                     *)
addPeer(c) ==
    /\ conn[c].stage = "started"
    /\ IF HasID(conn[c].node)
       THEN /\ conn' = [conn EXCEPT ![c].stage = "dropped", ![c].up = FALSE,
                                    ![c].service = "stopped"]
            /\ conns' = conns \ {c}
            /\ Dialled(c, FALSE)
            /\ UNCHANGED <<list, lookup>>
       ELSE /\ conn' = [conn EXCEPT ![c].stage = "peer"]
            /\ Add(c)
            /\ Dialled(c, TRUE)
            /\ UNCHANGED conns
    /\ Release(c)
    /\ UNCHANGED <<dialers, stoppers, isRunning>>

----------------------------------------------------------------------------
(* Stopping a peer *)

(* The other end, or the network, closes a connection in use. *)
Fail(c) ==
    /\ conn[c].service = "running" /\ conn[c].up
    /\ conn' = [conn EXCEPT ![c].up = FALSE]
    /\ UNCHANGED <<conns, list, lookup, dialing, dialers, reconnecting, accepting,
                   stoppers, isRunning>>

Call(c, by) == [conn |-> c, by |-> by, at |-> "stop"]

(* Mutant of stopForError: only a peer that the set has is stopped. *)
stopWhenKnown(c) ==
    /\ conn[c].service = "running" /\ ~conn[c].up /\ ~conn[c].errored
    /\ conn' = [conn EXCEPT ![c].errored = TRUE]
    /\ stoppers' = IF c \in Peers THEN stoppers \cup {Call(c, "routine")} ELSE stoppers
    /\ UNCHANGED <<conns, list, lookup, dialing, dialers, reconnecting, accepting, isRunning>>

(* MultiConn.stopForError, called by the routine that met the error; it    *)
(* calls StopPeerForError once.  A routine of a peer that has been stopped *)
(* just ends.                                                              *)
stopForError(c) ==
    /\ conn[c].service = "running" /\ ~conn[c].up /\ ~conn[c].errored
    /\ conn' = [conn EXCEPT ![c].errored = TRUE]
    /\ stoppers' = stoppers \cup {Call(c, "routine")}
    /\ UNCHANGED <<conns, list, lookup, dialing, dialers, reconnecting, accepting, isRunning>>

(* A reactor that is given a message it refuses calls StopPeerForError. *)
StopPeerForError(c) ==
    /\ conn[c].service = "running" /\ ~conn[c].blamed
    /\ conn' = [conn EXCEPT ![c].blamed = TRUE]
    /\ stoppers' = stoppers \cup {Call(c, "reactor")}
    /\ UNCHANGED <<conns, list, lookup, dialing, dialers, reconnecting, accepting, isRunning>>

(* Switch.OnStop stops the peers it finds in the set. *)
OnStop ==
    /\ isRunning
    /\ isRunning' = FALSE
    /\ stoppers' = stoppers \cup {Call(c, "switch") : c \in Peers}
    /\ UNCHANGED <<conn, conns, list, lookup, dialing, dialers, reconnecting, accepting>>

(* stopAndRemovePeer: the connection is closed and the peer stopped, then  *)
(* the reactors and the set of peers forget it.                            *)
Stop(s) ==
    /\ s.at = "stop"
    /\ conns' = conns \ {s.conn}
    /\ conn' = [conn EXCEPT ![s.conn].up = FALSE, ![s.conn].service = "stopped"]
    /\ stoppers' = (stoppers \ {s}) \cup {[s EXCEPT !.at = "remove"]}
    /\ UNCHANGED <<list, lookup, dialing, dialers, reconnecting, accepting, isRunning>>

(* A persistent peer stopped for an error is dialled again. *)
RemovePeer(s) ==
    LET n == conn[s.conn].node
    IN /\ s.at = "remove"
       /\ Remove(s.conn)
       /\ stoppers' = stoppers \ {s}
       /\ reconnecting' = IF s.by # "switch" THEN AfterFailure(n, s.by) ELSE reconnecting
       /\ UNCHANGED <<conn, conns, dialing, dialers, accepting, isRunning>>

stopAndRemovePeer(s) == Stop(s) \/ RemovePeer(s)

----------------------------------------------------------------------------
(* What the node does with a connection that it has. *)
Proceed(c) ==
    Set(c) \/ wrapPeer(c) \/ Start(c) \/ addPeer(c) \/ stopForError(c)

Next ==
    \/ \E n \in Nodes, c \in Conns :
           acceptPeers(n, c) \/ \E by \in {"async", "reconnect"} : DialPeerWithAddress(n, by, c)
    \/ \E c \in Conns : Proceed(c) \/ UpgradeFails(c) \/ Fail(c) \/ StopPeerForError(c)
    \/ \E s \in stoppers : stopAndRemovePeer(s)
    \/ OnStop

Spec == Init /\ [][Next]_switchVars

(* The runtime schedules every goroutine, so each step that the node has   *)
(* begun is finished; the network owes nothing.                            *)
FairSpec ==
    /\ Spec
    /\ \A c \in Conns : WF_switchVars(Proceed(c))
    /\ WF_switchVars(\E s \in stoppers : stopAndRemovePeer(s))

----------------------------------------------------------------------------
(* A peer whose connection has failed does not run for ever, wherever      *)
(* addPeer was when it failed.  Connections are finitely many, so in the   *)
(* end there is no such peer.                                              *)
FailedIsStopped ==
    LET failed(c) == conn[c].service = "running" /\ ~conn[c].up
    IN (\E c \in Conns : failed(c)) ~> (\A c \in Conns : ~failed(c))
=============================================================================
