----------------------------- MODULE MCNetwork ------------------------------
(***************************************************************************)
(* Three layers of a node's connections, for TLC: a behaviour is one of the*)
(* switch with its transport and peer set, of a multiplexed connection, or *)
(* of the codec for the messages on it.                                    *)
(***************************************************************************)
EXTENDS MCCodec

CONSTANTS
    p, q,           \* the other nodes
    NoNode

VARIABLES
    part,           \* which of the modules the behaviour is of
    \* Switch
    conn, conns, list, lookup, dialing, dialers, reconnecting, accepting, stoppers,
    isRunning,
    \* MultiConn
    sendQueue, sending, recentlySent, sendSignal, callers, pc, batch, isSet, timer,
    bufConnWriter, wire, recving, received, accepted, pings, pongTimer, pongTimeoutCh,
    pongs, inst, connRunning

switchVars == <<conn, conns, list, lookup, dialing, dialers, reconnecting, accepting,
                stoppers, isRunning>>
multiVars == <<sendQueue, sending, recentlySent, sendSignal, callers, pc, batch, isSet,
              timer, bufConnWriter, wire, recving, received, accepted, pings, pongTimer,
              pongTimeoutCh, pongs, inst, connRunning>>

(* One node is dialled again when it is lost; two connections in all. *)
Switch == INSTANCE Switch WITH
    Nodes <- {p, q}, Persistent <- {p}, MaxConns <- 2, MaxInbound <- 1, MaxAttempts <- 1

----------------------------------------------------------------------------
(* Two channels: two messages of up to two packets, one of up to three with*)
(* pings, and an other end that has gone silent.                           *)
ConnInstances ==
    {[messages |-> 2, lengths |-> {1, 2}, pings |-> 0, silent |-> FALSE],
     [messages |-> 1, lengths |-> {1, 3}, pings |-> 2, silent |-> FALSE],
     [messages |-> 1, lengths |-> {2}, pings |-> 1, silent |-> TRUE]}

MultiConn == INSTANCE MultiConn WITH
    Priority <- <<1, 2>>, QueueCapacity <- 1, RecvCapacity <- 2, NumBatch <- 2,
    Instances <- ConnInstances, isRunning <- connRunning

----------------------------------------------------------------------------
(* The parts that a behaviour is not about stay in an initial state. *)
MCInit ==
    /\ part \in {"switch", "connection", "codec"}
    /\ Switch!Init /\ MultiConn!Init /\ Init
    /\ part # "codec" => msgType = Nil
    /\ part # "connection" => inst = CHOOSE i \in ConnInstances : ~i.silent

MCNext ==
    \/ part = "switch" /\ Switch!Next
           /\ UNCHANGED <<part, multiVars, vars>>
    \/ part = "connection" /\ MultiConn!Next
           /\ UNCHANGED <<part, switchVars, vars>>
    \/ part = "codec" /\ Next
           /\ UNCHANGED <<part, switchVars, multiVars>>

(* The fairness of each module, in its own behaviours. *)
MCFairness ==
    /\ \A c \in Switch!Conns : WF_switchVars(part = "switch" /\ Switch!Proceed(c))
    /\ WF_switchVars(part = "switch" /\ \E s \in stoppers : Switch!stopAndRemovePeer(s))
    /\ WF_multiVars(part = "connection" /\ MultiConn!Signal)
    /\ WF_multiVars(part = "connection" /\ MultiConn!fireRoutine)
    /\ WF_multiVars(part = "connection" /\ MultiConn!unsetTimer)
    /\ WF_multiVars(part = "connection" /\ (MultiConn!Flush \/ MultiConn!sendPacketMsg
                                            \/ MultiConn!Set \/ MultiConn!stopPongTimer))
    /\ WF_multiVars(part = "connection" /\ MultiConn!sendSomePacketMsgs)
    /\ WF_multiVars(part = "connection" /\ MultiConn!pongCase)
    /\ WF_multiVars(part = "connection" /\ MultiConn!pingTick)
    /\ WF_multiVars(part = "connection" /\ MultiConn!pongTimeout)
    /\ WF_multiVars(part = "connection" /\ MultiConn!receivePong)
    /\ WF_multiVars(part = "connection" /\ MultiConn!recvRoutine)

MCSpec ==
    /\ MCInit
    /\ [][MCNext]_<<part, switchVars, multiVars, vars>>
    /\ MCFairness

----------------------------------------------------------------------------
(* Switch: a connection with an error is stopped.                          *)
FailedIsStopped == Switch!FailedIsStopped

(* MultiConn: a channel delivers in order, and what Send took arrives.     *)
DeliversInOrder == MultiConn!DeliversInOrder
AcceptedArrives == MultiConn!AcceptedArrives
=============================================================================
